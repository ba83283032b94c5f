----------------------------- MODULE RateWindow -----------------------------
(***************************************************************************)
(* The window counter behind the SYN and UDP rate limits of the packet     *)
(* path: WINDOW_RATE_CHECK and its callers in bpf/include/rate_limit.h.    *)
(*                                                                         *)
(* One key of one LRU rate map, shared by the packets of all sources of    *)
(* one prefix, and the CPUs that run the check on it.  A CPU reads the     *)
(* clock once per packet; the element is a word of a start tick and a      *)
(* count that changes by compare-and-swap.  Ticks are TickMod wide.  An    *)
(* element that was evicted is still written through old pointers.         *)
(***************************************************************************)
EXTENDS Naturals, Functions

CONSTANTS
    Cpu, Source,         \* CPUs, and the sources that share the key
    Limits,              \* rate_max, as the policy has it when a packet comes
    Incs,                \* increments: 1 for a packet, bytes for udp_agg_rate_check
    Window,              \* rate_state_window_ticks
    TickMod,             \* 2^32 in the code
    Retries,             \* RATE_STATE_RETRIES
    Boot, MaxTime,       \* the clock runs from Boot to Boot + MaxTime
    MaxLag,              \* bound: ticks that pass while a packet is checked
    MaxElem              \* bound: elements the key ever has

Elem == 1..MaxElem
Time == Boot..Boot + MaxTime

ASSUME RateAssumption ==
    /\ Limits \subseteq Nat \ {0} /\ Incs \subseteq Nat \ {0}
    /\ Window \in Nat \ {0} /\ TickMod \in Nat \ {0} /\ Retries \in Nat \ {0}
    /\ Boot \in Nat /\ MaxTime \in Nat /\ MaxLag \in Nat /\ MaxElem \in Nat

VARIABLES
    clock,       \* bpf_ktime_get_ns, in ticks
    cur,         \* the element the map has for the key, 0 for none
    next,        \* the last element that was allocated
    word,        \* element -> [tick, count]
    pc, pkt,     \* per CPU: place in the check; source, clock, increment and limit of the packet
    ptr, seen,   \* per CPU: element found, word read
    tries,       \* per CPU: attempts that failed
    inWindow,    \* history: increments admitted since the element's window opened
    passed       \* history: <<source, time>> -> increments admitted

vars == <<clock, cur, next, word, pc, pkt, ptr, seen, tries, inWindow, passed>>

Word   == [tick : 0..TickMod - 1, count : Nat]
Packet == [src : Source, now : Time, inc : Incs, lim : Limits]

\* (__u32)(a - b) for ticks.
Minus(a, b) == (a + TickMod - b) % TickMod

\* Mutant: the clock is not cut to the width of the word.
TickUncut(t) == t

\* rate_state_tick.
Tick(t) == t % TickMod

Init ==
    /\ clock = Boot /\ cur = 0 /\ next = 0
    /\ word = [e \in Elem |-> [tick |-> 0, count |-> 0]]
    /\ pc = [c \in Cpu |-> "idle"]
    /\ pkt \in [Cpu -> {p \in Packet : p.now = Boot}]
    /\ ptr = [c \in Cpu |-> 0]
    /\ seen = [c \in Cpu |-> [tick |-> 0, count |-> 0]]
    /\ tries = [c \in Cpu |-> 0]
    /\ inWindow = [e \in Elem |-> 0]
    /\ passed = [st \in Source \X Time |-> 0]

-----------------------------------------------------------------------------
\* A packet arrives; one that alone is over the limit is dropped at once.
Arrive(c) ==
    /\ pc[c] = "idle"
    /\ \E s \in Source, i \in Incs, l \in Limits :
         /\ i <= l
         /\ pkt' = [pkt EXCEPT ![c] = [src |-> s, now |-> clock, inc |-> i, lim |-> l]]
    /\ pc' = [pc EXCEPT ![c] = "lookup"]
    /\ tries' = [tries EXCEPT ![c] = 0]
    /\ UNCHANGED <<clock, cur, next, word, ptr, seen, inWindow, passed>>

\* Mutant: a packet whose key is not in the map passes uncounted.
LookupFailsOpen(c) ==
    /\ pc[c] = "lookup"
    /\ ptr' = [ptr EXCEPT ![c] = cur]
    /\ pc' = [pc EXCEPT ![c] = IF cur = 0 THEN "idle" ELSE "read"]
    /\ passed' = [passed EXCEPT ![<<pkt[c].src, clock>>] = IF cur = 0 THEN @ + pkt[c].inc ELSE @]
    /\ UNCHANGED <<clock, cur, next, word, pkt, seen, tries, inWindow>>

\* bpf_map_lookup_elem.
Lookup(c) ==
    /\ pc[c] = "lookup"
    /\ ptr' = [ptr EXCEPT ![c] = cur]
    /\ pc' = [pc EXCEPT ![c] = IF cur = 0 THEN "create" ELSE "read"]
    /\ UNCHANGED <<clock, cur, next, word, pkt, seen, tries, inWindow, passed>>

\* The attempt failed: try again, or drop the packet after the last one.
Retry(c) ==
    /\ tries' = [tries EXCEPT ![c] = @ + 1]
    /\ pc' = [pc EXCEPT ![c] = IF tries[c] + 1 < Retries THEN "lookup" ELSE "idle"]

\* The packet passes and is counted in element e.
Pass(c, e, w, total) ==
    /\ pc' = [pc EXCEPT ![c] = "idle"]
    /\ word' = [word EXCEPT ![e] = w]
    /\ inWindow' = [inWindow EXCEPT ![e] = total]
    /\ passed' = [passed EXCEPT ![<<pkt[c].src, clock>>] = @ + pkt[c].inc]

\* bpf_map_update_elem with BPF_NOEXIST: loses against another CPU's element.
Create(c) ==
    /\ pc[c] = "create"
    /\ IF cur = 0
       THEN /\ next < MaxElem /\ next' = next + 1 /\ cur' = next + 1
            /\ Pass(c, next + 1, [tick |-> Tick(pkt[c].now), count |-> pkt[c].inc], pkt[c].inc)
            /\ UNCHANGED tries
       ELSE Retry(c) /\ UNCHANGED <<cur, next, word, inWindow, passed>>
    /\ UNCHANGED <<clock, pkt, ptr, seen>>

\* The update may fail with no element there: the map finds no memory for one.
CreateFails(c) ==
    /\ pc[c] = "create" /\ cur = 0 /\ Retry(c)
    /\ UNCHANGED <<clock, cur, next, word, pkt, ptr, seen, inWindow, passed>>

\* Mutant: ticks are compared as if they never wrapped.
WindowOverNoWrap(w, now) == Tick(now) >= w.tick + Window

\* The window that starts at w.tick is over for a packet of time now.
WindowOver(w, now) == Minus(Tick(now), w.tick) >= Window

\* Mutant: the packet itself is not counted.
OverLimitByOne(w, p) == w.count > p.lim

\* _old_count > _limit or _inc > _limit - _old_count.
OverLimit(w, p) == w.count + p.inc > p.lim

\* The word is read in one piece; a packet over the limit is dropped.
Read(c) ==
    /\ pc[c] = "read"
    /\ LET w == word[ptr[c]]
       IN  /\ seen' = [seen EXCEPT ![c] = w]
           /\ pc' = [pc EXCEPT ![c] =
                       IF ~WindowOver(w, pkt[c].now) /\ OverLimit(w, pkt[c]) THEN "idle" ELSE "swap"]
    /\ UNCHANGED <<clock, cur, next, word, pkt, ptr, tries, inWindow, passed>>

\* Mutant: the word is stored without a comparison.
StoreBlindly(c) == TRUE

\* The word is still the one that was read.
Unchanged(c) == word[ptr[c]] = seen[c]

\* The compare-and-swap, with a window that is over opened anew.
Swap(c) ==
    /\ pc[c] = "swap"
    /\ IF Unchanged(c)
       THEN /\ LET w == seen[c]
                   p == pkt[c]
               IN  IF WindowOver(w, p.now)
                   THEN Pass(c, ptr[c], [tick |-> Tick(p.now), count |-> p.inc], p.inc)
                   ELSE Pass(c, ptr[c], [tick |-> w.tick, count |-> w.count + p.inc],
                             inWindow[ptr[c]] + p.inc)
            /\ UNCHANGED tries
       ELSE Retry(c) /\ UNCHANGED <<word, inWindow, passed>>
    /\ UNCHANGED <<clock, cur, next, pkt, ptr, seen>>

\* The LRU map evicts the element to make room for another key.
Evict ==
    /\ cur # 0 /\ next < MaxElem /\ cur' = 0
    /\ UNCHANGED <<clock, next, word, pc, pkt, ptr, seen, tries, inWindow, passed>>

\* A tick passes; no packet is under way for more than MaxLag ticks.
Elapse ==
    /\ clock < Boot + MaxTime /\ clock' = clock + 1
    /\ \A c \in Cpu : pc[c] # "idle" => clock - pkt[c].now < MaxLag
    /\ UNCHANGED <<cur, next, word, pc, pkt, ptr, seen, tries, inWindow, passed>>

Next == \/ \E c \in Cpu : \/ Arrive(c) \/ Lookup(c) \/ Create(c) \/ CreateFails(c)
                           \/ Read(c) \/ Swap(c)
        \/ Evict \/ Elapse

Spec == Init /\ [][Next]_vars

-----------------------------------------------------------------------------
(* Properties. *)

\* Types of all variables.
TypeOK ==
    /\ clock \in Time
    /\ next \in 0..MaxElem /\ cur \in 0..next
    /\ word \in [Elem -> Word]
    /\ pc \in [Cpu -> {"idle", "lookup", "create", "read", "swap"}]
    /\ pkt \in [Cpu -> Packet]
    /\ ptr \in [Cpu -> 0..next]
    /\ \A c \in Cpu : pc[c] \in {"read", "swap"} => ptr[c] # 0
    /\ seen \in [Cpu -> Word]
    /\ tries \in [Cpu -> 0..Retries]
    /\ inWindow \in [Elem -> Nat]
    /\ passed \in [Source \X Time -> Nat]

\* "Pack the window timestamp and the count into one 64-bit state word so
\* rollover and increment happen in one cmpxchg" (rate_limit.h): whatever the
\* CPUs interleave, the count is what was admitted since the window opened.
CountExact == \A e \in Elem : word[e].count = inWindow[e]

\* A packet is admitted only while its window holds no more than its limit,
\* itself included: no update of another CPU is lost in between.
AdmittedWithinLimit ==
    [][\A e \in Elem : inWindow'[e] # inWindow[e] =>
         \E c \in Cpu : pc[c] # "idle" /\ pc'[c] = "idle" /\ inWindow'[e] <= pkt[c].lim]_vars

\* Increments admitted from a set of sources in an interval of time.
Admitted(S, from, to) == SumFunctionOnSet(passed, S \X {t \in Time : from <= t /\ t <= to})

\* A CPU drops the packet because the count is at the limit.
LimitDrop(c) == pc[c] = "read" /\ pc'[c] = "idle"

\* A packet is dropped for its rate only when packets worth the limit were
\* admitted within the window, give or take the lag of a check.
DropJustified ==
    [][\A c \in Cpu : LimitDrop(c) =>
         Admitted(Source, clock + 1 - Window - MaxLag, clock) + pkt[c].inc > pkt[c].lim]_vars

MaxLimit == CHOOSE l \in Limits : \A k \in Limits : k <= l

\* Windows of one element that can admit packets in the time of one window:
\* one that opened before and one that opens in it.  When checks lag, two can
\* open in it, and checks that lag more than the last opening can open each of
\* the two again, from the past, once per tick of lag.
BurstWindows == IF MaxLag = 0 THEN 2 ELSE 3 + 2 * MaxLag

\* How much can pass in the time of one window, with an element for each
\* eviction; for checks that lag at most half a window.
BurstBound ==
    \A t \in Time : Admitted(Source, t, t + Window - 1) <= next * BurstWindows * MaxLimit

\* The window of element e, with the time that its tick stands for.
WindowOf(e) ==
    [start |-> CHOOSE t \in Time : Tick(t) = word[e].tick, count |-> word[e].count]

\* The same key with checks of one step and times that never wrap.
Atomic == INSTANCE AtomicWindow WITH windows <- [e \in 1..next |-> WindowOf(e)]

\* WINDOW_RATE_CHECK behaves as if every packet were checked in one indivisible
\* step: its lookups, reads, failed attempts and evictions change nothing that
\* can be observed, and the 32-bit tick tells windows apart as the time does.
ChecksAreAtomic == Atomic!Spec
=============================================================================
