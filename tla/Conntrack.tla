----------------------------- MODULE Conntrack -----------------------------
(***************************************************************************)
(* TCP connection tracking and the connection limit of the packet path:    *)
(* check_tcp_conntrack (bpf/include/conntrack.h), allow_new_tcp_syn and    *)
(* the shared connection counters (bpf/include/rate_limit.h), the egress   *)
(* program tc_flow_track.c, and the daemon's garbage collection and seeds. *)
(*                                                                         *)
(* The flows are those of one source to one port, so that they share one   *)
(* counter.  Each CPU runs one program at a time, in steps of one map      *)
(* access.  Time stamps are kept as ages; a CPU reads the clock when its   *)
(* packet comes and lag is how much time has passed since.  An age smaller *)
(* than the lag is a time stamp of the future: now - ts wraps around and   *)
(* counts as expired.                                                      *)
(***************************************************************************)
EXTENDS Naturals, FiniteSets

CONSTANTS
    Cpu, Flow,
    Kinds,            \* packets that occur, of those in Ingress and Egress
    Limit,            \* conn_limit_max
    TcpTimeout, SynTimeout, Refresh,
    Retries,          \* CONN_STATE_RETRIES
    MaxCount,         \* 0xFFFFFFFF in the code
    Daemon,           \* TRUE when the daemon collects and seeds
    MaxLag,           \* bound: time that passes while a packet is processed
    MaxTime,          \* bound: time that passes at all
    None

Ingress == {"syn", "ack", "fin"}        \* fin: any FIN, or RST with ACK
Egress  == {"esyn", "eack", "erst"}

ASSUME ConntrackAssumption ==
    /\ IsFiniteSet(Cpu) /\ IsFiniteSet(Flow)
    /\ Kinds \subseteq Ingress \cup Egress
    /\ Limit \in Nat \ {0} /\ Retries \in Nat \ {0}
    /\ MaxCount \in Nat \ {0}
    /\ TcpTimeout \in Nat /\ SynTimeout \in 0..TcpTimeout /\ Refresh \in Nat
    /\ MaxLag \in Nat /\ MaxTime \in Nat /\ Daemon \in BOOLEAN

VARIABLES
    ent,         \* tcp_ct4/6: flow -> None or [pend, age]
    cnt,         \* tsc4/6: None or [n, age]
    cpu,         \* CPU -> its packet and its place in the program
    toDelete,    \* keys gc_expired has found and not yet deleted
    toSeed,      \* flows a reconcile has found missing and not yet seeded
    time,        \* time that has passed
    booked,      \* history: flows whose entry a handshake established and counted,
                 \* since the counter was started
    lost,        \* history: how many of those are established no longer and were
                 \* not uncounted
    spoilt       \* history: the counter left the book, see Tally and Uncount

vars == <<ent, cnt, cpu, toDelete, toSeed, time, booked, lost, spoilt>>

Oldest == TcpTimeout + MaxLag + 1
Entry  == [pend : BOOLEAN, age : 0..Oldest]
Word   == [n : 0..MaxCount, age : 0..Oldest]
Step   == {"idle", "check", "lookup", "delete", "promote", "refresh", "insert", "establish",
           "record", "activity", "close", "swap"}
Updates == {"record", "activity", "close"}
Job    == [at   : Step,                        \* the next map access
           kind : Kinds \cup {None}, flow : Flow \cup {None},
           lag  : 0..MaxLag,
           saw  : Entry \cup {None},           \* the entry that was looked up
           hold : {"same", "changed", "gone"}, \* what became of that element since
           op   : Updates \cup {"none"},
           seen : Word \cup {None},            \* the counter word that was read
           tries : 0..Retries]

ASSUME NoneAssumption == None \notin Entry \cup Word

NoJob == [at |-> "idle", kind |-> None, flow |-> None, lag |-> 0, saw |-> None, hold |-> "gone",
          op |-> "none", seen |-> None, tries |-> 0]

Init ==
    /\ ent = [f \in Flow |-> None] /\ cnt = None
    /\ cpu = [c \in Cpu |-> NoJob]
    /\ toDelete = {} /\ toSeed = {}
    /\ time = 0
    /\ booked = {} /\ lost = 0 /\ spoilt = FALSE

Est   == {f \in Flow : ent[f] # None /\ ~ent[f].pend}
Count == IF cnt = None THEN 0 ELSE cnt.n

\* now - ts > timeout, in unsigned arithmetic.
Expired(age, late, timeout) == age < late \/ age - late > timeout

\* The timeout of an entry.
TimeoutOf(e) == IF e.pend THEN SynTimeout ELSE TcpTimeout

daemonVars == <<toDelete, toSeed, time>>
bookVars   == <<booked, lost, spoilt>>

At(c, s)   == cpu[c].at = s
Goto(c, s) == cpu' = [cpu EXCEPT ![c].at = s]
Done(c)    == cpu' = [cpu EXCEPT ![c] = NoJob]

\* The element of flow f is changed in place, or replaced or deleted, while
\* other CPUs have a pointer to it; CPU c goes to s.  (An LRU hash map puts a
\* new element in place of the old one on every update.)
Touch(c, f, what, s) ==
    cpu' = [d \in Cpu |->
              IF d = c THEN IF s = "idle" THEN NoJob ELSE [cpu[c] EXCEPT !.at = s]
              ELSE IF cpu[d].flow = f /\ cpu[d].hold = "same" THEN [cpu[d] EXCEPT !.hold = what]
              ELSE cpu[d]]

-----------------------------------------------------------------------------
(* The book: what the counter should say. *)

\* The CPUs that have still to count, or to uncount, a connection.
Under(op)  == {c \in Cpu : At(c, op) \/ (At(c, "swap") /\ cpu[c].op = op)}

Spoil == spoilt' = TRUE /\ booked' = {} /\ lost' = 0

\* The flows B are booked, as far as their entries are established; the others
\* are lost to the counter.
Book(B) ==
    IF spoilt THEN UNCHANGED bookVars
    ELSE booked' = B \cap Est' /\ lost' = lost + Cardinality(B \ Est') /\ UNCHANGED spoilt

\* A packet that saw the entry of f established will uncount it: wrong if it is
\* not booked, because another did so before or no handshake made it.
Uncount(f) == IF f \in booked THEN Book(booked \ {f}) ELSE Spoil

\* An operation took place on word w.  The first connection after the timeout
\* starts the counter anew; an operation that finds nothing to uncount or to
\* keep alive, or no room to count, spoils it.
Tally(c, op, w) ==
    IF op = "record" /\ w.n > 0 /\ Expired(w.age, cpu[c].lag, TcpTimeout)
    THEN IF (Under("record") \cup Under("close")) \ {c} = {}
         THEN /\ booked' = {cpu[c].flow} \cap Est /\ lost' = 1 - Cardinality({cpu[c].flow} \cap Est)
              /\ spoilt' = FALSE
         ELSE Spoil
    ELSE IF w.n = (IF op = "record" THEN MaxCount ELSE 0) THEN Spoil ELSE UNCHANGED bookVars

-----------------------------------------------------------------------------
(* A packet on a CPU. *)

Begin(c) ==
    /\ At(c, "idle")
    /\ \E k \in Kinds, f \in Flow :
         cpu' = [cpu EXCEPT ![c] = [NoJob EXCEPT !.kind = k, !.flow = f,
                      !.at = CASE k = "syn"  -> "check"
                               [] k = "esyn" -> "establish"
                               [] OTHER      -> "lookup"]]
    /\ UNCHANGED <<ent, cnt, daemonVars, bookVars>>

\* Mutant: off by one.
LimitAlmostReached(late) ==
    cnt # None /\ cnt.n + 1 >= Limit /\ ~Expired(cnt.age, late, TcpTimeout)

\* shared_conn_count_check: the limit is reached.
LimitReached(late) ==
    cnt # None /\ cnt.n >= Limit /\ ~Expired(cnt.age, late, TcpTimeout)

\* precheck_new_tcp_syn, of which the rate limits are in RateWindow.
CheckLimit(c) ==
    /\ At(c, "check")
    /\ IF LimitReached(cpu[c].lag) THEN Done(c) ELSE Goto(c, "lookup")
    /\ UNCHANGED <<ent, cnt, daemonVars, bookVars>>

\* What a packet of kind k does after it has looked up entry e.
Decide(k, e, late) ==
    LET old     == Expired(e.age, late, IF k = "eack" THEN TcpTimeout ELSE TimeoutOf(e))
        refresh == e.age - late > Refresh
    IN  IF e = None THEN IF k = "syn" THEN "insert" ELSE "idle"
        ELSE IF k \in {"fin", "erst"} \/ old THEN "delete"
        ELSE IF k = "ack" /\ e.pend THEN "promote"
        ELSE IF refresh THEN "refresh" ELSE "idle"

Lookup(c) ==
    /\ At(c, "lookup")
    /\ LET j == cpu[c]
           s == Decide(j.kind, ent[j.flow], j.lag)
       IN  IF s = "idle" THEN Done(c)
           ELSE cpu' = [cpu EXCEPT ![c] = [j EXCEPT !.at = s, !.saw = ent[j.flow],
                                             !.hold = IF ent[j.flow] = None THEN "gone" ELSE "same"]]
    /\ UNCHANGED <<ent, cnt, daemonVars, bookVars>>

\* Delete the entry; an ingress program then uncounts one it saw established.
Delete(c) ==
    /\ At(c, "delete")
    /\ LET j == cpu[c]
           closes == j.kind \in Ingress /\ ~j.saw.pend
       IN  /\ ent' = [ent EXCEPT ![j.flow] = None]
           /\ Touch(c, j.flow, "gone",
                    IF closes THEN "close" ELSE IF j.kind = "syn" THEN "insert" ELSE "idle")
           /\ IF closes THEN Uncount(j.flow) ELSE Book(booked)
    /\ UNCHANGED <<cnt, daemonVars>>

\* Mutant: every ACK records the connection, not only the one that wins.
PromoteAll(c) ==
    /\ At(c, "promote")
    /\ LET j == cpu[c]
       IN  IF j.hold = "same"
           THEN /\ ent' = [ent EXCEPT ![j.flow] = [pend |-> FALSE, age |-> j.lag]]
                /\ Touch(c, j.flow, "changed", "record") /\ Book(booked \cup {j.flow})
           ELSE Goto(c, "record") /\ UNCHANGED <<ent, bookVars>>
    /\ UNCHANGED <<cnt, daemonVars>>

\* The ACK of the handshake: compare-and-swap on the element that was looked
\* up.  On one that is no longer in the map it may go either way.
Promote(c) ==
    /\ At(c, "promote")
    /\ LET j == cpu[c]
       IN  \/ /\ j.hold = "same"
              /\ ent' = [ent EXCEPT ![j.flow] = [pend |-> FALSE, age |-> j.lag]]
              /\ Touch(c, j.flow, "changed", "record") /\ Book(booked \cup {j.flow})
           \/ j.hold = "gone" /\ Goto(c, "record") /\ Spoil /\ UNCHANGED ent
           \/ j.hold # "same" /\ Done(c) /\ UNCHANGED <<ent, bookVars>>
    /\ UNCHANGED <<cnt, daemonVars>>

\* Mutant: the refresh is written with BPF_ANY.
RefreshAny(c) ==
    /\ At(c, "refresh")
    /\ LET j == cpu[c]
       IN  /\ ent' = [ent EXCEPT ![j.flow] = [pend |-> j.saw.pend, age |-> j.lag]]
           /\ Touch(c, j.flow, "gone", IF j.kind \in Ingress THEN "activity" ELSE "idle")
    /\ Book(booked)
    /\ UNCHANGED <<cnt, daemonVars>>

\* Update with BPF_EXIST.  Egress reads the pending bit again before it writes.
RefreshEntry(c) ==
    /\ At(c, "refresh")
    /\ LET j == cpu[c]
           f == j.flow
       IN  /\ IF ent[f] = None THEN UNCHANGED ent
              ELSE \E p \in CASE j.kind = "ack"  -> {FALSE}
                              [] j.kind = "syn"  -> {j.saw.pend}
                              [] j.kind = "eack" -> IF j.hold = "changed" THEN {j.saw.pend, ent[f].pend}
                                                                          ELSE {j.saw.pend} :
                     ent' = [ent EXCEPT ![f] = [pend |-> p, age |-> j.lag]]
           /\ Touch(c, f, "gone", IF j.kind \in Ingress THEN "activity" ELSE "idle")
    /\ Book(booked)
    /\ UNCHANGED <<cnt, daemonVars>>

\* A new half-open entry, or the established entry of an outgoing connection.
InsertEntry(c) ==
    /\ \E s \in {"insert", "establish"} :
         /\ At(c, s)
         /\ ent' = [ent EXCEPT ![cpu[c].flow] = [pend |-> s = "insert", age |-> cpu[c].lag]]
    /\ Touch(c, cpu[c].flow, "gone", "idle")
    /\ Book(booked)
    /\ UNCHANGED <<cnt, daemonVars>>

-----------------------------------------------------------------------------
(* shared_conn_count_update. *)

\* The program goes on after the counter: a SYN that replaced an expired entry
\* still inserts its own.
Counted(c, op) ==
    IF op = "close" /\ cpu[c].kind = "syn"
    THEN cpu' = [cpu EXCEPT ![c].at = "insert", ![c].op = "none", ![c].seen = None, ![c].tries = 0]
    ELSE Done(c)

\* Look the counter up and read it; only a new connection creates one.
CountRead(c) ==
    /\ \E op \in Updates :
         /\ At(c, op)
         /\ IF cnt = None
            THEN /\ Counted(c, op)
                 /\ cnt' = IF op = "record" THEN [n |-> 1, age |-> cpu[c].lag] ELSE None
                 /\ IF op = "close" THEN Spoil ELSE UNCHANGED bookVars
            ELSE /\ cpu' = [cpu EXCEPT ![c].at = "swap", ![c].op = op, ![c].seen = cnt]
                 /\ UNCHANGED <<cnt, bookVars>>
    /\ UNCHANGED <<ent, daemonVars>>

\* The count after an operation on word w.
NewCount(op, w, late) ==
    CASE op = "record"   -> IF w.n = 0 \/ Expired(w.age, late, TcpTimeout) THEN 1
                            ELSE IF w.n < MaxCount THEN w.n + 1 ELSE w.n
      [] op = "activity" -> IF w.n = 0 THEN 1 ELSE w.n
      [] op = "close"    -> IF w.n > 0 THEN w.n - 1 ELSE 0

\* Mutant: one more than the field holds.
FailTooHigh(late) == cnt' = [n |-> MaxCount + 1, age |-> late]

\* shared_conn_count_fail_closed.
FailClosed(late) == cnt' = [n |-> MaxCount, age |-> late]

\* The word is the one that was read.
WordUnchanged(c) == cnt = cpu[c].seen

\* Compare-and-swap on the element that was looked up.  On one that was evicted
\* meanwhile it does nothing to the map.
CountSwap(c) ==
    /\ At(c, "swap")
    /\ LET j == cpu[c]
       IN  IF j.seen = None THEN Counted(c, j.op) /\ UNCHANGED <<cnt, bookVars>>
           ELSE IF WordUnchanged(c)
           THEN /\ cnt' = [n |-> NewCount(j.op, j.seen, j.lag), age |-> j.lag]
                /\ Counted(c, j.op) /\ Tally(c, j.op, j.seen)
           ELSE IF j.tries + 1 < Retries
           THEN /\ cpu' = [cpu EXCEPT ![c].at = j.op, ![c].tries = @ + 1]
                /\ UNCHANGED <<cnt, bookVars>>
           ELSE FailClosed(j.lag) /\ Counted(c, j.op) /\ Spoil
    /\ UNCHANGED <<ent, daemonVars>>

-----------------------------------------------------------------------------
(* The daemon, eviction, and time. *)

\* Some flow's element is deleted or replaced from outside the packet path.
Detach(f) ==
    cpu' = [d \in Cpu |-> IF cpu[d].flow = f THEN [cpu[d] EXCEPT !.hold = "gone"] ELSE cpu[d]]

\* gc_expired reads all entries first and deletes the expired ones afterwards.
GcScan ==
    /\ Daemon /\ toDelete = {}
    /\ toDelete' = {f \in Flow : ent[f] # None /\ ent[f].age > TimeoutOf(ent[f])}
    /\ toDelete' # {}
    /\ UNCHANGED <<ent, cnt, cpu, toSeed, time, bookVars>>

GcDelete ==
    /\ \E f \in toDelete :
         /\ toDelete' = toDelete \ {f}
         /\ ent' = [ent EXCEPT ![f] = None]
         /\ Detach(f)
    /\ Book(booked)
    /\ UNCHANGED <<cnt, toSeed, time>>

\* A reconcile finds established sockets without an entry, and seeds them.
SeedScan ==
    /\ Daemon /\ toSeed = {}
    /\ \E fs \in SUBSET {f \in Flow : ent[f] = None} : fs # {} /\ toSeed' = fs
    /\ UNCHANGED <<ent, cnt, cpu, toDelete, time, bookVars>>

SeedSet ==
    /\ \E f \in toSeed :
         /\ toSeed' = toSeed \ {f}
         /\ ent' = [ent EXCEPT ![f] = [pend |-> FALSE, age |-> 0]]
         /\ Detach(f)
    /\ Book(booked)
    /\ UNCHANGED <<cnt, toDelete, time>>

\* The table is full and an insertion of any other flow takes the element of
\* this one: the counter is not told.
Evict ==
    /\ \E f \in Flow :
         /\ ent[f] # None
         /\ ent' = [ent EXCEPT ![f] = None]
         /\ Detach(f)
    /\ Book(booked)
    /\ UNCHANGED <<cnt, daemonVars>>

\* The same happens to the counter.  CPUs that are updating it go on with the
\* evicted element.
EvictCount ==
    /\ cnt # None /\ cnt' = None
    /\ cpu' = [c \in Cpu |->
                 IF At(c, "swap") \/ (cpu[c].at \in Updates /\ cpu[c].tries > 0)
                 THEN [cpu[c] EXCEPT !.at = "swap", !.op = IF At(c, "swap") THEN @ ELSE cpu[c].at,
                                     !.seen = None]
                 ELSE cpu[c]]
    /\ IF Under("record") \cup Under("close") = {}
       THEN booked' = {} /\ lost' = 0 /\ spoilt' = FALSE
       ELSE Spoil
    /\ UNCHANGED <<ent, daemonVars>>

Older(r) == IF r = None THEN None
            ELSE [r EXCEPT !.age = IF @ < Oldest THEN @ + 1 ELSE @]

Elapse ==
    /\ time < MaxTime /\ time' = time + 1
    /\ \A c \in Cpu : At(c, "idle") \/ cpu[c].lag < MaxLag
    /\ ent' = [f \in Flow |-> Older(ent[f])]
    /\ cnt' = Older(cnt)
    /\ cpu' = [c \in Cpu |-> IF At(c, "idle") THEN NoJob
                             ELSE [cpu[c] EXCEPT !.lag = @ + 1, !.saw = Older(@), !.seen = Older(@)]]
    /\ UNCHANGED <<toDelete, toSeed, bookVars>>

Packet(c) == \/ Begin(c) \/ CheckLimit(c) \/ Lookup(c) \/ Delete(c) \/ Promote(c)
             \/ RefreshEntry(c) \/ InsertEntry(c) \/ CountRead(c) \/ CountSwap(c)

Next == (\E c \in Cpu : Packet(c)) \/ GcScan \/ GcDelete \/ SeedScan \/ SeedSet \/ Evict
        \/ EvictCount \/ Elapse

Spec == Init /\ [][Next]_vars

-----------------------------------------------------------------------------
(* Properties. *)

\* Types of all variables; what is booked is established.
MapType    == ent \in [Flow -> Entry \cup {None}] /\ cnt \in Word \cup {None}
JobType    == cpu \in [Cpu -> Job]
DaemonType == toDelete \subseteq Flow /\ toSeed \subseteq Flow /\ time \in 0..MaxTime
BookType   == booked \subseteq Est /\ lost \in Nat /\ spoilt \in BOOLEAN
TypeOK     == MapType /\ JobType /\ DaemonType /\ BookType

\* What the counter should say when all that is under way is done.
Due == Cardinality(booked) + lost

\* "Connection counters need the timestamp and count to change as one unit"
\* and "Only the ACK that wins this transition records the connection"
\* (rate_limit.h, conntrack.h): whatever the CPUs interleave, also on one flow,
\* the counter and the updates under way make up the connections that a
\* handshake established, one for each, and those of them that were evicted,
\* collected or reset by an outgoing packet and so never uncounted.
CountExact ==
    ~spoilt => Count + Cardinality(Under("record")) = Due + Cardinality(Under("close"))

\* A SYN is dropped for the limit only when that many connections are
\* established, lost to the counter or on their way out, or it is spoilt.
LimitDropJustified ==
    [][\A c \in Cpu : (At(c, "check") /\ cpu'[c].at = "idle") =>
         spoilt \/ Due + Cardinality(Under("close")) >= Limit]_vars

\* An entry that was closed or collected is not brought back by a
\* packet that had looked it up before: only a SYN, an outgoing SYN or a seed
\* of the daemon creates one.
NoResurrection ==
    [][\A f \in Flow : (ent[f] = None /\ ent'[f] # None) =>
         \/ f \in toSeed \ toSeed'
         \/ \E c \in Cpu : cpu[c].flow = f /\ cpu[c].at \in {"insert", "establish"}]_vars
=============================================================================
