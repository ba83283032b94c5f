---------------------------- MODULE AtomicWindow ----------------------------
(***************************************************************************)
(* What the window limiter promises: every packet is checked in one step,  *)
(* against windows that start at a time.  There are no words, no ticks     *)
(* that wrap, no CPUs that interleave and no attempts that fail.           *)
(***************************************************************************)
EXTENDS Naturals

CONSTANTS
    Source, Limits, Incs,      \* sources; limits and increments of packets
    Window,                    \* length of a window
    Boot, MaxTime,             \* the clock runs from Boot to Boot + MaxTime
    MaxLag,                    \* the clock a packet is checked with may lag
    MaxElem                    \* bound: elements the key ever has

Time == Boot..Boot + MaxTime

VARIABLES
    clock,       \* the time
    next,        \* elements the key has had
    windows,     \* element -> [start, count]
    passed       \* <<source, time>> -> increments admitted

vars == <<clock, next, windows, passed>>

Init ==
    /\ clock = Boot /\ next = 0
    /\ windows = [e \in 1..0 |-> [start |-> Boot, count |-> 0]]
    /\ passed = [st \in Source \X Time |-> 0]

\* A window that starts with a packet at time now and counts i.
Fresh(now, i) == [start |-> now, count |-> i]

\* The key is not in the map: an element is made for it.
Create(now, i) ==
    /\ next < MaxElem /\ next' = next + 1
    /\ windows' = [e \in 1..next + 1 |-> IF e = next + 1 THEN Fresh(now, i) ELSE windows[e]]

\* The packet is outside of the element's window, and opens one of its own.
Reopen(e, now, i) ==
    /\ now >= windows[e].start + Window \/ now < windows[e].start
    /\ windows' = [windows EXCEPT ![e] = Fresh(now, i)]
    /\ UNCHANGED next

\* The packet is in the window, and the window has room for it.
Count(e, now, i, l) ==
    /\ windows[e].start <= now /\ now < windows[e].start + Window
    /\ windows[e].count + i <= l
    /\ windows' = [windows EXCEPT ![e].count = @ + i]
    /\ UNCHANGED next

\* A packet of limit l passes: its check takes no longer than the lag, and it
\* is within the limit by itself.
Check ==
    \E s \in Source, i \in Incs :
      /\ passed' = [passed EXCEPT ![<<s, clock>>] = @ + i] /\ UNCHANGED clock
      /\ \E now \in Time, l \in Limits :
           /\ now <= clock /\ clock <= now + MaxLag /\ i <= l
           /\ \/ Create(now, i)
              \/ \E e \in 1..next : Reopen(e, now, i) \/ Count(e, now, i, l)

Elapse == clock < Boot + MaxTime /\ clock' = clock + 1 /\ UNCHANGED <<next, windows, passed>>

Next == Check \/ Elapse

Spec == Init /\ [][Next]_vars
=============================================================================
