----------------------------- MODULE PolicySync -----------------------------
(***************************************************************************)
(* What the daemon promises: the policy in force is one that was right at  *)
(* some time, it follows the listening sockets and never goes back to an   *)
(* older version, except to nothing when the maps are replaced by fresh    *)
(* ones; and once the sockets come to rest it catches up for good.         *)
(***************************************************************************)
EXTENDS Naturals

CONSTANT MaxListen         \* bound: changes of the listening sockets

VARIABLES listeners,       \* version of the listening sockets
          applied          \* version in force, 0 for fresh maps

Init == listeners = 1 /\ applied = 0

\* A socket starts or stops listening.
Listen == listeners < MaxListen /\ listeners' = listeners + 1 /\ UNCHANGED applied

\* A reconcile puts a version in force that is no older than the last one.
Apply == applied' \in applied..listeners /\ UNCHANGED listeners

\* The program is loaded again and its maps start empty.
Fresh == applied' = 0 /\ UNCHANGED listeners

Next == Listen \/ Apply \/ Fresh

\* The safety part of the promise.
Safety == Init /\ [][Next]_<<listeners, applied>>

CatchUp == applied # listeners /\ Apply /\ applied' = listeners

Spec == Safety /\ WF_<<listeners, applied>>(CatchUp)
=============================================================================
