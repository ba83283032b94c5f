------------------------------- MODULE Syncer -------------------------------
(***************************************************************************)
(* The watch loop of the sync daemon (auto_xdp/syncer.py, watch()) and its *)
(* event sources: the proc connector, the pkt_relay socket and SIGHUP.     *)
(*                                                                         *)
(* The set of listening sockets is abstracted to a version number that     *)
(* grows with every change; "applied" is the version the firewall was last *)
(* reconciled to.  The loop is a single thread: pc is where it stands.     *)
(* Clock values are kept as ages (now - t) in ticks of the shortest wait   *)
(* (0.05 s), capped where the code no longer tells them apart; time passes *)
(* only while the loop waits.                                              *)
(***************************************************************************)
EXTENDS Naturals

CONSTANTS
    Debounce,      \* cfg.DEBOUNCE_SECONDS
    Poll,          \* the timeout when no event is pending, 1 s
    MaxWait,       \* DEBOUNCE_MAX_WAIT_SECONDS
    Full,          \* FULL_RECONCILE_INTERVAL_SECONDS, and the 30 s stale check
    Retry,         \* EVENT_SOURCE_RETRY_INTERVAL_SECONDS, and the 5 s backoff
    MaxListen,     \* bound: changes of the listening sockets
    MaxFaults,     \* bound: errors of any kind
    MaxEvents      \* bound: hangups, SIGHUPs and program reloads

ASSUME TimeAssumption ==
    /\ Debounce \in Nat \ {0} /\ Poll \in Nat \ {0} /\ MaxWait \in Nat \ {0}
    /\ Full \in Nat
    /\ Retry \in Nat \ {0}
    /\ Debounce + MaxWait <= Full /\ Retry + Poll <= Full

ASSUME BoundAssumption == MaxListen \in Nat /\ MaxFaults \in Nat /\ MaxEvents \in Nat

VARIABLES
    pc,            \* where the loop stands
    caller,        \* the call site of the running sync_once
    listeners,     \* version of the listening sockets
    observed,      \* version the running sync_once has discovered
    applied,       \* version in force, 0 when the maps are fresh
    announced,     \* history: newest version the open proc connector told of
    backend,       \* "none", "open", or "stale": its maps were replaced
    failures,      \* backend.last_apply_failures is not 0
    nl, nlReady,   \* proc connector is open; it has an event queued
    relay,         \* "none", "open" or "eof"
    relayReady,    \* a port_change line waits in the relay socket
    sighup,        \* reload_requested
    lastEvent,     \* age of last_event_t, NoEvent when it is 0.0
    firstEvent,    \* age of first_event_t, NoEvent when it is 0.0
    lastReconcile, \* age of last_reconcile_t
    lastStale,     \* age of last_stale_check_t
    nlAge, relayAge,  \* age of the last connection attempts
    left,          \* what is left of the wait
    burst,         \* a proc event was queued in this tick
    sinceRead,     \* history: age of the last attempt to read the system state
    faults, events

vars == <<pc, caller, listeners, observed, applied, announced, backend, failures, nl, nlReady, relay, relayReady,
          sighup, lastEvent, firstEvent, lastReconcile, lastStale, nlAge, relayAge, left,
          burst, sinceRead, faults, events>>

NoEvent  == Full + 1                           \* a time stamp that is still 0.0
Older(n) == IF n < Full THEN n + 1 ELSE n      \* one tick later

Lesser(a, b) == IF a < b THEN a ELSE b
\* Mutant: the floor of 0.05 s is forgotten.
NoFloor(a, b) == a - b

AtLeast1(a, b) == IF a > b THEN a - b ELSE 1       \* max(0.05, a - b)

timeVars   == <<lastReconcile, lastStale, nlAge, relayAge, sinceRead>>
sourceVars == <<nl, nlReady, relay, relayReady, sighup>>
eventVars  == <<lastEvent, firstEvent>>
policyVars == <<listeners, observed, applied, announced>>

Fault == faults < MaxFaults /\ faults' = faults + 1

ClearEvents == lastEvent' = NoEvent /\ firstEvent' = NoEvent
ArmNow      == lastEvent' = 0 /\ firstEvent' = 0
ArmEvent    == lastEvent' = 0 /\ firstEvent' = IF firstEvent = NoEvent THEN 0 ELSE firstEvent

\* The proc connector is closed: what it announced is forgotten.
DropProc == nl' = FALSE /\ nlReady' = FALSE /\ nlAge' = 0 /\ announced' = 0

\* The machine has been up for at least Full when the daemon starts.
Init ==
    /\ pc = "top" /\ caller = "open"
    /\ listeners = 1 /\ observed = 0 /\ applied = 0 /\ announced = 0
    /\ backend = "none" /\ failures = FALSE
    /\ nl = FALSE /\ nlReady = FALSE /\ relay = "none" /\ relayReady = FALSE /\ sighup = FALSE
    /\ lastEvent = NoEvent /\ firstEvent = NoEvent
    /\ lastReconcile = NoEvent /\ lastStale = Full /\ nlAge = Retry /\ relayAge = Retry
    /\ left = 0 /\ burst = FALSE /\ sinceRead = 0
    /\ faults = 0 /\ events = 0

-----------------------------------------------------------------------------
(* Top of the loop: backend, event sources, timeout. *)

\* open_backend: the probes and the map opens succeed, or raise.
OpenBackend ==
    /\ pc = "top" /\ backend = "none"
    /\ \/ /\ backend' = "open" /\ failures' = FALSE
          /\ pc' = "discover" /\ caller' = "open" /\ UNCHANGED <<faults, left>>
       \/ Fault /\ pc' = "sleep" /\ left' = Retry /\ UNCHANGED <<backend, failures, caller>>
    /\ UNCHANGED <<policyVars, sourceVars, eventVars, timeVars, burst, events>>

\* Mutant: the timeout is not cut short for the periodic reconcile.
TimeoutUnclipped == IF lastEvent = NoEvent THEN Poll ELSE AtLeast1(Debounce, lastEvent)

\* The timeout of select: until the debounce ends, or Poll, and no longer than
\* until the next periodic reconcile.
Timeout ==
    LET quiet == IF lastEvent = NoEvent THEN Poll ELSE AtLeast1(Debounce, lastEvent)
    IN  IF lastReconcile = NoEvent THEN quiet
        ELSE Lesser(quiet, AtLeast1(Full, lastReconcile))

\* open_proc_connector and _open_relay_client, at most every Retry; each may
\* fail without further consequence.
Connect ==
    /\ pc = "top" /\ backend # "none"
    /\ IF ~nl /\ nlAge >= Retry
       THEN nl' \in BOOLEAN /\ nlAge' = 0
       ELSE UNCHANGED <<nl, nlAge>>
    /\ IF relay = "none" /\ relayAge >= Retry
       THEN relay' \in {"none", "open"} /\ relayAge' = 0
       ELSE UNCHANGED <<relay, relayAge>>
    /\ left' = Timeout
    /\ pc' = "wait"
    /\ UNCHANGED <<caller, policyVars, backend, failures, nlReady, relayReady, sighup, eventVars,
                   lastReconcile, lastStale, burst, sinceRead, faults, events>>

\* select returns early when a source has something to read.
Readable == nlReady \/ relayReady \/ relay = "eof"

\* The clock, while the loop sleeps or waits in select.
Tick ==
    /\ pc \in {"sleep", "wait"} /\ left > 0
    /\ pc = "wait" => ~Readable
    /\ left' = left - 1 /\ burst' = FALSE
    /\ lastEvent' = Older(lastEvent) /\ firstEvent' = Older(firstEvent)
    /\ lastReconcile' = Older(lastReconcile) /\ lastStale' = Older(lastStale)
    /\ nlAge' = Lesser(nlAge + 1, Retry) /\ relayAge' = Lesser(relayAge + 1, Retry)
    /\ sinceRead' = IF backend = "none" THEN 0 ELSE sinceRead + 1
    /\ UNCHANGED <<pc, caller, policyVars, backend, failures, sourceVars, faults, events>>

\* time.sleep(5) is over.
WakeUp ==
    /\ pc = "sleep" /\ left = 0
    /\ pc' = "top"
    /\ UNCHANGED <<caller, policyVars, backend, failures, sourceVars, eventVars, timeVars, left,
                   burst, faults, events>>

-----------------------------------------------------------------------------
(* After select: proc events, the relay, SIGHUP. *)

\* drain_proc_events, then the relay if it is readable.  An error of select
\* drops the proc connector and skips the relay until the next round.
ReadEvents ==
    /\ pc = "wait" /\ (Readable \/ left = 0)
    /\ left' = 0
    /\ \/ /\ IF nlReady THEN ArmEvent ELSE UNCHANGED eventVars
          /\ nlReady' = FALSE
          /\ pc' = "relay"
          /\ UNCHANGED <<nl, nlAge, announced, faults>>
       \/ nl /\ Fault /\ DropProc /\ pc' = "reload" /\ UNCHANGED eventVars
    /\ UNCHANGED <<caller, listeners, observed, applied, backend, failures, relay, relayReady,
                   sighup, lastReconcile, lastStale, relayAge, burst, sinceRead, events>>

\* _drain_relay_lines: at end of file the lines already received are thrown
\* away with the connection; a port_change line calls sync_once at once.
ReadRelay ==
    /\ pc = "relay"
    /\ relayReady' = FALSE
    /\ \/ /\ relay = "eof"
          /\ relay' = "none" /\ relayAge' = 0
          /\ pc' = "reload" /\ UNCHANGED caller
       \/ /\ relay # "eof" /\ relayReady
          /\ pc' = "discover" /\ caller' = "relay" /\ UNCHANGED <<relay, relayAge>>
       \/ /\ relay # "eof" /\ ~relayReady
          /\ pc' = "reload" /\ UNCHANGED <<caller, relay, relayAge>>
    /\ UNCHANGED <<policyVars, backend, failures, nl, nlReady, sighup, eventVars,
                   lastReconcile, lastStale, nlAge, left, burst, sinceRead, faults, events>>

\* SIGHUP: a configuration that does not load is dropped, and the rest of the
\* round with it; one that moves the maps or the table closes the backend.
Reload ==
    /\ pc = "reload"
    /\ \/ /\ ~sighup
          /\ pc' = IF backend = "none" THEN "top" ELSE "event"
          /\ UNCHANGED <<sighup, eventVars, backend, faults>>
       \/ /\ sighup /\ Fault
          /\ sighup' = FALSE /\ pc' = "top"
          /\ UNCHANGED <<eventVars, backend>>
       \/ /\ sighup
          /\ sighup' = FALSE
          /\ backend' \in {backend, "none"}
          /\ lastEvent' = Debounce /\ firstEvent' = Debounce
          /\ pc' = IF backend' = "none" THEN "top" ELSE "event"
          /\ UNCHANGED faults
    /\ UNCHANGED <<caller, policyVars, failures, nl, nlReady, relay, relayReady, timeVars, left,
                   burst, events>>

\* Mutant: a debounce without the cap.
QuietOnly == lastEvent # NoEvent /\ lastEvent >= Debounce

\* The debounce: quiet for Debounce, or MaxWait after the first event.
DebounceFires ==
    lastEvent # NoEvent /\ (lastEvent >= Debounce \/ firstEvent >= MaxWait)

\* What is queued on the proc connector is drained before the sync.
EventSync ==
    /\ pc = "event"
    /\ IF DebounceFires THEN pc' = "discover" /\ caller' = "event" /\ nlReady' = FALSE
                        ELSE pc' = "periodic" /\ UNCHANGED <<caller, nlReady>>
    /\ UNCHANGED <<policyVars, backend, failures, nl, relay, relayReady, sighup, eventVars,
                   timeVars, left, burst, faults, events>>

\* The safety net for missed events.
PeriodicSync ==
    /\ pc = "periodic"
    /\ IF lastReconcile >= Full THEN pc' = "discover" /\ caller' = "periodic"
                                ELSE pc' = "verify" /\ UNCHANGED caller
    /\ UNCHANGED <<policyVars, backend, failures, sourceVars, eventVars, timeVars, left, burst,
                   faults, events>>

-----------------------------------------------------------------------------
(* sync_once, from each of its four call sites. *)

\* Where the loop goes on after a sync_once that returned.
After(c) == CASE c = "open"     -> "top"
              [] c = "relay"    -> "reload"
              [] c = "event"    -> "periodic"
              [] c = "periodic" -> "verify"

\* Mutant: a failed discovery forgets the event that asked for it.
UndiscoveredForgets ==
    IF caller \in {"relay", "event"} THEN ClearEvents /\ UNCHANGED lastReconcile
                                     ELSE lastReconcile' = 0 /\ UNCHANGED eventVars

\* DiscoveryError: the two event-driven callers arm the debounce for another
\* try, the other two wait for the next periodic reconcile.
Undiscovered ==
    IF caller \in {"relay", "event"} THEN ArmNow /\ UNCHANGED lastReconcile
                                     ELSE lastReconcile' = 0 /\ UNCHANGED eventVars

\* get_listening_ports succeeds, or raises DiscoveryError.
SyncDiscover ==
    /\ pc = "discover"
    /\ sinceRead' = 0
    /\ \/ /\ observed' = listeners /\ pc' = "apply"
          /\ UNCHANGED <<eventVars, lastReconcile, faults>>
       \/ /\ Fault /\ Undiscovered
          /\ pc' = IF caller = "periodic" THEN "verify" ELSE "top"
          /\ UNCHANGED observed
    /\ UNCHANGED <<caller, listeners, applied, announced, backend, failures, sourceVars,
                   lastStale, nlAge, relayAge, left, burst, events>>

\* backend.reconcile returned: all of it is applied, or some updates failed and
\* were counted.  A backend whose maps were replaced writes to the old ones.
\* Only the event path looks at last_apply_failures, verifies and tries again.
SyncReturns ==
    /\ pc = "apply"
    /\ \/ /\ applied' = IF backend = "open" THEN observed ELSE applied
          /\ failures' = FALSE /\ ClearEvents /\ UNCHANGED faults
       \/ /\ Fault /\ failures' = TRUE /\ UNCHANGED applied
          /\ IF caller = "event" THEN ArmNow ELSE ClearEvents
    /\ lastReconcile' = 0
    /\ pc' = After(caller)
    /\ UNCHANGED <<caller, listeners, observed, announced, backend, sourceVars, lastStale, nlAge,
                   relayAge, left, burst, sinceRead, events>>

\* backend.reconcile raised: the first sync keeps the backend and sleeps, the
\* others drop it.  No pending event is cleared.
SyncRaises ==
    /\ pc = "apply" /\ Fault
    /\ IF caller = "open"
       THEN pc' = "sleep" /\ left' = Retry /\ UNCHANGED backend
       ELSE /\ pc' = IF caller = "relay" THEN "reload" ELSE "top"
            /\ backend' = "none" /\ UNCHANGED left
    /\ UNCHANGED <<caller, policyVars, failures, sourceVars, eventVars, timeVars, burst, events>>

\* Mutant: a backend whose pinned maps were replaced is kept.
StaleKept ==
    /\ pc = "verify"
    /\ lastStale' = IF lastStale >= Full THEN 0 ELSE lastStale
    /\ pc' = "top"
    /\ UNCHANGED <<caller, policyVars, backend, failures, sourceVars, eventVars, lastReconcile, nlAge,
                   relayAge, left, burst, sinceRead, faults, events>>

\* Every Full: drop a backend whose pinned maps were replaced; otherwise
\* verify_kernel_state, which arms the debounce when it repaired a cache.
StaleCheck ==
    /\ pc = "verify"
    /\ IF lastStale >= Full
       THEN /\ lastStale' = 0
            /\ backend' = IF backend = "stale" THEN "none" ELSE backend
            /\ \/ UNCHANGED <<eventVars, faults>>
               \/ backend # "stale" /\ Fault /\ ArmEvent
       ELSE UNCHANGED <<lastStale, backend, eventVars, faults>>
    /\ pc' = "top"
    /\ UNCHANGED <<caller, policyVars, failures, sourceVars, lastReconcile, nlAge, relayAge, left,
                   burst, sinceRead, events>>

-----------------------------------------------------------------------------
(* The rest of the system; each step may fall between any two of the loop's. *)

loopVars == <<pc, caller, observed, failures, eventVars, timeVars, left>>

\* A socket starts or stops listening; either source may tell or miss it.
ListenChange ==
    /\ listeners < MaxListen /\ listeners' = listeners + 1
    /\ \/ nl /\ nlReady' = TRUE /\ announced' = listeners'
       \/ UNCHANGED <<nlReady, announced>>
    /\ relayReady' \in {relayReady, relay = "open"}
    /\ UNCHANGED <<loopVars, applied, backend, nl, relay, sighup, burst, faults, events>>

\* A process starts or ends that listens on nothing: at most once in a tick,
\* and as often as it likes.
ProcEvent ==
    /\ nl /\ ~burst /\ burst' = TRUE
    /\ nlReady' = TRUE
    /\ UNCHANGED <<loopVars, policyVars, backend, nl, relay, relayReady, sighup, faults, events>>

\* The relay goes away, SIGHUP, and a program reload that replaces the pinned
\* maps by fresh ones.
OtherEvent ==
    /\ events < MaxEvents /\ events' = events + 1
    /\ \/ relay = "open" /\ relay' = "eof" /\ UNCHANGED <<sighup, backend, applied>>
       \/ sighup' = TRUE /\ UNCHANGED <<relay, backend, applied>>
       \/ /\ applied' = 0 /\ backend' = IF backend = "none" THEN "none" ELSE "stale"
          /\ UNCHANGED <<relay, sighup>>
    /\ UNCHANGED <<loopVars, listeners, announced, nl, nlReady, relayReady, burst, faults>>

Loop == \/ OpenBackend \/ Connect \/ Tick \/ WakeUp \/ ReadEvents \/ ReadRelay \/ Reload
        \/ EventSync \/ PeriodicSync \/ SyncDiscover \/ SyncReturns \/ SyncRaises \/ StaleCheck

Next == Loop \/ ListenChange \/ ProcEvent \/ OtherEvent

Spec == Init /\ [][Next]_vars

\* One thread runs the loop and the scheduler does not abandon it.
FairSpec == Spec /\ WF_vars(Loop)

-----------------------------------------------------------------------------
(* Properties. *)

Age == 0..Full + 1

LoopType ==
    /\ pc \in {"top", "sleep", "wait", "relay", "reload", "event", "periodic", "verify",
               "discover", "apply"}
    /\ caller \in {"open", "relay", "event", "periodic"}
    /\ backend \in {"none", "open", "stale"} /\ failures \in BOOLEAN
    /\ nl \in BOOLEAN /\ nlReady \in BOOLEAN /\ relay \in {"none", "open", "eof"}
    /\ relayReady \in BOOLEAN /\ sighup \in BOOLEAN /\ burst \in BOOLEAN

VersionType == listeners \in Nat /\ observed \in Nat /\ applied \in Nat /\ announced \in Nat

TimeType ==
    /\ lastEvent \in Age /\ firstEvent \in Age /\ lastReconcile \in Age /\ lastStale \in Age
    /\ nlAge \in 0..Retry /\ relayAge \in 0..Retry
    /\ left \in Nat /\ sinceRead \in Nat
    /\ faults \in 0..MaxFaults /\ events \in 0..MaxEvents

\* Types of all variables; in particular no timeout of select is negative.
TypeOK == LoopType /\ VersionType /\ TimeType

\* No event is lost between select, debounce and discovery: while the proc
\* connector that announced a change is open, the change has been discovered,
\* or its message is queued, or the debounce is armed, or the sync that will
\* discover it has been called.
AnnouncedIsPending ==
    announced <= observed \/ nlReady \/ lastEvent # NoEvent \/ pc = "discover"

\* What one more round may take when the periodic reconcile is due: the
\* shortest wait, or a whole timeout as long as last_reconcile_t is still 0.0.
Late == IF lastReconcile = NoEvent THEN IF Poll < Debounce THEN Debounce ELSE Poll ELSE 1

\* "This interval is the maximum time the daemon may go without re-reading the
\* system state" (syncer.py): with a backend open, every Full the listening
\* sockets are read; a SIGHUP whose configuration is rejected skips the rest
\* of its round and adds another wait.
DiscoveryFresh == backend # "none" => sinceRead <= Full + faults * Late

\* "Cap debounce so a continuous burst of proc events can't keep deferring
\* sync" (syncer.py): as long as nothing fails, a sync starts less than
\* MaxWait + Debounce after the first event, however many follow.
DebounceBounded ==
    (faults = 0 /\ firstEvent # NoEvent) => firstEvent < MaxWait + Debounce

\* The promise, of the version that listens and the version in force.
Promise == INSTANCE PolicySync WITH listeners <- listeners, applied <- applied

\* The watch loop implements what PolicySync promises: the policy in force
\* only moves forward through versions that were observed, and catches up with
\* the listening sockets, under bursts of events, missed events, lost sources,
\* failed discoveries and reconciles, and program reloads.
FollowsListeners == Promise!Spec
=============================================================================
