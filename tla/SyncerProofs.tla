---------------------------- MODULE SyncerProofs ----------------------------
(***************************************************************************)
(* Proofs about Syncer: for any debounce, intervals and number of events   *)
(* and errors, the watch loop loses no announced change, starts a sync     *)
(* within its bounds, and only moves the policy forward through versions   *)
(* it has observed.                                                        *)
(***************************************************************************)
EXTENDS Syncer, TLAPS

\* A version is announced, observed and applied only after it came to be.
Versions == announced <= listeners /\ observed <= listeners /\ applied <= observed

\* Why clearing the events or leaving a failed discovery loses none: a sync
\* clears them only after it has read everything that was announced without
\* being queued, and the callers that do not arm the debounce themselves had
\* not taken the event out of it.
Pending ==
    /\ pc = "apply" => announced <= observed \/ nlReady
    /\ (pc # "discover" \/ caller \in {"open", "periodic"}) =>
          announced <= observed \/ nlReady \/ lastEvent # NoEvent

\* The debounce as long as nothing fails: whoever goes into select has looked
\* at the debounce and sleeps no longer than to its end.
Debouncing ==
    faults = 0 =>
        /\ pc # "sleep" /\ ((firstEvent = NoEvent) <=> (lastEvent = NoEvent))
        /\ firstEvent # NoEvent =>
              /\ firstEvent < MaxWait + Debounce
              /\ pc = "wait" => firstEvent + left < MaxWait + Debounce
              /\ (pc \in {"periodic", "verify"} \/ (pc = "top" /\ backend # "none")) =>
                    lastEvent < Debounce /\ firstEvent < MaxWait

\* The bound of DiscoveryFresh.
Limit == Full + faults * Late

\* The system state is at least as fresh as the last reconcile until that is
\* due, and then it is read in this round unless an error ends the round.
Reading ==
    /\ lastReconcile < Full => sinceRead <= lastReconcile
    /\ sinceRead <= Limit
    /\ pc = "wait" => sinceRead + left <= Limit
    /\ pc = "apply" => sinceRead = 0
    /\ pc = "sleep" => faults >= 1 /\ (backend # "none" => sinceRead + left <= Retry)
    /\ pc = "verify" => lastReconcile < Full
    /\ (pc = "top" /\ backend # "none" /\ lastReconcile >= Full) => sinceRead + Late <= Limit

Inv == TypeOK /\ Versions /\ Pending /\ Debouncing /\ Reading

-----------------------------------------------------------------------------
(* Facts about ages, timeouts and bounds. *)

\* An age grows until it is no longer told apart; NoEvent is no age.
LEMMA OlderAge ==
  ASSUME NEW n \in Age
  PROVE  /\ Older(n) \in Age /\ (Older(n) = NoEvent <=> n = NoEvent)
         /\ n < Full => Older(n) = n + 1
         /\ n >= Full => Older(n) = n
  BY TimeAssumption DEF Age, Older, NoEvent

\* 0 and Debounce are ages of events.
LEMMA Ages == 0 \in Age /\ NoEvent \in Age /\ Debounce \in Age /\ 0 # NoEvent /\ Debounce # NoEvent
              /\ NoEvent > Full /\ 0 < Full
  BY TimeAssumption DEF Age, NoEvent

\* The timeout of select: at least one tick, no longer than to the end of the
\* debounce and to the next periodic reconcile.
LEMMA TimeoutBounds ==
  ASSUME TimeType
  PROVE  /\ Timeout \in Nat
         /\ Timeout <= IF Poll < Debounce THEN Debounce ELSE Poll
         /\ lastEvent < Debounce => Timeout <= Debounce - lastEvent
         /\ lastReconcile < Full => Timeout <= Full - lastReconcile
         /\ lastReconcile = Full => Timeout <= 1
<1>. DEFINE quiet == IF lastEvent = NoEvent THEN Poll ELSE AtLeast1(Debounce, lastEvent)
            rest == AtLeast1(Full, lastReconcile)
<1>1. /\ quiet \in Nat /\ quiet <= (IF Poll < Debounce THEN Debounce ELSE Poll)
      /\ lastEvent < Debounce => quiet <= Debounce - lastEvent
  BY TimeAssumption DEF TimeType, Age, NoEvent, AtLeast1
<1>2. /\ rest \in Nat
      /\ lastReconcile < Full => rest <= Full - lastReconcile
      /\ lastReconcile = Full => rest <= 1
  BY TimeAssumption DEF TimeType, Age, NoEvent, AtLeast1
<1>3. lastReconcile = NoEvent => ~(lastReconcile < Full) /\ lastReconcile # Full
  BY TimeAssumption DEF NoEvent
<1>4. Timeout = IF lastReconcile = NoEvent THEN quiet ELSE Lesser(quiet, rest)
  BY DEF Timeout
<1>. HIDE DEF quiet, rest
<1>5. lastEvent \in Nat /\ lastReconcile \in Nat
  BY TimeAssumption DEF TimeType, Age
<1>6. CASE lastReconcile = NoEvent
  BY <1>1, <1>3, <1>4, <1>6
<1>7. CASE lastReconcile # NoEvent
  <2>1. Timeout \in {quiet, rest} /\ Timeout <= quiet /\ Timeout <= rest
    BY <1>1, <1>2, <1>4, <1>7 DEF Lesser
  <2>. QED
    BY <1>1, <1>2, <1>5, <2>1, TimeAssumption
<1>. QED
  BY <1>6, <1>7

\* One more error allows one more wait.
LEMMA LateBounds ==
  ASSUME TimeType
  PROVE  /\ Late \in Nat \ {0} /\ faults \in Nat /\ faults * Late \in Nat
         /\ (faults + 1) * Late = faults * Late + Late
         /\ faults >= 1 => faults * Late >= Late
         /\ lastReconcile # NoEvent => Late = 1 /\ faults * Late = faults
<1>1. Late \in Nat \ {0} /\ (lastReconcile # NoEvent => Late = 1)
  BY TimeAssumption DEF Late
<1>2. faults \in Nat
  BY BoundAssumption DEF TimeType
<1>3. ASSUME NEW n \in Nat, NEW l \in Nat \ {0}
      PROVE  n * l \in Nat /\ (n + 1) * l = n * l + l /\ (n >= 1 => n * l >= l) /\ n * 1 = n
  BY <1>3
<1>. QED
  BY <1>1, <1>2, <1>3

\* An error is counted, or there is none.
LEMMA FaultCount ==
  ASSUME TimeType, UNCHANGED faults \/ Fault
  PROVE  /\ faults' \in 0..MaxFaults /\ faults \in Nat /\ faults' \in Nat
         /\ (faults' = 0 => faults = 0 /\ ~Fault)
         /\ (Fault => faults' = faults + 1)
  BY BoundAssumption DEF TimeType, Fault

\* What the bound on sinceRead allows after a step that may have failed.
LEMMA LimitGrows ==
  ASSUME TimeType, UNCHANGED faults \/ Fault, lastReconcile' \in {0, lastReconcile}
  PROVE  /\ Late \in Nat \ {0} /\ Limit \in Nat /\ Limit' \in Nat
         /\ Limit >= Full /\ Limit' >= Full /\ (faults >= 1 => Limit >= Full + Late)
         /\ lastReconcile' = lastReconcile =>
               /\ Late' = Late /\ Limit <= Limit' /\ (faults' = faults => Limit' = Limit)
               /\ Fault => Limit' = Limit + Late
<1>. USE TimeAssumption
<1>1. lastReconcile' = lastReconcile => Late' = Late
  BY DEF Late
<1>2. lastReconcile' = 0 => Late' = 1
  BY Ages DEF Late
<1>3. /\ faults' = faults \/ faults' = faults + 1
      /\ Fault => faults' = faults + 1
  BY DEF Fault
<1>4. /\ Late \in Nat \ {0} /\ faults \in Nat /\ faults * Late \in Nat
      /\ (faults + 1) * Late = faults * Late + Late
      /\ faults >= 1 => faults * Late >= Late
  BY LateBounds
<1>5. Limit \in Nat /\ Limit >= Full /\ (faults >= 1 => Limit >= Full + Late)
  BY <1>4 DEF Limit
<1>6. ASSUME lastReconcile' = lastReconcile
      PROVE  /\ Limit' = Limit \/ Limit' = Limit + Late
             /\ faults' = faults => Limit' = Limit
             /\ Fault => Limit' = Limit + Late
  BY <1>1, <1>3, <1>4, <1>6 DEF Limit
<1>7. ASSUME lastReconcile' = 0
      PROVE  Limit' \in Nat /\ Limit' >= Full
  BY <1>2, <1>3, <1>4, <1>7 DEF Limit
<1>. QED
  BY <1>1, <1>4, <1>5, <1>6, <1>7

-----------------------------------------------------------------------------
(* The loop. *)

\* The backend is opened, and the first sync begins.
LEMMA OpenBackendInv == Inv /\ OpenBackend => Inv'
<1>. SUFFICES ASSUME Inv, OpenBackend PROVE Inv'
  OBVIOUS
<1>. USE TimeAssumption DEF timeVars, sourceVars, eventVars, policyVars
<1>c. LoopType /\ VersionType /\ TimeType /\ Versions /\ Pending /\ Debouncing /\ Reading
  BY DEF Inv, TypeOK
<1>f. /\ faults' \in 0..MaxFaults /\ faults \in Nat /\ faults' \in Nat
      /\ (faults' = 0 => faults = 0 /\ ~Fault) /\ (Fault => faults' = faults + 1)
  BY <1>c, FaultCount DEF OpenBackend
<1>a. /\ lastEvent \in Nat /\ firstEvent \in Nat /\ lastReconcile \in Nat /\ left \in Nat
      /\ sinceRead \in Nat /\ NoEvent \in Nat
  BY <1>c DEF TimeType, Age, NoEvent
<1>s. /\ Late \in Nat \ {0} /\ Limit \in Nat /\ Limit' \in Nat
      /\ Limit >= Full /\ Limit' >= Full /\ (faults >= 1 => Limit >= Full + Late)
      /\ lastReconcile' = lastReconcile =>
            /\ Late' = Late /\ Limit <= Limit' /\ (faults' = faults => Limit' = Limit)
            /\ Fault => Limit' = Limit + Late
  BY <1>c, LimitGrows DEF OpenBackend
<1>1. LoopType'
  BY <1>c DEF OpenBackend, LoopType
<1>2. VersionType'
  BY <1>c DEF OpenBackend, VersionType
<1>3. TimeType'
  BY <1>c, <1>f, Ages DEF OpenBackend, TimeType
<1>4. Versions'
  BY <1>c DEF OpenBackend, Versions, VersionType
<1>5. Pending'
  BY <1>c, Ages DEF OpenBackend, Pending, Versions, VersionType
<1>6. Debouncing'
  BY <1>c, <1>f, <1>a, Ages DEF OpenBackend, Debouncing
<1>7. Reading'
  BY <1>c, <1>f, <1>a, Ages, <1>s DEF OpenBackend, Reading, LoopType
<1>. QED
  BY <1>1, <1>2, <1>3, <1>4, <1>5, <1>6, <1>7 DEF Inv, TypeOK

\* The loop goes into select with the timeout.
LEMMA ConnectInv == Inv /\ Connect => Inv'
<1>. SUFFICES ASSUME Inv, Connect PROVE Inv'
  OBVIOUS
<1>. USE TimeAssumption DEF timeVars, sourceVars, eventVars, policyVars
<1>c. LoopType /\ VersionType /\ TimeType /\ Versions /\ Pending /\ Debouncing /\ Reading
  BY DEF Inv, TypeOK
<1>f. /\ faults' \in 0..MaxFaults /\ faults \in Nat /\ faults' \in Nat
      /\ (faults' = 0 => faults = 0 /\ ~Fault) /\ (Fault => faults' = faults + 1)
  BY <1>c, FaultCount DEF Connect
<1>a. /\ lastEvent \in Nat /\ firstEvent \in Nat /\ lastReconcile \in Nat /\ left \in Nat
      /\ sinceRead \in Nat /\ NoEvent \in Nat
  BY <1>c DEF TimeType, Age, NoEvent
<1>s. /\ Late \in Nat \ {0} /\ Limit \in Nat /\ Limit' \in Nat
      /\ Limit >= Full /\ Limit' >= Full /\ (faults >= 1 => Limit >= Full + Late)
      /\ lastReconcile' = lastReconcile =>
            /\ Late' = Late /\ Limit <= Limit' /\ (faults' = faults => Limit' = Limit)
            /\ Fault => Limit' = Limit + Late
  BY <1>c, LimitGrows DEF Connect
<1>t. /\ left' \in Nat /\ (lastReconcile < Full => left' <= Full - lastReconcile)
      /\ lastReconcile >= Full => left' <= Late
  <2>1. lastReconcile >= Full => lastReconcile \in {Full, NoEvent}
    BY <1>c DEF TimeType, Age, NoEvent
  <2>2. Full # NoEvent
    BY DEF NoEvent
  <2>. QED
    BY <1>c, <2>1, <2>2, TimeoutBounds DEF Connect, Late
<1>1. LoopType'
  BY <1>c DEF Connect, LoopType
<1>2. VersionType'
  BY <1>c DEF Connect, VersionType
<1>3. TimeType'
  BY <1>c, <1>f, Ages, TimeoutBounds DEF Connect, TimeType
<1>4. Versions'
  BY <1>c DEF Connect, Versions, VersionType
<1>5. Pending'
  BY <1>c, Ages DEF Connect, Pending, Versions, VersionType
<1>6. Debouncing'
  BY <1>c, <1>f, <1>a, Ages, TimeoutBounds DEF Connect, Debouncing
<1>7. Reading'
  BY <1>c, <1>f, <1>a, Ages, <1>s, <1>t DEF Connect, Reading
<1>. QED
  BY <1>1, <1>2, <1>3, <1>4, <1>5, <1>6, <1>7 DEF Inv, TypeOK

\* A tick of the wait.
LEMMA TickInv == Inv /\ Tick => Inv'
<1>. SUFFICES ASSUME Inv, Tick PROVE Inv'
  OBVIOUS
<1>. USE TimeAssumption DEF timeVars, sourceVars, eventVars, policyVars
<1>c. LoopType /\ VersionType /\ TimeType /\ Versions /\ Pending /\ Debouncing /\ Reading
  BY DEF Inv, TypeOK
<1>f. /\ faults' \in 0..MaxFaults /\ faults \in Nat /\ faults' \in Nat
      /\ (faults' = 0 => faults = 0 /\ ~Fault) /\ (Fault => faults' = faults + 1)
  BY <1>c, FaultCount DEF Tick
<1>a. /\ lastEvent \in Nat /\ firstEvent \in Nat /\ lastReconcile \in Nat /\ left \in Nat
      /\ sinceRead \in Nat /\ NoEvent \in Nat
  BY <1>c DEF TimeType, Age, NoEvent
<1>o. /\ \A n \in {lastEvent, firstEvent, lastReconcile, lastStale} :
            /\ Older(n) \in Age /\ (Older(n) = NoEvent <=> n = NoEvent)
            /\ n < Full => Older(n) = n + 1
            /\ n >= Full => Older(n) = n
      /\ lastEvent' = Older(lastEvent) /\ firstEvent' = Older(firstEvent)
      /\ lastReconcile' = Older(lastReconcile) /\ lastStale' = Older(lastStale)
  BY <1>c, OlderAge DEF Tick, TimeType
<1>s. /\ Late' = Late /\ Limit' = Limit /\ Limit \in Nat /\ Late \in Nat /\ Limit >= Full
  <2>1. Late' = Late
    BY <1>o DEF Late
  <2>. QED
    BY <1>c, <2>1, LateBounds DEF Tick, Limit
<1>1. LoopType'
  BY <1>c DEF Tick, LoopType
<1>2. VersionType'
  BY <1>c DEF Tick, VersionType
<1>3. TimeType'
  BY <1>c, <1>f, Ages, <1>o DEF Tick, TimeType, Lesser
<1>4. Versions'
  BY <1>c DEF Tick, Versions, VersionType
<1>5. Pending'
  BY <1>c, Ages, <1>o DEF Tick, Pending, Versions, VersionType
<1>6. Debouncing'
  BY <1>c, <1>f, <1>a, Ages, <1>o DEF Tick, Debouncing
<1>7. Reading'
  BY <1>c, <1>f, <1>a, Ages, <1>s, <1>o DEF Tick, Reading
<1>. QED
  BY <1>1, <1>2, <1>3, <1>4, <1>5, <1>6, <1>7 DEF Inv, TypeOK

\* The backoff is over.
LEMMA WakeUpInv == Inv /\ WakeUp => Inv'
<1>. SUFFICES ASSUME Inv, WakeUp PROVE Inv'
  OBVIOUS
<1>. USE TimeAssumption DEF timeVars, sourceVars, eventVars, policyVars
<1>c. LoopType /\ VersionType /\ TimeType /\ Versions /\ Pending /\ Debouncing /\ Reading
  BY DEF Inv, TypeOK
<1>f. /\ faults' \in 0..MaxFaults /\ faults \in Nat /\ faults' \in Nat
      /\ (faults' = 0 => faults = 0 /\ ~Fault) /\ (Fault => faults' = faults + 1)
  BY <1>c, FaultCount DEF WakeUp
<1>a. /\ lastEvent \in Nat /\ firstEvent \in Nat /\ lastReconcile \in Nat /\ left \in Nat
      /\ sinceRead \in Nat /\ NoEvent \in Nat
  BY <1>c DEF TimeType, Age, NoEvent
<1>s. /\ Late \in Nat \ {0} /\ Limit \in Nat /\ Limit' \in Nat
      /\ Limit >= Full /\ Limit' >= Full /\ (faults >= 1 => Limit >= Full + Late)
      /\ lastReconcile' = lastReconcile =>
            /\ Late' = Late /\ Limit <= Limit' /\ (faults' = faults => Limit' = Limit)
            /\ Fault => Limit' = Limit + Late
  BY <1>c, LimitGrows DEF WakeUp
<1>1. LoopType'
  BY <1>c DEF WakeUp, LoopType
<1>2. VersionType'
  BY <1>c DEF WakeUp, VersionType
<1>3. TimeType'
  BY <1>c, <1>f, Ages DEF WakeUp, TimeType
<1>4. Versions'
  BY <1>c DEF WakeUp, Versions, VersionType
<1>5. Pending'
  BY <1>c, Ages DEF WakeUp, Pending, Versions, VersionType
<1>6. Debouncing'
  BY <1>c, <1>f, <1>a, Ages DEF WakeUp, Debouncing
<1>7. Reading'
  BY <1>c, <1>f, <1>a, Ages, <1>s DEF WakeUp, Reading, Late
<1>. QED
  BY <1>1, <1>2, <1>3, <1>4, <1>5, <1>6, <1>7 DEF Inv, TypeOK

\* Queued events arm the debounce.
LEMMA ReadEventsInv == Inv /\ ReadEvents => Inv'
<1>. SUFFICES ASSUME Inv, ReadEvents PROVE Inv'
  OBVIOUS
<1>. USE TimeAssumption DEF timeVars, sourceVars, eventVars, policyVars
<1>c. LoopType /\ VersionType /\ TimeType /\ Versions /\ Pending /\ Debouncing /\ Reading
  BY DEF Inv, TypeOK
<1>f. /\ faults' \in 0..MaxFaults /\ faults \in Nat /\ faults' \in Nat
      /\ (faults' = 0 => faults = 0 /\ ~Fault) /\ (Fault => faults' = faults + 1)
  BY <1>c, FaultCount DEF ReadEvents
<1>a. /\ lastEvent \in Nat /\ firstEvent \in Nat /\ lastReconcile \in Nat /\ left \in Nat
      /\ sinceRead \in Nat /\ NoEvent \in Nat
  BY <1>c DEF TimeType, Age, NoEvent
<1>s. /\ Late \in Nat \ {0} /\ Limit \in Nat /\ Limit' \in Nat
      /\ Limit >= Full /\ Limit' >= Full /\ (faults >= 1 => Limit >= Full + Late)
      /\ lastReconcile' = lastReconcile =>
            /\ Late' = Late /\ Limit <= Limit' /\ (faults' = faults => Limit' = Limit)
            /\ Fault => Limit' = Limit + Late
  BY <1>c, LimitGrows DEF ReadEvents
<1>1. LoopType'
  BY <1>c DEF ReadEvents, LoopType, DropProc
<1>2. VersionType'
  BY <1>c DEF ReadEvents, VersionType, DropProc
<1>3. TimeType'
  BY <1>c, <1>f, Ages DEF ReadEvents, TimeType, DropProc, ArmEvent
<1>4. Versions'
  BY <1>c DEF ReadEvents, Versions, VersionType, DropProc
<1>5. Pending'
  BY <1>c, Ages DEF ReadEvents, Pending, Versions, VersionType, DropProc, ArmEvent
<1>6. Debouncing'
  BY <1>c, <1>f, <1>a, Ages DEF ReadEvents, Debouncing, DropProc, ArmEvent
<1>7. Reading'
  BY <1>c, <1>f, <1>a, Ages, <1>s DEF ReadEvents, Reading, DropProc
<1>. QED
  BY <1>1, <1>2, <1>3, <1>4, <1>5, <1>6, <1>7 DEF Inv, TypeOK

\* The relay asks for a sync, or has gone.
LEMMA ReadRelayInv == Inv /\ ReadRelay => Inv'
<1>. SUFFICES ASSUME Inv, ReadRelay PROVE Inv'
  OBVIOUS
<1>. USE TimeAssumption DEF timeVars, sourceVars, eventVars, policyVars
<1>c. LoopType /\ VersionType /\ TimeType /\ Versions /\ Pending /\ Debouncing /\ Reading
  BY DEF Inv, TypeOK
<1>f. /\ faults' \in 0..MaxFaults /\ faults \in Nat /\ faults' \in Nat
      /\ (faults' = 0 => faults = 0 /\ ~Fault) /\ (Fault => faults' = faults + 1)
  BY <1>c, FaultCount DEF ReadRelay
<1>a. /\ lastEvent \in Nat /\ firstEvent \in Nat /\ lastReconcile \in Nat /\ left \in Nat
      /\ sinceRead \in Nat /\ NoEvent \in Nat
  BY <1>c DEF TimeType, Age, NoEvent
<1>s. /\ Late \in Nat \ {0} /\ Limit \in Nat /\ Limit' \in Nat
      /\ Limit >= Full /\ Limit' >= Full /\ (faults >= 1 => Limit >= Full + Late)
      /\ lastReconcile' = lastReconcile =>
            /\ Late' = Late /\ Limit <= Limit' /\ (faults' = faults => Limit' = Limit)
            /\ Fault => Limit' = Limit + Late
  BY <1>c, LimitGrows DEF ReadRelay
<1>1. LoopType'
  BY <1>c DEF ReadRelay, LoopType
<1>2. VersionType'
  BY <1>c DEF ReadRelay, VersionType
<1>3. TimeType'
  BY <1>c, <1>f, Ages DEF ReadRelay, TimeType
<1>4. Versions'
  BY <1>c DEF ReadRelay, Versions, VersionType
<1>5. Pending'
  BY <1>c, Ages DEF ReadRelay, Pending, Versions, VersionType
<1>6. Debouncing'
  BY <1>c, <1>f, <1>a, Ages DEF ReadRelay, Debouncing
<1>7. Reading'
  BY <1>c, <1>f, <1>a, Ages, <1>s DEF ReadRelay, Reading
<1>. QED
  BY <1>1, <1>2, <1>3, <1>4, <1>5, <1>6, <1>7 DEF Inv, TypeOK

\* A reload arms the debounce so that it fires at once.
LEMMA ReloadInv == Inv /\ Reload => Inv'
<1>. SUFFICES ASSUME Inv, Reload PROVE Inv'
  OBVIOUS
<1>. USE TimeAssumption DEF timeVars, sourceVars, eventVars, policyVars
<1>c. LoopType /\ VersionType /\ TimeType /\ Versions /\ Pending /\ Debouncing /\ Reading
  BY DEF Inv, TypeOK
<1>f. /\ faults' \in 0..MaxFaults /\ faults \in Nat /\ faults' \in Nat
      /\ (faults' = 0 => faults = 0 /\ ~Fault) /\ (Fault => faults' = faults + 1)
  BY <1>c, FaultCount DEF Reload
<1>a. /\ lastEvent \in Nat /\ firstEvent \in Nat /\ lastReconcile \in Nat /\ left \in Nat
      /\ sinceRead \in Nat /\ NoEvent \in Nat
  BY <1>c DEF TimeType, Age, NoEvent
<1>s. /\ Late \in Nat \ {0} /\ Limit \in Nat /\ Limit' \in Nat
      /\ Limit >= Full /\ Limit' >= Full /\ (faults >= 1 => Limit >= Full + Late)
      /\ lastReconcile' = lastReconcile =>
            /\ Late' = Late /\ Limit <= Limit' /\ (faults' = faults => Limit' = Limit)
            /\ Fault => Limit' = Limit + Late
  BY <1>c, LimitGrows DEF Reload
<1>1. LoopType'
  <2>1. pc' \in {"top", "event"} /\ backend' \in {"none", "open", "stale"} /\ sighup' \in BOOLEAN
    BY <1>c DEF Reload, LoopType
  <2>. QED
    BY <1>c, <2>1 DEF Reload, LoopType
<1>2. VersionType'
  BY <1>c DEF Reload, VersionType
<1>3. TimeType'
  BY <1>c, <1>f, Ages DEF Reload, TimeType
<1>4. Versions'
  BY <1>c DEF Reload, Versions, VersionType
<1>5. Pending'
  BY <1>c, Ages DEF Reload, Pending, Versions, VersionType
<1>6. Debouncing'
  BY <1>c, <1>f, <1>a, Ages DEF Reload, Debouncing
<1>7. Reading'
  BY <1>c, <1>f, <1>a, Ages, <1>s DEF Reload, Reading
<1>. QED
  BY <1>1, <1>2, <1>3, <1>4, <1>5, <1>6, <1>7 DEF Inv, TypeOK

\* The debounce fires, or has time left.
LEMMA EventSyncInv == Inv /\ EventSync => Inv'
<1>. SUFFICES ASSUME Inv, EventSync PROVE Inv'
  OBVIOUS
<1>. USE TimeAssumption DEF timeVars, sourceVars, eventVars, policyVars
<1>c. LoopType /\ VersionType /\ TimeType /\ Versions /\ Pending /\ Debouncing /\ Reading
  BY DEF Inv, TypeOK
<1>f. /\ faults' \in 0..MaxFaults /\ faults \in Nat /\ faults' \in Nat
      /\ (faults' = 0 => faults = 0 /\ ~Fault) /\ (Fault => faults' = faults + 1)
  BY <1>c, FaultCount DEF EventSync
<1>a. /\ lastEvent \in Nat /\ firstEvent \in Nat /\ lastReconcile \in Nat /\ left \in Nat
      /\ sinceRead \in Nat /\ NoEvent \in Nat
  BY <1>c DEF TimeType, Age, NoEvent
<1>s. /\ Late \in Nat \ {0} /\ Limit \in Nat /\ Limit' \in Nat
      /\ Limit >= Full /\ Limit' >= Full /\ (faults >= 1 => Limit >= Full + Late)
      /\ lastReconcile' = lastReconcile =>
            /\ Late' = Late /\ Limit <= Limit' /\ (faults' = faults => Limit' = Limit)
            /\ Fault => Limit' = Limit + Late
  BY <1>c, LimitGrows DEF EventSync
<1>1. LoopType'
  BY <1>c DEF EventSync, LoopType
<1>2. VersionType'
  BY <1>c DEF EventSync, VersionType
<1>3. TimeType'
  BY <1>c, <1>f, Ages DEF EventSync, TimeType
<1>4. Versions'
  BY <1>c DEF EventSync, Versions, VersionType
<1>5. Pending'
  BY <1>c, Ages DEF EventSync, Pending, Versions, VersionType, DebounceFires
<1>6. Debouncing'
  BY <1>c, <1>f, <1>a, Ages DEF EventSync, Debouncing, DebounceFires
<1>7. Reading'
  BY <1>c, <1>f, <1>a, Ages, <1>s DEF EventSync, Reading
<1>. QED
  BY <1>1, <1>2, <1>3, <1>4, <1>5, <1>6, <1>7 DEF Inv, TypeOK

\* The periodic reconcile is due, or not.
LEMMA PeriodicSyncInv == Inv /\ PeriodicSync => Inv'
<1>. SUFFICES ASSUME Inv, PeriodicSync PROVE Inv'
  OBVIOUS
<1>. USE TimeAssumption DEF timeVars, sourceVars, eventVars, policyVars
<1>c. LoopType /\ VersionType /\ TimeType /\ Versions /\ Pending /\ Debouncing /\ Reading
  BY DEF Inv, TypeOK
<1>f. /\ faults' \in 0..MaxFaults /\ faults \in Nat /\ faults' \in Nat
      /\ (faults' = 0 => faults = 0 /\ ~Fault) /\ (Fault => faults' = faults + 1)
  BY <1>c, FaultCount DEF PeriodicSync
<1>a. /\ lastEvent \in Nat /\ firstEvent \in Nat /\ lastReconcile \in Nat /\ left \in Nat
      /\ sinceRead \in Nat /\ NoEvent \in Nat
  BY <1>c DEF TimeType, Age, NoEvent
<1>s. /\ Late \in Nat \ {0} /\ Limit \in Nat /\ Limit' \in Nat
      /\ Limit >= Full /\ Limit' >= Full /\ (faults >= 1 => Limit >= Full + Late)
      /\ lastReconcile' = lastReconcile =>
            /\ Late' = Late /\ Limit <= Limit' /\ (faults' = faults => Limit' = Limit)
            /\ Fault => Limit' = Limit + Late
  BY <1>c, LimitGrows DEF PeriodicSync
<1>1. LoopType'
  BY <1>c DEF PeriodicSync, LoopType
<1>2. VersionType'
  BY <1>c DEF PeriodicSync, VersionType
<1>3. TimeType'
  BY <1>c, <1>f, Ages DEF PeriodicSync, TimeType
<1>4. Versions'
  BY <1>c DEF PeriodicSync, Versions, VersionType
<1>5. Pending'
  BY <1>c, Ages DEF PeriodicSync, Pending, Versions, VersionType
<1>6. Debouncing'
  BY <1>c, <1>f, <1>a, Ages DEF PeriodicSync, Debouncing
<1>7. Reading'
  BY <1>c, <1>f, <1>a, Ages, <1>s DEF PeriodicSync, Reading
<1>. QED
  BY <1>1, <1>2, <1>3, <1>4, <1>5, <1>6, <1>7 DEF Inv, TypeOK

\* The sockets are read, or the caller is told that they were not.
LEMMA SyncDiscoverInv == Inv /\ SyncDiscover => Inv'
<1>. SUFFICES ASSUME Inv, SyncDiscover PROVE Inv'
  OBVIOUS
<1>. USE TimeAssumption DEF timeVars, sourceVars, eventVars, policyVars
<1>c. LoopType /\ VersionType /\ TimeType /\ Versions /\ Pending /\ Debouncing /\ Reading
  BY DEF Inv, TypeOK
<1>f. /\ faults' \in 0..MaxFaults /\ faults \in Nat /\ faults' \in Nat
      /\ (faults' = 0 => faults = 0 /\ ~Fault) /\ (Fault => faults' = faults + 1)
  BY <1>c, FaultCount DEF SyncDiscover
<1>a. /\ lastEvent \in Nat /\ firstEvent \in Nat /\ lastReconcile \in Nat /\ left \in Nat
      /\ sinceRead \in Nat /\ NoEvent \in Nat
  BY <1>c DEF TimeType, Age, NoEvent
<1>s. /\ Late \in Nat \ {0} /\ Limit \in Nat /\ Limit' \in Nat
      /\ Limit >= Full /\ Limit' >= Full /\ (faults >= 1 => Limit >= Full + Late)
      /\ lastReconcile' = lastReconcile =>
            /\ Late' = Late /\ Limit <= Limit' /\ (faults' = faults => Limit' = Limit)
            /\ Fault => Limit' = Limit + Late
  BY <1>c, LimitGrows DEF SyncDiscover, Undiscovered
<1>1. LoopType'
  BY <1>c DEF SyncDiscover, LoopType
<1>2. VersionType'
  BY <1>c DEF SyncDiscover, VersionType
<1>3. TimeType'
  BY <1>c, <1>f, Ages DEF SyncDiscover, TimeType, Undiscovered, ArmNow
<1>4. Versions'
  BY <1>c DEF SyncDiscover, Versions, VersionType
<1>5. Pending'
  BY <1>c, Ages DEF SyncDiscover, Pending, Versions, VersionType, Undiscovered, ArmNow, LoopType
<1>6. Debouncing'
  BY <1>c, <1>f, <1>a, Ages DEF SyncDiscover, Debouncing, Undiscovered, ArmNow
<1>7. Reading'
  BY <1>c, <1>f, <1>a, Ages, <1>s DEF SyncDiscover, Reading, Undiscovered, LoopType
<1>. QED
  BY <1>1, <1>2, <1>3, <1>4, <1>5, <1>6, <1>7 DEF Inv, TypeOK

\* A sync clears the events: what they told of has been read.
LEMMA SyncReturnsInv == Inv /\ SyncReturns => Inv'
<1>. SUFFICES ASSUME Inv, SyncReturns PROVE Inv'
  OBVIOUS
<1>. USE TimeAssumption DEF timeVars, sourceVars, eventVars, policyVars
<1>c. LoopType /\ VersionType /\ TimeType /\ Versions /\ Pending /\ Debouncing /\ Reading
  BY DEF Inv, TypeOK
<1>f. /\ faults' \in 0..MaxFaults /\ faults \in Nat /\ faults' \in Nat
      /\ (faults' = 0 => faults = 0 /\ ~Fault) /\ (Fault => faults' = faults + 1)
  BY <1>c, FaultCount DEF SyncReturns
<1>a. /\ lastEvent \in Nat /\ firstEvent \in Nat /\ lastReconcile \in Nat /\ left \in Nat
      /\ sinceRead \in Nat /\ NoEvent \in Nat
  BY <1>c DEF TimeType, Age, NoEvent
<1>s. /\ Late \in Nat \ {0} /\ Limit \in Nat /\ Limit' \in Nat
      /\ Limit >= Full /\ Limit' >= Full /\ (faults >= 1 => Limit >= Full + Late)
      /\ lastReconcile' = lastReconcile =>
            /\ Late' = Late /\ Limit <= Limit' /\ (faults' = faults => Limit' = Limit)
            /\ Fault => Limit' = Limit + Late
  BY <1>c, LimitGrows DEF SyncReturns
<1>1. LoopType'
  BY <1>c DEF SyncReturns, LoopType, After
<1>2. VersionType'
  BY <1>c DEF SyncReturns, VersionType
<1>3. TimeType'
  BY <1>c, <1>f, Ages DEF SyncReturns, TimeType, ClearEvents, ArmNow
<1>4. Versions'
  BY <1>c DEF SyncReturns, Versions, VersionType
<1>5. Pending'
  BY <1>c, Ages DEF SyncReturns, Pending, Versions, VersionType, ClearEvents, ArmNow
<1>6. Debouncing'
  BY <1>c, <1>f, <1>a, Ages DEF SyncReturns, Debouncing, ClearEvents, ArmNow, After, LoopType
<1>7. Reading'
  BY <1>c, <1>f, <1>a, Ages, <1>s DEF SyncReturns, Reading, After, LoopType
<1>. QED
  BY <1>1, <1>2, <1>3, <1>4, <1>5, <1>6, <1>7 DEF Inv, TypeOK

\* A sync that raises clears nothing.
LEMMA SyncRaisesInv == Inv /\ SyncRaises => Inv'
<1>. SUFFICES ASSUME Inv, SyncRaises PROVE Inv'
  OBVIOUS
<1>. USE TimeAssumption DEF timeVars, sourceVars, eventVars, policyVars
<1>c. LoopType /\ VersionType /\ TimeType /\ Versions /\ Pending /\ Debouncing /\ Reading
  BY DEF Inv, TypeOK
<1>f. /\ faults' \in 0..MaxFaults /\ faults \in Nat /\ faults' \in Nat
      /\ (faults' = 0 => faults = 0 /\ ~Fault) /\ (Fault => faults' = faults + 1)
  BY <1>c, FaultCount DEF SyncRaises
<1>a. /\ lastEvent \in Nat /\ firstEvent \in Nat /\ lastReconcile \in Nat /\ left \in Nat
      /\ sinceRead \in Nat /\ NoEvent \in Nat
  BY <1>c DEF TimeType, Age, NoEvent
<1>s. /\ Late \in Nat \ {0} /\ Limit \in Nat /\ Limit' \in Nat
      /\ Limit >= Full /\ Limit' >= Full /\ (faults >= 1 => Limit >= Full + Late)
      /\ lastReconcile' = lastReconcile =>
            /\ Late' = Late /\ Limit <= Limit' /\ (faults' = faults => Limit' = Limit)
            /\ Fault => Limit' = Limit + Late
  BY <1>c, LimitGrows DEF SyncRaises
<1>1. LoopType'
  BY <1>c DEF SyncRaises, LoopType
<1>2. VersionType'
  BY <1>c DEF SyncRaises, VersionType
<1>3. TimeType'
  BY <1>c, <1>f, Ages DEF SyncRaises, TimeType
<1>4. Versions'
  BY <1>c DEF SyncRaises, Versions, VersionType
<1>5. Pending'
  BY <1>c, Ages DEF SyncRaises, Pending, Versions, VersionType
<1>6. Debouncing'
  BY <1>c, <1>f, <1>a, Ages DEF SyncRaises, Debouncing
<1>7. Reading'
  BY <1>c, <1>f, <1>a, Ages, <1>s DEF SyncRaises, Reading
<1>. QED
  BY <1>1, <1>2, <1>3, <1>4, <1>5, <1>6, <1>7 DEF Inv, TypeOK

\* Drift arms the debounce, stale maps drop the backend.
LEMMA StaleCheckInv == Inv /\ StaleCheck => Inv'
<1>. SUFFICES ASSUME Inv, StaleCheck PROVE Inv'
  OBVIOUS
<1>. USE TimeAssumption DEF timeVars, sourceVars, eventVars, policyVars
<1>c. LoopType /\ VersionType /\ TimeType /\ Versions /\ Pending /\ Debouncing /\ Reading
  BY DEF Inv, TypeOK
<1>f. /\ faults' \in 0..MaxFaults /\ faults \in Nat /\ faults' \in Nat
      /\ (faults' = 0 => faults = 0 /\ ~Fault) /\ (Fault => faults' = faults + 1)
  BY <1>c, FaultCount DEF StaleCheck
<1>a. /\ lastEvent \in Nat /\ firstEvent \in Nat /\ lastReconcile \in Nat /\ left \in Nat
      /\ sinceRead \in Nat /\ NoEvent \in Nat
  BY <1>c DEF TimeType, Age, NoEvent
<1>s. /\ Late \in Nat \ {0} /\ Limit \in Nat /\ Limit' \in Nat
      /\ Limit >= Full /\ Limit' >= Full /\ (faults >= 1 => Limit >= Full + Late)
      /\ lastReconcile' = lastReconcile =>
            /\ Late' = Late /\ Limit <= Limit' /\ (faults' = faults => Limit' = Limit)
            /\ Fault => Limit' = Limit + Late
  BY <1>c, LimitGrows DEF StaleCheck
<1>1. LoopType'
  BY <1>c DEF StaleCheck, LoopType
<1>2. VersionType'
  BY <1>c DEF StaleCheck, VersionType
<1>3. TimeType'
  BY <1>c, <1>f, Ages DEF StaleCheck, TimeType, ArmEvent
<1>4. Versions'
  BY <1>c DEF StaleCheck, Versions, VersionType
<1>5. Pending'
  BY <1>c, Ages DEF StaleCheck, Pending, Versions, VersionType, ArmEvent
<1>6. Debouncing'
  BY <1>c, <1>f, <1>a, Ages DEF StaleCheck, Debouncing, ArmEvent
<1>7. Reading'
  BY <1>c, <1>f, <1>a, Ages, <1>s DEF StaleCheck, Reading
<1>. QED
  BY <1>1, <1>2, <1>3, <1>4, <1>5, <1>6, <1>7 DEF Inv, TypeOK

-----------------------------------------------------------------------------
(* The rest of the system. *)

\* A change is announced together with its event.
LEMMA ListenChangeInv == Inv /\ ListenChange => Inv'
<1>. SUFFICES ASSUME Inv, ListenChange PROVE Inv'
  OBVIOUS
<1>. USE TimeAssumption DEF timeVars, sourceVars, eventVars, policyVars, loopVars
<1>c. LoopType /\ VersionType /\ TimeType /\ Versions /\ Pending /\ Debouncing /\ Reading
  BY DEF Inv, TypeOK
<1>f. /\ faults' \in 0..MaxFaults /\ faults \in Nat /\ faults' \in Nat
      /\ (faults' = 0 => faults = 0 /\ ~Fault) /\ (Fault => faults' = faults + 1)
  BY <1>c, FaultCount DEF ListenChange
<1>a. /\ lastEvent \in Nat /\ firstEvent \in Nat /\ lastReconcile \in Nat /\ left \in Nat
      /\ sinceRead \in Nat /\ NoEvent \in Nat
  BY <1>c DEF TimeType, Age, NoEvent
<1>s. /\ Late \in Nat \ {0} /\ Limit \in Nat /\ Limit' \in Nat
      /\ Limit >= Full /\ Limit' >= Full /\ (faults >= 1 => Limit >= Full + Late)
      /\ lastReconcile' = lastReconcile =>
            /\ Late' = Late /\ Limit <= Limit' /\ (faults' = faults => Limit' = Limit)
            /\ Fault => Limit' = Limit + Late
  BY <1>c, LimitGrows DEF ListenChange
<1>1. LoopType'
  <2>1. relayReady' \in BOOLEAN
    BY <1>c DEF ListenChange, LoopType
  <2>2. nlReady' \in BOOLEAN
    BY <1>c DEF ListenChange, LoopType
  <2>. QED
    BY <1>c, <2>1, <2>2 DEF ListenChange, LoopType
<1>2. VersionType'
  BY <1>c DEF ListenChange, VersionType
<1>3. TimeType'
  BY <1>c, <1>f, Ages DEF ListenChange, TimeType
<1>4. Versions'
  BY <1>c DEF ListenChange, Versions, VersionType
<1>5. Pending'
  BY <1>c, Ages DEF ListenChange, Pending, Versions, VersionType
<1>6. Debouncing'
  BY <1>c, <1>f, <1>a, Ages DEF ListenChange, Debouncing
<1>7. Reading'
  BY <1>c, <1>f, <1>a, Ages, <1>s DEF ListenChange, Reading
<1>. QED
  BY <1>1, <1>2, <1>3, <1>4, <1>5, <1>6, <1>7 DEF Inv, TypeOK

\* An event of another process.
LEMMA ProcEventInv == Inv /\ ProcEvent => Inv'
<1>. SUFFICES ASSUME Inv, ProcEvent PROVE Inv'
  OBVIOUS
<1>. USE TimeAssumption DEF timeVars, sourceVars, eventVars, policyVars, loopVars
<1>c. LoopType /\ VersionType /\ TimeType /\ Versions /\ Pending /\ Debouncing /\ Reading
  BY DEF Inv, TypeOK
<1>f. /\ faults' \in 0..MaxFaults /\ faults \in Nat /\ faults' \in Nat
      /\ (faults' = 0 => faults = 0 /\ ~Fault) /\ (Fault => faults' = faults + 1)
  BY <1>c, FaultCount DEF ProcEvent
<1>a. /\ lastEvent \in Nat /\ firstEvent \in Nat /\ lastReconcile \in Nat /\ left \in Nat
      /\ sinceRead \in Nat /\ NoEvent \in Nat
  BY <1>c DEF TimeType, Age, NoEvent
<1>s. /\ Late \in Nat \ {0} /\ Limit \in Nat /\ Limit' \in Nat
      /\ Limit >= Full /\ Limit' >= Full /\ (faults >= 1 => Limit >= Full + Late)
      /\ lastReconcile' = lastReconcile =>
            /\ Late' = Late /\ Limit <= Limit' /\ (faults' = faults => Limit' = Limit)
            /\ Fault => Limit' = Limit + Late
  BY <1>c, LimitGrows DEF ProcEvent
<1>1. LoopType'
  BY <1>c DEF ProcEvent, LoopType
<1>2. VersionType'
  BY <1>c DEF ProcEvent, VersionType
<1>3. TimeType'
  BY <1>c, <1>f, Ages DEF ProcEvent, TimeType
<1>4. Versions'
  BY <1>c DEF ProcEvent, Versions, VersionType
<1>5. Pending'
  BY <1>c, Ages DEF ProcEvent, Pending, Versions, VersionType
<1>6. Debouncing'
  BY <1>c, <1>f, <1>a, Ages DEF ProcEvent, Debouncing
<1>7. Reading'
  BY <1>c, <1>f, <1>a, Ages, <1>s DEF ProcEvent, Reading
<1>. QED
  BY <1>1, <1>2, <1>3, <1>4, <1>5, <1>6, <1>7 DEF Inv, TypeOK

\* A hangup, a signal, a program reload.
LEMMA OtherEventInv == Inv /\ OtherEvent => Inv'
<1>. SUFFICES ASSUME Inv, OtherEvent PROVE Inv'
  OBVIOUS
<1>. USE TimeAssumption DEF timeVars, sourceVars, eventVars, policyVars, loopVars
<1>c. LoopType /\ VersionType /\ TimeType /\ Versions /\ Pending /\ Debouncing /\ Reading
  BY DEF Inv, TypeOK
<1>f. /\ faults' \in 0..MaxFaults /\ faults \in Nat /\ faults' \in Nat
      /\ (faults' = 0 => faults = 0 /\ ~Fault) /\ (Fault => faults' = faults + 1)
  BY <1>c, FaultCount DEF OtherEvent
<1>a. /\ lastEvent \in Nat /\ firstEvent \in Nat /\ lastReconcile \in Nat /\ left \in Nat
      /\ sinceRead \in Nat /\ NoEvent \in Nat
  BY <1>c DEF TimeType, Age, NoEvent
<1>s. /\ Late \in Nat \ {0} /\ Limit \in Nat /\ Limit' \in Nat
      /\ Limit >= Full /\ Limit' >= Full /\ (faults >= 1 => Limit >= Full + Late)
      /\ lastReconcile' = lastReconcile =>
            /\ Late' = Late /\ Limit <= Limit' /\ (faults' = faults => Limit' = Limit)
            /\ Fault => Limit' = Limit + Late
  BY <1>c, LimitGrows DEF OtherEvent
<1>1. LoopType'
  <2>1. relay' \in {"none", "open", "eof"} /\ backend' \in {"none", "open", "stale"}
    BY <1>c DEF OtherEvent, LoopType
  <2>2. sighup' \in BOOLEAN
    BY <1>c DEF OtherEvent, LoopType
  <2>. QED
    BY <1>c, <2>1, <2>2 DEF OtherEvent, LoopType
<1>2. VersionType'
  BY <1>c DEF OtherEvent, VersionType
<1>3. TimeType'
  BY <1>c, <1>f, Ages, BoundAssumption DEF OtherEvent, TimeType
<1>4. Versions'
  BY <1>c DEF OtherEvent, Versions, VersionType
<1>5. Pending'
  BY <1>c, Ages DEF OtherEvent, Pending, Versions, VersionType
<1>6. Debouncing'
  BY <1>c, <1>f, <1>a, Ages DEF OtherEvent, Debouncing
<1>7. Reading'
  BY <1>c, <1>f, <1>a, Ages, <1>s DEF OtherEvent, Reading
<1>. QED
  BY <1>1, <1>2, <1>3, <1>4, <1>5, <1>6, <1>7 DEF Inv, TypeOK

-----------------------------------------------------------------------------
LEMMA InitInv == Init => Inv
<1>. SUFFICES ASSUME Init PROVE Inv
  OBVIOUS
<1>. USE TimeAssumption, BoundAssumption
<1>1. LoopType /\ VersionType
  BY DEF Init, LoopType, VersionType
<1>2. TimeType
  BY DEF Init, TimeType, Age, NoEvent
<1>3. Versions /\ Pending /\ Debouncing
  BY Ages DEF Init, Versions, Pending, Debouncing
<1>4. Limit \in Nat /\ Limit >= Full
  BY <1>2, LateBounds DEF Limit
<1>5. Reading
  BY <1>4, Ages DEF Init, Reading
<1>. QED
  BY <1>1, <1>2, <1>3, <1>5 DEF Inv, TypeOK

\* Every step keeps the invariant.
LEMMA StepInv == Inv /\ [Next]_vars => Inv'
<1>. SUFFICES ASSUME Inv, [Next]_vars PROVE Inv'
  OBVIOUS
<1>1. CASE Loop
  BY <1>1, OpenBackendInv, ConnectInv, TickInv, WakeUpInv, ReadEventsInv, ReadRelayInv, ReloadInv,
     EventSyncInv, PeriodicSyncInv, SyncDiscoverInv, SyncReturnsInv, SyncRaisesInv, StaleCheckInv
  DEF Loop
<1>2. CASE ListenChange \/ ProcEvent \/ OtherEvent
  BY <1>2, ListenChangeInv, ProcEventInv, OtherEventInv
<1>3. CASE UNCHANGED vars
  <2>. USE <1>3 DEF vars
  <2>1. LoopType'
    BY DEF Inv, TypeOK, LoopType
  <2>2. VersionType' /\ TimeType'
    BY DEF Inv, TypeOK, VersionType, TimeType
  <2>3. Versions' /\ Pending' /\ Debouncing'
    BY DEF Inv, Versions, Pending, Debouncing
  <2>4. Reading'
    BY DEF Inv, Reading, Limit, Late
  <2>. QED
    BY <2>1, <2>2, <2>3, <2>4 DEF Inv, TypeOK
<1>. QED
  BY <1>1, <1>2, <1>3 DEF Next

LEMMA Invariant == Spec => []Inv
  BY InitInv, StepInv, PTL DEF Spec

-----------------------------------------------------------------------------
\* The variables keep their types: no timeout of select is negative.
THEOREM TypeCorrect == Spec => []TypeOK
<1>1. Inv => TypeOK
  BY DEF Inv
<1>. QED
  BY <1>1, Invariant, PTL

\* Between select, the debounce and the discovery the watch loop loses no event
\* of a proc connector that stays open.
THEOREM NoEventLost == Spec => []AnnouncedIsPending
<1>1. Inv => AnnouncedIsPending
  BY DEF Inv, Pending, AnnouncedIsPending
<1>. QED
  BY <1>1, Invariant, PTL

\* "This interval is the maximum time the daemon may go without re-reading the
\* system state": with a backend open the sockets are read every Full, and one
\* wait later for every error.
THEOREM StateIsFresh == Spec => []DiscoveryFresh
<1>1. Inv => DiscoveryFresh
  BY DEF Inv, Reading, Limit, DiscoveryFresh
<1>. QED
  BY <1>1, Invariant, PTL

\* "Cap debounce so a continuous burst of proc events can't keep deferring
\* sync": as long as nothing fails a sync starts within MaxWait + Debounce of
\* the first event.
THEOREM DebounceIsCapped == Spec => []DebounceBounded
<1>1. Inv => DebounceBounded
  BY DEF Inv, Debouncing, DebounceBounded
<1>. QED
  BY <1>1, Invariant, PTL

\* Every step of the daemon is a step of PolicySync or leaves its variables
\* alone: a reconcile puts the observed version in force, which is no older
\* than the one before and no newer than what listens.
LEMMA StepRefines ==
  Inv /\ [Next]_vars => [Promise!Next]_<<listeners, applied>>
<1>. SUFFICES ASSUME Inv, [Next]_vars PROVE [Promise!Next]_<<listeners, applied>>
  OBVIOUS
<1>. USE DEF policyVars, loopVars
<1>1. CASE SyncReturns
  <2>1. applied <= observed /\ observed <= listeners /\ applied \in Nat /\ observed \in Nat
        /\ listeners \in Nat
    BY DEF Inv, TypeOK, VersionType, Versions
  <2>2. listeners' = listeners /\ applied' \in {observed, applied}
    BY <1>1 DEF SyncReturns
  <2>3. applied' \in applied..listeners
    BY <2>1, <2>2
  <2>. QED
    BY <2>2, <2>3 DEF Promise!Next, Promise!Apply
<1>2. CASE ListenChange
  BY <1>2 DEF ListenChange, Promise!Next, Promise!Listen
<1>3. CASE OtherEvent
  BY <1>3 DEF OtherEvent, Promise!Next, Promise!Fresh
<1>4. CASE OpenBackend \/ Connect \/ Tick \/ WakeUp \/ ReadEvents \/ ReadRelay \/ Reload
  BY <1>4 DEF OpenBackend, Connect, Tick, WakeUp, ReadEvents, ReadRelay, Reload
<1>5. CASE EventSync \/ PeriodicSync \/ SyncDiscover \/ SyncRaises \/ StaleCheck \/ ProcEvent
  BY <1>5 DEF EventSync, PeriodicSync, SyncDiscover, SyncRaises, StaleCheck, ProcEvent
<1>6. CASE UNCHANGED vars
  BY <1>6 DEF vars
<1>. QED
  BY <1>1, <1>2, <1>3, <1>4, <1>5, <1>6 DEF Next, Loop

\* The watch loop implements the safety part of PolicySync: the policy in force
\* only moves forward, through versions of the listening sockets that sync_once
\* has observed, or back to nothing when the maps are replaced.
THEOREM ImplementsPromise == Spec => Promise!Safety
<1>1. Init => Promise!Init
  BY DEF Init, Promise!Init
<1>. QED
  BY <1>1, StepRefines, Invariant, PTL DEF Spec, Promise!Safety
=============================================================================
