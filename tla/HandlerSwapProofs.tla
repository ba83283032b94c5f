-------------------------- MODULE HandlerSwapProofs --------------------------
(***************************************************************************)
(* Proofs about HandlerSwap: for any number of loads, failed calls and     *)
(* kills, a load switches the handler atomically, keeps the old program    *)
(* pinned, is undone as a whole after a single failure, and leaves no      *)
(* validation entry of another handler behind.                             *)
(*                                                                         *)
(* The inductive invariant says, for every place of the command, where the *)
(* old and the new program are pinned and what the array entry holds.      *)
(***************************************************************************)
EXTENDS HandlerSwap, TLAPS

\* Places of the swap functions and of the commands around them.
SwapPc   == {"preflight", "discard", "update", "verify", "moveOld", "moveNew", "commit", "dropOld",
             "flush", "record", "undo", "undoNew", "undoOld", "drop"}
UnloadPc == {"delete", "unflush", "unpin", "forget"}
UndoPc   == {"undo", "undoNew", "undoOld"}

\* Which command is under way; outside of a swap its locals are reset and no
\* pin has a random name.
Commands ==
    /\ pc \in SwapPc \cup {"failed"} => cmd = "load"
    /\ pc \in UnloadPc => cmd = "unload"
    /\ pc \notin SwapPc =>
          next = None /\ backup = None /\ moved = {} /\ undone = TRUE /\ active = None

\* Calls that failed, where the swap cannot be without one.
Failures ==
    /\ hit <= faults
    /\ pc \in UndoPc \cup {"failed", "drop"} => hit >= 1
    /\ (pc = "discard" /\ before.entry = Pinned(before.live)) => hit >= 1

\* What the swap has not touched yet.
Untouched ==
    /\ pc \in SwapPc \cup {"failed"} => strays = before.strays /\ conf = before.conf
    /\ pc \in SwapPc => cand = loads /\ cand \in Prog
    /\ pc \in {"failed", "preflight", "discard", "update"} =>
          live = before.live /\ entry = before.entry
    /\ pc \in {"preflight", "discard", "update", "verify", "moveOld"} =>
          live = before.live /\ next = cand /\ backup = None /\ moved = {}

\* The candidate is in the array from UpdateArray on, and live at the end; all
\* the while the old pin is the backup.
Switched ==
    /\ pc \in {"verify", "moveOld", "moveNew", "commit", "dropOld", "flush", "record"} =>
          entry = cand
    /\ pc = "moveOld" => live # None
    /\ pc = "moveNew" =>
          /\ next = cand /\ live = None /\ backup = before.live
          /\ moved = IF before.live = None THEN {} ELSE {"old"}
    /\ pc \in {"commit", "dropOld"} =>
          /\ live = cand /\ next = None /\ backup = before.live
          /\ moved = IF before.live = None THEN {"new"} ELSE {"old", "new"}
    /\ pc = "dropOld" => before.live # None
    /\ pc \in {"flush", "record"} => live = cand /\ next = None

\* The rollback: where the pins are, given what was moved, and what a single
\* failure leaves as it was.
Undoing ==
    /\ pc \in {"undo", "undoNew"} => IF "new" \in moved THEN live = cand /\ next = None
                                                        ELSE next = cand
    /\ pc \in UndoPc =>
          /\ "old" \in moved => backup = before.live /\ before.live # None
                                /\ ("new" \notin moved => live = None)
          /\ "old" \notin moved => backup = None /\ ("new" \notin moved => live = before.live)
          /\ ("new" \in moved /\ "old" \notin moved) => before.live = None
    /\ (pc = "undoOld" /\ hit = 1) => ("new" \in moved => live = None)
    /\ pc = "undoOld" => live \in {None, cand, before.live}
    /\ pc = "drop" => \/ live = before.live /\ backup = None
                      \/ backup = before.live /\ hit >= 2
                      \/ before.live = None /\ hit >= 2
    /\ (pc \in {"undoNew", "undoOld", "drop"} /\ hit = 1 /\ before.entry = Pinned(before.live)) =>
          entry = before.entry

\* What was read of the entry and the live pin.
Active ==
    /\ pc \in SwapPc \ {"preflight"} => old = Pinned(before.live)
    /\ pc = "preflight" => active = None
    /\ pc \in SwapPc \ {"discard"} => active \in {None, old}
    /\ pc \in {"discard", "update"} => active \in {None, entry}

\* The validation entries once they are flushed.
Flushed ==
    (kind = "port" /\ pc \in {"record", "unpin", "forget"}) => cache \subseteq {entry}

Places == Commands /\ Failures /\ Untouched /\ Switched /\ Undoing /\ Active /\ Flushed

IInv == /\ TypeOK /\ Places
        /\ HandlerNeverLost /\ OldStaysPinned /\ AllOrNothing /\ NoStaleValidation

LEMMA InitI == Init => IInv
<1>. SUFFICES ASSUME Init PROVE IInv
  OBVIOUS
<1>. USE HandlerAssumption
<1>1. PinType /\ CommandType /\ CountType
  BY DEF Init, PinType, CommandType, CountType, Pin, Prog
<1>2. Places
  BY DEF Init, Places, Commands, Failures, Untouched, Switched, Undoing, Active, Flushed,
         SwapPc, UnloadPc, UndoPc
<1>. QED
  BY <1>1, <1>2 DEF Init, IInv, TypeOK, HandlerNeverLost, OldStaysPinned, AllOrNothing,
                    NoStaleValidation

-----------------------------------------------------------------------------
\* A call works or fails; the counts of failed calls stay within their bound.
LEMMA CallCount ==
  ASSUME CountType, hit <= faults, UNCHANGED <<loads, deaths>>,
         Works \/ Fails(1) \/ Fails(2)
  PROVE  /\ hit \in Nat /\ hit' \in Nat /\ hit <= hit' /\ hit' <= faults' /\ CountType'
         /\ (Fails(1) => hit' = hit + 1) /\ (Fails(2) => hit' = hit + 2)
  BY HandlerAssumption DEF CountType, Works, Fails

\* At the end of a command everything about places of a swap holds trivially.
LEMMA IdleI ==
  ASSUME pc' = "idle", next' = None, backup' = None, moved' = {}, undone' = TRUE, active' = None
  PROVE  Commands' /\ Untouched' /\ Switched' /\ Undoing' /\ Active' /\ Flushed' /\ HandlerNeverLost'
  BY DEF Commands, Untouched, Switched, Undoing, Active, Flushed, HandlerNeverLost, SwapPc, UnloadPc,
         UndoPc

\* A record is what its fields are.
LEMMA BeforeIs ==
  ASSUME NEW b \in [entry : Prog \cup {None}, live : Pin, strays : SUBSET Pin, conf : Prog \cup {None}]
  PROVE  [entry |-> b.entry, live |-> b.live, strays |-> b.strays, conf |-> b.conf] = b
  OBVIOUS

\* A load that failed before the swap has changed nothing.
LEMMA LoadFailedI == IInv /\ LoadFailed => IInv'
<1>. SUFFICES ASSUME IInv, LoadFailed PROVE IInv'
  OBVIOUS
<1>. USE HandlerAssumption DEF countVars, Works, End
<1>c. /\ TypeOK /\ PinType /\ CommandType /\ CountType
      /\ Commands /\ Failures /\ Untouched /\ Switched /\ Undoing /\ Active /\ Flushed
  BY DEF IInv, Places, TypeOK
<1>n. /\ hit \in Nat /\ hit' \in Nat /\ hit <= hit' /\ hit' <= faults' /\ CountType'
      /\ (Fails(1) => hit' = hit + 1) /\ (Fails(2) => hit' = hit + 2)
  BY <1>c, CallCount DEF LoadFailed, Failures
<1>1. PinType'
  BY <1>c DEF LoadFailed, PinType, Pin
<1>2. CommandType'
  BY <1>c DEF LoadFailed, CommandType
<1>3. Commands' /\ Untouched' /\ Switched' /\ Undoing' /\ Active' /\ Flushed' /\ HandlerNeverLost'
  BY IdleI DEF LoadFailed
<1>4. Failures'
  BY <1>n DEF LoadFailed, Failures, UndoPc
<1>5. OldStaysPinned'
  BY <1>c DEF IInv, LoadFailed, OldStaysPinned, Prog, Commands, Untouched, SwapPc
<1>6. AllOrNothing'
  <2>1. before' = before /\ outcome' \in {"failed", "refused", "restored", "rollback failed"}
    BY DEF LoadFailed
  <2>2. before.entry = Pinned(before.live) => hit >= 1
    BY <1>c DEF LoadFailed, Failures
  <2>3. ASSUME before.entry = Pinned(before.live), hit' <= 1, outcome' # "rollback failed"
        PROVE  [entry |-> entry', live |-> live', strays |-> strays', conf |-> conf'] = before'
    <3>a. hit >= 1 /\ hit' <= 1
      BY <2>2, <2>3
    <3>1. hit = 1 /\ hit' = 1 /\ ~Fails(1)
      BY <1>n, <3>a DEF Fails
    <3>b. live = before.live /\ entry = before.entry /\ backup = None
      BY <1>c, <2>3, <3>1 DEF LoadFailed, Untouched, Undoing, Commands, SwapPc
    <3>2. /\ entry' = before.entry /\ live' = before.live /\ conf' = before.conf
          /\ strays' = before.strays
      BY <1>c, <2>3, <3>1, <3>b DEF LoadFailed, Untouched, SwapPc
    <3>. QED
      BY <1>2, <2>1, <3>2, BeforeIs DEF CommandType
  <2>. QED
    <3>1. hit >= 1 => hit' # 0
      BY <1>n
    <3>. QED
      BY <2>1, <2>2, <2>3, <3>1 DEF AllOrNothing, Pinned
<1>7. NoStaleValidation'
  BY <1>c DEF LoadFailed, NoStaleValidation
<1>. QED
  BY <1>n, <1>1, <1>2, <1>3, <1>4, <1>5, <1>6, <1>7 DEF IInv, Places, TypeOK

\* The ids are read.
LEMMA PreflightI == IInv /\ Preflight => IInv'
<1>. SUFFICES ASSUME IInv, Preflight PROVE IInv'
  OBVIOUS
<1>. USE HandlerAssumption DEF pinVars, swapVars, countVars, Works
<1>c. /\ TypeOK /\ PinType /\ CommandType /\ CountType
      /\ Commands /\ Failures /\ Untouched /\ Switched /\ Undoing /\ Active /\ Flushed
  BY DEF IInv, Places, TypeOK
<1>n. /\ hit \in Nat /\ hit' \in Nat /\ hit <= hit' /\ hit' <= faults' /\ CountType'
      /\ (Fails(1) => hit' = hit + 1) /\ (Fails(2) => hit' = hit + 2)
  BY <1>c, CallCount DEF Preflight, Failures
<1>1. PinType'
  BY <1>c DEF Preflight, PinType, Pinned
<1>2. CommandType'
  <2>1. {old', active'} \subseteq Prog \cup {None}
    BY <1>c DEF Preflight, PinType, Pinned, Pin
  <2>2. pc' \in {"discard", "update"}
    BY DEF Preflight
  <2>. QED
    BY <1>c, <2>1, <2>2 DEF Preflight, CommandType
<1>3. Commands'
  BY <1>c DEF Preflight, Commands, SwapPc, UnloadPc
<1>4. Failures'
  BY <1>c, <1>n DEF Preflight, Failures, UndoPc, Untouched, Refused
<1>5. Untouched'
  BY <1>c DEF Preflight, Untouched, SwapPc
<1>6. Switched'
  BY <1>c DEF Preflight, Switched
<1>7. Undoing'
  BY <1>c, <1>n DEF Preflight, Undoing, UndoPc
<1>8. Active'
  BY <1>c DEF Preflight, Active, SwapPc, Untouched, Refused, SwapPc
<1>9. Flushed'
  BY <1>c DEF Preflight, Flushed
<1>10. HandlerNeverLost'
  BY <1>c DEF IInv, Preflight, HandlerNeverLost, Active, Untouched, SwapPc
<1>11. OldStaysPinned'
  BY <1>c DEF IInv, Preflight, OldStaysPinned
<1>12. AllOrNothing' /\ NoStaleValidation'
  BY <1>c DEF IInv, Preflight, AllOrNothing, NoStaleValidation
<1>. QED
  BY <1>n, <1>1, <1>2, <1>3, <1>4, <1>5, <1>6, <1>7, <1>8, <1>9, <1>10, <1>11, <1>12
  DEF IInv, Places, TypeOK

\* A refused candidate.
LEMMA DiscardI == IInv /\ Discard => IInv'
<1>. SUFFICES ASSUME IInv, Discard PROVE IInv'
  OBVIOUS
<1>. USE HandlerAssumption DEF countVars, Works, End
<1>c. /\ TypeOK /\ PinType /\ CommandType /\ CountType
      /\ Commands /\ Failures /\ Untouched /\ Switched /\ Undoing /\ Active /\ Flushed
  BY DEF IInv, Places, TypeOK
<1>n. /\ hit \in Nat /\ hit' \in Nat /\ hit <= hit' /\ hit' <= faults' /\ CountType'
      /\ (Fails(1) => hit' = hit + 1) /\ (Fails(2) => hit' = hit + 2)
  BY <1>c, CallCount DEF Discard, Failures
<1>1. PinType'
  BY <1>c DEF Discard, PinType, Pin
<1>2. CommandType'
  BY <1>c DEF Discard, CommandType
<1>3. Commands' /\ Untouched' /\ Switched' /\ Undoing' /\ Active' /\ Flushed' /\ HandlerNeverLost'
  BY IdleI DEF Discard
<1>4. Failures'
  BY <1>n DEF Discard, Failures, UndoPc
<1>5. OldStaysPinned'
  BY <1>c DEF IInv, Discard, OldStaysPinned, Prog, Untouched
<1>6. AllOrNothing'
  <2>1. before' = before /\ outcome' \in {"failed", "refused", "restored", "rollback failed"}
    BY DEF Discard
  <2>2. before.entry = Pinned(before.live) => hit >= 1
    BY <1>c DEF Discard, Failures
  <2>3. ASSUME before.entry = Pinned(before.live), hit' <= 1, outcome' # "rollback failed"
        PROVE  [entry |-> entry', live |-> live', strays |-> strays', conf |-> conf'] = before'
    <3>a. hit >= 1 /\ hit' <= 1
      BY <2>2, <2>3
    <3>1. hit = 1 /\ hit' = 1 /\ ~Fails(1)
      BY <1>n, <3>a DEF Fails
    <3>b. live = before.live /\ entry = before.entry /\ backup = None
      BY <1>c, <2>3, <3>1 DEF Discard, Untouched, Undoing, Commands, SwapPc
    <3>2. /\ entry' = before.entry /\ live' = before.live /\ conf' = before.conf
          /\ strays' = before.strays
      BY <1>c, <2>3, <3>1, <3>b DEF Discard, Untouched, SwapPc
    <3>. QED
      BY <1>2, <2>1, <3>2, BeforeIs DEF CommandType
  <2>. QED
    <3>1. hit >= 1 => hit' # 0
      BY <1>n
    <3>. QED
      BY <2>1, <2>2, <2>3, <3>1 DEF AllOrNothing, Pinned
<1>7. NoStaleValidation'
  BY <1>c DEF Discard, NoStaleValidation
<1>. QED
  BY <1>n, <1>1, <1>2, <1>3, <1>4, <1>5, <1>6, <1>7 DEF IInv, Places, TypeOK

\* The entry is switched, or the rollback is entered with everything in place.
LEMMA UpdateArrayI == IInv /\ UpdateArray => IInv'
<1>. SUFFICES ASSUME IInv, UpdateArray PROVE IInv'
  OBVIOUS
<1>. USE HandlerAssumption DEF pinVars, swapVars, countVars, Works
<1>c. /\ TypeOK /\ PinType /\ CommandType /\ CountType
      /\ Commands /\ Failures /\ Untouched /\ Switched /\ Undoing /\ Active /\ Flushed
  BY DEF IInv, Places, TypeOK
<1>n. /\ hit \in Nat /\ hit' \in Nat /\ hit <= hit' /\ hit' <= faults' /\ CountType'
      /\ (Fails(1) => hit' = hit + 1) /\ (Fails(2) => hit' = hit + 2)
  BY <1>c, CallCount DEF UpdateArray, Failures
<1>1. PinType'
  BY <1>c DEF UpdateArray, PinType, Untouched, SwapPc
<1>2. CommandType'
  BY <1>c DEF UpdateArray, CommandType
<1>3. Commands'
  BY <1>c DEF UpdateArray, Commands, SwapPc, UnloadPc
<1>4. Failures'
  BY <1>c, <1>n DEF UpdateArray, Failures, UndoPc
<1>5. Untouched'
  BY <1>c DEF UpdateArray, Untouched, SwapPc
<1>6. Switched'
  BY <1>c DEF UpdateArray, Switched, Untouched, SwapPc
<1>7. Undoing'
  BY <1>c, <1>n DEF UpdateArray, Undoing, UndoPc, Untouched, SwapPc
<1>8. Active'
  BY <1>c DEF UpdateArray, Active, SwapPc
<1>9. Flushed'
  BY <1>c DEF UpdateArray, Flushed
<1>10. HandlerNeverLost'
  BY <1>c DEF IInv, UpdateArray, HandlerNeverLost, Active, Untouched, SwapPc
<1>11. OldStaysPinned'
  BY <1>c DEF IInv, UpdateArray, OldStaysPinned, Untouched
<1>12. AllOrNothing' /\ NoStaleValidation'
  BY <1>c DEF IInv, UpdateArray, AllOrNothing, NoStaleValidation
<1>. QED
  BY <1>n, <1>1, <1>2, <1>3, <1>4, <1>5, <1>6, <1>7, <1>8, <1>9, <1>10, <1>11, <1>12
  DEF IInv, Places, TypeOK

\* From here on the old pin is looked after by the rollback.
LEMMA VerifySwitchI == IInv /\ VerifySwitch => IInv'
<1>. SUFFICES ASSUME IInv, VerifySwitch PROVE IInv'
  OBVIOUS
<1>. USE HandlerAssumption DEF pinVars, swapVars, countVars, Works
<1>c. /\ TypeOK /\ PinType /\ CommandType /\ CountType
      /\ Commands /\ Failures /\ Untouched /\ Switched /\ Undoing /\ Active /\ Flushed
  BY DEF IInv, Places, TypeOK
<1>n. /\ hit \in Nat /\ hit' \in Nat /\ hit <= hit' /\ hit' <= faults' /\ CountType'
      /\ (Fails(1) => hit' = hit + 1) /\ (Fails(2) => hit' = hit + 2)
  BY <1>c, CallCount DEF VerifySwitch, Failures
<1>1. PinType'
  BY <1>c DEF VerifySwitch, PinType
<1>2. CommandType'
  BY <1>c DEF VerifySwitch, CommandType
<1>3. Commands'
  BY <1>c DEF VerifySwitch, Commands, SwapPc, UnloadPc
<1>4. Failures'
  BY <1>c, <1>n DEF VerifySwitch, Failures, UndoPc
<1>5. Untouched'
  BY <1>c DEF VerifySwitch, Untouched, SwapPc
<1>6. Switched'
  BY <1>c DEF VerifySwitch, Switched, Untouched, SwapPc
<1>7. Undoing'
  BY <1>c, <1>n DEF VerifySwitch, Undoing, UndoPc, Untouched
<1>8. Active'
  BY <1>c DEF VerifySwitch, Active, SwapPc
<1>9. Flushed'
  BY <1>c DEF VerifySwitch, Flushed
<1>10. HandlerNeverLost'
  BY <1>c DEF IInv, VerifySwitch, HandlerNeverLost
<1>11. OldStaysPinned'
  BY <1>c DEF IInv, VerifySwitch, OldStaysPinned
<1>12. AllOrNothing' /\ NoStaleValidation'
  BY <1>c DEF IInv, VerifySwitch, AllOrNothing, NoStaleValidation
<1>. QED
  BY <1>n, <1>1, <1>2, <1>3, <1>4, <1>5, <1>6, <1>7, <1>8, <1>9, <1>10, <1>11, <1>12
  DEF IInv, Places, TypeOK

\* The old pin is now the backup.
LEMMA MoveOldI == IInv /\ MoveOld => IInv'
<1>. SUFFICES ASSUME IInv, MoveOld PROVE IInv'
  OBVIOUS
<1>. USE HandlerAssumption DEF pinVars, swapVars, countVars, Works
<1>c. /\ TypeOK /\ PinType /\ CommandType /\ CountType
      /\ Commands /\ Failures /\ Untouched /\ Switched /\ Undoing /\ Active /\ Flushed
  BY DEF IInv, Places, TypeOK
<1>n. /\ hit \in Nat /\ hit' \in Nat /\ hit <= hit' /\ hit' <= faults' /\ CountType'
      /\ (Fails(1) => hit' = hit + 1) /\ (Fails(2) => hit' = hit + 2)
  BY <1>c, CallCount DEF MoveOld, Failures
<1>1. PinType'
  BY <1>c DEF MoveOld, PinType, Pin
<1>2. CommandType'
  BY <1>c DEF MoveOld, CommandType
<1>3. Commands'
  BY <1>c DEF MoveOld, Commands, SwapPc, UnloadPc
<1>4. Failures'
  BY <1>c, <1>n DEF MoveOld, Failures, UndoPc
<1>5. Untouched'
  BY <1>c DEF MoveOld, Untouched, SwapPc
<1>6. Switched'
  BY <1>c DEF MoveOld, Switched, Untouched
<1>7. Undoing'
  BY <1>c, <1>n DEF MoveOld, Undoing, UndoPc, Untouched
<1>8. Active'
  BY <1>c DEF MoveOld, Active, SwapPc
<1>9. Flushed'
  BY <1>c DEF MoveOld, Flushed
<1>10. HandlerNeverLost'
  BY <1>c DEF IInv, MoveOld, HandlerNeverLost
<1>11. OldStaysPinned'
  BY <1>c DEF IInv, MoveOld, OldStaysPinned, Untouched, SwapPc
<1>12. AllOrNothing' /\ NoStaleValidation'
  BY <1>c DEF IInv, MoveOld, AllOrNothing, NoStaleValidation
<1>. QED
  BY <1>n, <1>1, <1>2, <1>3, <1>4, <1>5, <1>6, <1>7, <1>8, <1>9, <1>10, <1>11, <1>12
  DEF IInv, Places, TypeOK

\* The candidate is now the live pin.
LEMMA MoveNewI == IInv /\ MoveNew => IInv'
<1>. SUFFICES ASSUME IInv, MoveNew PROVE IInv'
  OBVIOUS
<1>. USE HandlerAssumption DEF pinVars, swapVars, countVars, Works
<1>c. /\ TypeOK /\ PinType /\ CommandType /\ CountType
      /\ Commands /\ Failures /\ Untouched /\ Switched /\ Undoing /\ Active /\ Flushed
  BY DEF IInv, Places, TypeOK
<1>n. /\ hit \in Nat /\ hit' \in Nat /\ hit <= hit' /\ hit' <= faults' /\ CountType'
      /\ (Fails(1) => hit' = hit + 1) /\ (Fails(2) => hit' = hit + 2)
  BY <1>c, CallCount DEF MoveNew, Failures
<1>1. PinType'
  BY <1>c DEF MoveNew, PinType, Pin
<1>2. CommandType'
  BY <1>c DEF MoveNew, CommandType
<1>3. Commands'
  BY <1>c DEF MoveNew, Commands, SwapPc, UnloadPc
<1>4. Failures'
  BY <1>c, <1>n DEF MoveNew, Failures, UndoPc
<1>5. Untouched'
  BY <1>c DEF MoveNew, Untouched, SwapPc, Switched
<1>6. Switched'
  BY <1>c DEF MoveNew, Switched
<1>7. Undoing'
  BY <1>c, <1>n DEF MoveNew, Undoing, UndoPc, Switched
<1>8. Active'
  BY <1>c DEF MoveNew, Active, SwapPc
<1>9. Flushed'
  BY <1>c DEF MoveNew, Flushed
<1>10. HandlerNeverLost'
  BY <1>c DEF IInv, MoveNew, HandlerNeverLost
<1>11. OldStaysPinned'
  BY <1>c DEF IInv, MoveNew, OldStaysPinned, Switched
<1>12. AllOrNothing' /\ NoStaleValidation'
  BY <1>c DEF IInv, MoveNew, AllOrNothing, NoStaleValidation
<1>. QED
  BY <1>n, <1>1, <1>2, <1>3, <1>4, <1>5, <1>6, <1>7, <1>8, <1>9, <1>10, <1>11, <1>12
  DEF IInv, Places, TypeOK

\* Both pins are where the rollback expects them.
LEMMA VerifyCommitI == IInv /\ VerifyCommit => IInv'
<1>. SUFFICES ASSUME IInv, VerifyCommit PROVE IInv'
  OBVIOUS
<1>. USE HandlerAssumption DEF pinVars, swapVars, countVars, Works
<1>c. /\ TypeOK /\ PinType /\ CommandType /\ CountType
      /\ Commands /\ Failures /\ Untouched /\ Switched /\ Undoing /\ Active /\ Flushed
  BY DEF IInv, Places, TypeOK
<1>n. /\ hit \in Nat /\ hit' \in Nat /\ hit <= hit' /\ hit' <= faults' /\ CountType'
      /\ (Fails(1) => hit' = hit + 1) /\ (Fails(2) => hit' = hit + 2)
  BY <1>c, CallCount DEF VerifyCommit, Failures
<1>1. PinType'
  BY <1>c DEF VerifyCommit, PinType
<1>2. CommandType'
  BY <1>c DEF VerifyCommit, CommandType
<1>3. Commands'
  BY <1>c DEF VerifyCommit, Commands, SwapPc, UnloadPc
<1>4. Failures'
  BY <1>c, <1>n DEF VerifyCommit, Failures, UndoPc
<1>5. Untouched'
  BY <1>c DEF VerifyCommit, Untouched, SwapPc
<1>6. Switched'
  BY <1>c DEF VerifyCommit, Switched
<1>7. Undoing'
  BY <1>c, <1>n DEF VerifyCommit, Undoing, UndoPc, Switched
<1>8. Active'
  BY <1>c DEF VerifyCommit, Active, SwapPc
<1>9. Flushed'
  BY <1>c DEF VerifyCommit, Flushed
<1>10. HandlerNeverLost'
  BY <1>c DEF IInv, VerifyCommit, HandlerNeverLost
<1>11. OldStaysPinned'
  BY <1>c DEF IInv, VerifyCommit, OldStaysPinned
<1>12. AllOrNothing' /\ NoStaleValidation'
  BY <1>c DEF IInv, VerifyCommit, AllOrNothing, NoStaleValidation
<1>. QED
  BY <1>n, <1>1, <1>2, <1>3, <1>4, <1>5, <1>6, <1>7, <1>8, <1>9, <1>10, <1>11, <1>12
  DEF IInv, Places, TypeOK

\* The old program may go: array and live pin hold the new one.
LEMMA DropOldFileI == IInv /\ DropOldFile => IInv'
<1>. SUFFICES ASSUME IInv, DropOldFile PROVE IInv'
  OBVIOUS
<1>. USE HandlerAssumption DEF pinVars, swapVars, countVars, Works
<1>c. /\ TypeOK /\ PinType /\ CommandType /\ CountType
      /\ Commands /\ Failures /\ Untouched /\ Switched /\ Undoing /\ Active /\ Flushed
  BY DEF IInv, Places, TypeOK
<1>n. /\ hit \in Nat /\ hit' \in Nat /\ hit <= hit' /\ hit' <= faults' /\ CountType'
      /\ (Fails(1) => hit' = hit + 1) /\ (Fails(2) => hit' = hit + 2)
  BY <1>c, CallCount DEF DropOldFile, Failures
<1>1. PinType'
  BY <1>c DEF DropOldFile, PinType, Pin
<1>2. CommandType'
  BY <1>c DEF DropOldFile, CommandType
<1>3. Commands'
  BY <1>c DEF DropOldFile, Commands, SwapPc, UnloadPc
<1>4. Failures'
  BY <1>c, <1>n DEF DropOldFile, Failures, UndoPc
<1>5. Untouched'
  BY <1>c DEF DropOldFile, Untouched, SwapPc
<1>6. Switched'
  BY <1>c DEF DropOldFile, Switched
<1>7. Undoing'
  BY <1>c, <1>n DEF DropOldFile, Undoing, UndoPc, Switched
<1>8. Active'
  BY <1>c DEF DropOldFile, Active, SwapPc
<1>9. Flushed'
  BY <1>c DEF DropOldFile, Flushed
<1>10. HandlerNeverLost'
  BY <1>c DEF IInv, DropOldFile, HandlerNeverLost
<1>11. OldStaysPinned'
  BY <1>c DEF IInv, DropOldFile, OldStaysPinned, Switched, Untouched, SwapPc
<1>12. AllOrNothing' /\ NoStaleValidation'
  BY <1>c DEF IInv, DropOldFile, AllOrNothing, NoStaleValidation
<1>. QED
  BY <1>n, <1>1, <1>2, <1>3, <1>4, <1>5, <1>6, <1>7, <1>8, <1>9, <1>10, <1>11, <1>12
  DEF IInv, Places, TypeOK

\* The same of a port directory.
LEMMA DropOldDirI == IInv /\ DropOldDir /\ kind = "port" => IInv'
<1>. SUFFICES ASSUME IInv, DropOldDir, kind = "port" PROVE IInv'
  OBVIOUS
<1>. USE HandlerAssumption DEF pinVars, swapVars, countVars, Works
<1>c. /\ TypeOK /\ PinType /\ CommandType /\ CountType
      /\ Commands /\ Failures /\ Untouched /\ Switched /\ Undoing /\ Active /\ Flushed
  BY DEF IInv, Places, TypeOK
<1>n. /\ hit \in Nat /\ hit' \in Nat /\ hit <= hit' /\ hit' <= faults' /\ CountType'
      /\ (Fails(1) => hit' = hit + 1) /\ (Fails(2) => hit' = hit + 2)
  BY <1>c, CallCount DEF DropOldDir, Failures
<1>1. PinType'
  BY <1>c DEF DropOldDir, PinType, Pin
<1>2. CommandType'
  BY <1>c DEF DropOldDir, CommandType
<1>3. Commands'
  BY <1>c DEF DropOldDir, Commands, SwapPc, UnloadPc
<1>4. Failures'
  BY <1>c, <1>n DEF DropOldDir, Failures, UndoPc
<1>5. Untouched'
  BY <1>c DEF DropOldDir, Untouched, SwapPc
<1>6. Switched'
  BY <1>c DEF DropOldDir, Switched
<1>7. Undoing'
  BY <1>c, <1>n DEF DropOldDir, Undoing, UndoPc, Switched
<1>8. Active'
  BY <1>c DEF DropOldDir, Active, SwapPc
<1>9. Flushed'
  BY <1>c DEF DropOldDir, Flushed
<1>10. HandlerNeverLost'
  BY <1>c DEF IInv, DropOldDir, HandlerNeverLost
<1>11. OldStaysPinned'
  BY <1>c DEF IInv, DropOldDir, OldStaysPinned, Switched, Untouched, SwapPc
<1>12. AllOrNothing' /\ NoStaleValidation'
  BY <1>c DEF IInv, DropOldDir, AllOrNothing, NoStaleValidation
<1>. QED
  BY <1>n, <1>1, <1>2, <1>3, <1>4, <1>5, <1>6, <1>7, <1>8, <1>9, <1>10, <1>11, <1>12
  DEF IInv, Places, TypeOK

\* The rollback writes the old program, wherever its pin is, or removes the entry.
LEMMA UndoI == IInv /\ Undo => IInv'
<1>. SUFFICES ASSUME IInv, Undo PROVE IInv'
  OBVIOUS
<1>. USE HandlerAssumption DEF pinVars, swapVars, countVars, Works
<1>c. /\ TypeOK /\ PinType /\ CommandType /\ CountType
      /\ Commands /\ Failures /\ Untouched /\ Switched /\ Undoing /\ Active /\ Flushed
  BY DEF IInv, Places, TypeOK
<1>n. /\ hit \in Nat /\ hit' \in Nat /\ hit <= hit' /\ hit' <= faults' /\ CountType'
      /\ (Fails(1) => hit' = hit + 1) /\ (Fails(2) => hit' = hit + 2)
  BY <1>c, CallCount DEF Undo, Failures
<1>p. old # None => Pinned(IF "old" \in moved THEN backup ELSE live) = old
  BY <1>c DEF Undo, Undoing, Active, UndoPc, SwapPc, Pinned
<1>q. before.entry = Pinned(before.live) => before.entry = old
  BY <1>c DEF Undo, Active, SwapPc
<1>1. PinType'
  BY <1>c DEF Undo, PinType, Pinned, Pin
<1>2. CommandType'
  BY <1>c DEF Undo, CommandType
<1>3. Commands'
  BY <1>c DEF Undo, Commands, SwapPc, UnloadPc
<1>4. Failures'
  BY <1>c, <1>n DEF Undo, Failures, UndoPc
<1>5. Untouched'
  BY <1>c DEF Undo, Untouched, SwapPc
<1>6. Switched'
  BY <1>c DEF Undo, Switched
<1>7. Undoing'
  <2>1. (hit' = 1 /\ before.entry = Pinned(before.live)) => entry' = before.entry
    <3>1. hit' = 1 => hit = 1 /\ ~Fails(1) /\ ~Fails(2)
      BY <1>c, <1>n DEF Undo, Failures, UndoPc
    <3>. QED
      BY <1>p, <1>q, <3>1 DEF Undo
  <2>. QED
    BY <1>c, <2>1 DEF Undo, Undoing, UndoPc
<1>8. Active'
  BY <1>c DEF Undo, Active, SwapPc
<1>9. Flushed'
  BY <1>c DEF Undo, Flushed
<1>10. HandlerNeverLost'
  BY <1>c, <1>p DEF IInv, Undo, HandlerNeverLost, Undoing, Active, SwapPc, UndoPc
<1>11. OldStaysPinned'
  BY <1>c DEF IInv, Undo, OldStaysPinned, Undoing, UndoPc
<1>12. AllOrNothing' /\ NoStaleValidation'
  BY <1>c DEF IInv, Undo, AllOrNothing, NoStaleValidation
<1>. QED
  BY <1>n, <1>1, <1>2, <1>3, <1>4, <1>5, <1>6, <1>7, <1>8, <1>9, <1>10, <1>11, <1>12
  DEF IInv, Places, TypeOK

\* The candidate is moved away from the live path.
LEMMA UndoNewI == IInv /\ UndoNew => IInv'
<1>. SUFFICES ASSUME IInv, UndoNew PROVE IInv'
  OBVIOUS
<1>. USE HandlerAssumption DEF pinVars, swapVars, countVars, Works
<1>c. /\ TypeOK /\ PinType /\ CommandType /\ CountType
      /\ Commands /\ Failures /\ Untouched /\ Switched /\ Undoing /\ Active /\ Flushed
  BY DEF IInv, Places, TypeOK
<1>n. /\ hit \in Nat /\ hit' \in Nat /\ hit <= hit' /\ hit' <= faults' /\ CountType'
      /\ (Fails(1) => hit' = hit + 1) /\ (Fails(2) => hit' = hit + 2)
  BY <1>c, CallCount DEF UndoNew, Failures
<1>1. PinType'
  BY <1>c DEF UndoNew, PinType, Pin
<1>2. CommandType'
  BY <1>c DEF UndoNew, CommandType
<1>3. Commands'
  BY <1>c DEF UndoNew, Commands, SwapPc, UnloadPc
<1>4. Failures'
  BY <1>c, <1>n DEF UndoNew, Failures, UndoPc
<1>5. Untouched'
  BY <1>c DEF UndoNew, Untouched, SwapPc
<1>6. Switched'
  BY <1>c DEF UndoNew, Switched
<1>7. Undoing'
  BY <1>c, <1>n DEF UndoNew, Undoing, UndoPc, Failures
<1>8. Active'
  BY <1>c DEF UndoNew, Active, SwapPc
<1>9. Flushed'
  BY <1>c DEF UndoNew, Flushed
<1>10. HandlerNeverLost'
  BY <1>c DEF IInv, UndoNew, HandlerNeverLost
<1>11. OldStaysPinned'
  BY <1>c DEF IInv, UndoNew, OldStaysPinned, Undoing, UndoPc
<1>12. AllOrNothing' /\ NoStaleValidation'
  BY <1>c DEF IInv, UndoNew, AllOrNothing, NoStaleValidation
<1>. QED
  BY <1>n, <1>1, <1>2, <1>3, <1>4, <1>5, <1>6, <1>7, <1>8, <1>9, <1>10, <1>11, <1>12
  DEF IInv, Places, TypeOK

\* The backup is moved back; after a second failure it is still the backup.
LEMMA UndoOldI == IInv /\ UndoOld => IInv'
<1>. SUFFICES ASSUME IInv, UndoOld PROVE IInv'
  OBVIOUS
<1>. USE HandlerAssumption DEF pinVars, swapVars, countVars, Works
<1>c. /\ TypeOK /\ PinType /\ CommandType /\ CountType
      /\ Commands /\ Failures /\ Untouched /\ Switched /\ Undoing /\ Active /\ Flushed
  BY DEF IInv, Places, TypeOK
<1>n. /\ hit \in Nat /\ hit' \in Nat /\ hit <= hit' /\ hit' <= faults' /\ CountType'
      /\ (Fails(1) => hit' = hit + 1) /\ (Fails(2) => hit' = hit + 2)
  BY <1>c, CallCount DEF UndoOld, Failures
<1>1. PinType'
  BY <1>c DEF UndoOld, PinType, Pin
<1>2. CommandType'
  BY <1>c DEF UndoOld, CommandType
<1>3. Commands'
  BY <1>c DEF UndoOld, Commands, SwapPc, UnloadPc
<1>4. Failures'
  BY <1>c, <1>n DEF UndoOld, Failures, UndoPc
<1>5. Untouched'
  BY <1>c DEF UndoOld, Untouched, SwapPc
<1>6. Switched'
  BY <1>c DEF UndoOld, Switched
<1>7. Undoing'
  BY <1>c, <1>n DEF UndoOld, Undoing, UndoPc, Failures
<1>8. Active'
  BY <1>c DEF UndoOld, Active, SwapPc
<1>9. Flushed'
  BY <1>c DEF UndoOld, Flushed
<1>10. HandlerNeverLost'
  BY <1>c DEF IInv, UndoOld, HandlerNeverLost
<1>11. OldStaysPinned'
  BY <1>c DEF IInv, UndoOld, OldStaysPinned, Undoing, UndoPc
<1>12. AllOrNothing' /\ NoStaleValidation'
  BY <1>c DEF IInv, UndoOld, AllOrNothing, NoStaleValidation
<1>. QED
  BY <1>n, <1>1, <1>2, <1>3, <1>4, <1>5, <1>6, <1>7, <1>8, <1>9, <1>10, <1>11, <1>12
  DEF IInv, Places, TypeOK

\* After one failure everything is as it was.
LEMMA DropI == IInv /\ Drop => IInv'
<1>. SUFFICES ASSUME IInv, Drop PROVE IInv'
  OBVIOUS
<1>. USE HandlerAssumption DEF countVars, Works, End
<1>c. /\ TypeOK /\ PinType /\ CommandType /\ CountType
      /\ Commands /\ Failures /\ Untouched /\ Switched /\ Undoing /\ Active /\ Flushed
  BY DEF IInv, Places, TypeOK
<1>n. /\ hit \in Nat /\ hit' \in Nat /\ hit <= hit' /\ hit' <= faults' /\ CountType'
      /\ (Fails(1) => hit' = hit + 1) /\ (Fails(2) => hit' = hit + 2)
  BY <1>c, CallCount DEF Drop, Failures
<1>1. PinType'
  BY <1>c DEF Drop, PinType, Pin, Untouched
<1>2. CommandType'
  BY <1>c DEF Drop, CommandType
<1>3. Commands' /\ Untouched' /\ Switched' /\ Undoing' /\ Active' /\ Flushed' /\ HandlerNeverLost'
  BY IdleI DEF Drop
<1>4. Failures'
  BY <1>n DEF Drop, Failures, UndoPc
<1>5. OldStaysPinned'
  BY <1>c DEF IInv, Drop, OldStaysPinned, Prog, Undoing, Failures
<1>6. AllOrNothing'
  <2>1. before' = before /\ outcome' \in {"failed", "refused", "restored", "rollback failed"}
    BY DEF Drop
  <2>2. before.entry = Pinned(before.live) => hit >= 1
    BY <1>c DEF Drop, Failures
  <2>3. ASSUME before.entry = Pinned(before.live), hit' <= 1, outcome' # "rollback failed"
        PROVE  [entry |-> entry', live |-> live', strays |-> strays', conf |-> conf'] = before'
    <3>a. hit >= 1 /\ hit' <= 1
      BY <2>2, <2>3
    <3>1. hit = 1 /\ hit' = 1 /\ ~Fails(1)
      BY <1>n, <3>a DEF Fails
    <3>d. pc = "drop"
      BY DEF Drop
    <3>e. ~(hit >= 2)
      BY <3>1
    <3>b. live = before.live /\ entry = before.entry /\ backup = None
      <4>1. live = before.live /\ backup = None
        <5>1. \/ live = before.live /\ backup = None
              \/ backup = before.live /\ hit >= 2
              \/ before.live = None /\ hit >= 2
          BY <1>c, <3>d DEF Undoing
        <5>. QED
          BY <3>e, <5>1
      <4>2. entry = before.entry
        BY <1>c, <2>3, <3>1, <3>d DEF Undoing
      <4>. QED
        BY <4>1, <4>2
    <3>2. /\ entry' = before.entry /\ live' = before.live /\ conf' = before.conf
          /\ strays' = before.strays
      BY <1>c, <2>3, <3>1, <3>b DEF Drop, Untouched, SwapPc
    <3>. QED
      BY <1>2, <2>1, <3>2, BeforeIs DEF CommandType
  <2>. QED
    <3>1. hit >= 1 => hit' # 0
      BY <1>n
    <3>. QED
      BY <2>1, <2>2, <2>3, <3>1 DEF AllOrNothing, Pinned
<1>7. NoStaleValidation'
  BY <1>c DEF Drop, NoStaleValidation
<1>. QED
  BY <1>n, <1>1, <1>2, <1>3, <1>4, <1>5, <1>6, <1>7 DEF IInv, Places, TypeOK

\* From here on only the new handler makes validation entries.
LEMMA FlushI == IInv /\ Flush => IInv'
<1>. SUFFICES ASSUME IInv, Flush PROVE IInv'
  OBVIOUS
<1>. USE HandlerAssumption DEF pinVars, swapVars, countVars, Works, End
<1>c. /\ TypeOK /\ PinType /\ CommandType /\ CountType
      /\ Commands /\ Failures /\ Untouched /\ Switched /\ Undoing /\ Active /\ Flushed
  BY DEF IInv, Places, TypeOK
<1>n. /\ hit \in Nat /\ hit' \in Nat /\ hit <= hit' /\ hit' <= faults' /\ CountType'
      /\ (Fails(1) => hit' = hit + 1) /\ (Fails(2) => hit' = hit + 2)
  BY <1>c, CallCount DEF Flush, Failures
<1>1. PinType'
  BY <1>c DEF Flush, PinType, Pin
<1>2. CommandType'
  BY <1>c DEF Flush, CommandType
<1>3. Commands'
  BY <1>c DEF Flush, Commands, SwapPc, UnloadPc
<1>4. Failures'
  BY <1>c, <1>n DEF Flush, Failures, UndoPc
<1>5. Untouched'
  BY <1>c DEF Flush, Untouched, SwapPc
<1>6. Switched'
  BY <1>c DEF Flush, Switched
<1>7. Undoing'
  BY <1>c, <1>n DEF Flush, Undoing, UndoPc
<1>8. Active'
  BY <1>c DEF Flush, Active, SwapPc
<1>9. Flushed'
  BY <1>c DEF Flush, Flushed
<1>10. HandlerNeverLost'
  BY <1>c DEF IInv, Flush, HandlerNeverLost
<1>11. OldStaysPinned'
  BY <1>c DEF IInv, Flush, OldStaysPinned, Untouched, Switched, SwapPc
<1>12. AllOrNothing' /\ NoStaleValidation'
  BY <1>c, <1>n DEF IInv, Flush, AllOrNothing, NoStaleValidation, Failures
<1>. QED
  BY <1>n, <1>1, <1>2, <1>3, <1>4, <1>5, <1>6, <1>7, <1>8, <1>9, <1>10, <1>11, <1>12
  DEF IInv, Places, TypeOK

\* The load has succeeded.
LEMMA RecordI == IInv /\ Record => IInv'
<1>. SUFFICES ASSUME IInv, Record PROVE IInv'
  OBVIOUS
<1>. USE HandlerAssumption DEF countVars, Works, End
<1>c. /\ TypeOK /\ PinType /\ CommandType /\ CountType
      /\ Commands /\ Failures /\ Untouched /\ Switched /\ Undoing /\ Active /\ Flushed
  BY DEF IInv, Places, TypeOK
<1>n. /\ hit \in Nat /\ hit' \in Nat /\ hit <= hit' /\ hit' <= faults' /\ CountType'
      /\ (Fails(1) => hit' = hit + 1) /\ (Fails(2) => hit' = hit + 2)
  BY <1>c, CallCount DEF Record, Failures
<1>1. PinType'
  <2>1. conf' \in Prog \cup {None}
    BY <1>c DEF Record, Recorded, PinType, CommandType
  <2>. QED
    BY <1>c, <2>1 DEF Record, PinType, Pin
<1>2. CommandType'
  BY <1>c DEF Record, CommandType
<1>3. Commands' /\ Untouched' /\ Switched' /\ Undoing' /\ Active' /\ Flushed' /\ HandlerNeverLost'
  BY IdleI DEF Record
<1>4. Failures'
  BY <1>n DEF Record, Failures, UndoPc
<1>5. OldStaysPinned'
  BY <1>c DEF IInv, Record, OldStaysPinned, Prog, Switched, Untouched, SwapPc
<1>6. AllOrNothing'
  BY <1>c, <1>n DEF Record, AllOrNothing, Failures
<1>7. NoStaleValidation'
  BY <1>c DEF Record, NoStaleValidation, Flushed
<1>. QED
  BY <1>n, <1>1, <1>2, <1>3, <1>4, <1>5, <1>6, <1>7 DEF IInv, Places, TypeOK

\* The steps of an unload.
LEMMA DeleteEntryI == IInv /\ DeleteEntry => IInv'
<1>. SUFFICES ASSUME IInv, DeleteEntry PROVE IInv'
  OBVIOUS
<1>. USE HandlerAssumption DEF pinVars, swapVars, countVars, Works
<1>c. /\ TypeOK /\ PinType /\ CommandType /\ CountType
      /\ Commands /\ Failures /\ Untouched /\ Switched /\ Undoing /\ Active /\ Flushed
  BY DEF IInv, Places, TypeOK
<1>n. /\ hit \in Nat /\ hit' \in Nat /\ hit <= hit' /\ hit' <= faults' /\ CountType'
      /\ (Fails(1) => hit' = hit + 1) /\ (Fails(2) => hit' = hit + 2)
  BY <1>c, CallCount DEF DeleteEntry, Failures
<1>1. PinType'
  BY <1>c DEF DeleteEntry, PinType
<1>2. CommandType'
  BY <1>c DEF DeleteEntry, CommandType
<1>3. Commands'
  BY <1>c DEF DeleteEntry, Commands, SwapPc, UnloadPc
<1>4. Failures'
  BY <1>c, <1>n DEF DeleteEntry, Failures, UndoPc
<1>5. Untouched'
  BY <1>c DEF DeleteEntry, Untouched, SwapPc
<1>6. Switched'
  BY <1>c DEF DeleteEntry, Switched
<1>7. Undoing'
  BY <1>c, <1>n DEF DeleteEntry, Undoing, UndoPc
<1>8. Active'
  BY <1>c DEF DeleteEntry, Active, SwapPc
<1>9. Flushed'
  BY <1>c DEF DeleteEntry, Flushed
<1>10. HandlerNeverLost'
  BY <1>c DEF IInv, DeleteEntry, HandlerNeverLost, Commands, UnloadPc
<1>11. OldStaysPinned'
  BY <1>c DEF IInv, DeleteEntry, OldStaysPinned, Commands, UnloadPc
<1>12. AllOrNothing' /\ NoStaleValidation'
  BY <1>c DEF IInv, DeleteEntry, AllOrNothing, NoStaleValidation
<1>. QED
  BY <1>n, <1>1, <1>2, <1>3, <1>4, <1>5, <1>6, <1>7, <1>8, <1>9, <1>10, <1>11, <1>12
  DEF IInv, Places, TypeOK

LEMMA UnloadFlushI == IInv /\ UnloadFlush => IInv'
<1>. SUFFICES ASSUME IInv, UnloadFlush PROVE IInv'
  OBVIOUS
<1>. USE HandlerAssumption DEF pinVars, swapVars, countVars, Works, End
<1>c. /\ TypeOK /\ PinType /\ CommandType /\ CountType
      /\ Commands /\ Failures /\ Untouched /\ Switched /\ Undoing /\ Active /\ Flushed
  BY DEF IInv, Places, TypeOK
<1>n. /\ hit \in Nat /\ hit' \in Nat /\ hit <= hit' /\ hit' <= faults' /\ CountType'
      /\ (Fails(1) => hit' = hit + 1) /\ (Fails(2) => hit' = hit + 2)
  BY <1>c, CallCount DEF UnloadFlush, Failures
<1>1. PinType'
  BY <1>c DEF UnloadFlush, PinType, Pin
<1>2. CommandType'
  BY <1>c DEF UnloadFlush, CommandType
<1>3. Commands'
  BY <1>c DEF UnloadFlush, Commands, SwapPc, UnloadPc
<1>4. Failures'
  BY <1>c, <1>n DEF UnloadFlush, Failures, UndoPc
<1>5. Untouched'
  BY <1>c DEF UnloadFlush, Untouched, SwapPc
<1>6. Switched'
  BY <1>c DEF UnloadFlush, Switched
<1>7. Undoing'
  BY <1>c, <1>n DEF UnloadFlush, Undoing, UndoPc
<1>8. Active'
  BY <1>c DEF UnloadFlush, Active, SwapPc
<1>9. Flushed'
  BY <1>c DEF UnloadFlush, Flushed
<1>10. HandlerNeverLost'
  BY <1>c DEF IInv, UnloadFlush, HandlerNeverLost, Commands, UnloadPc
<1>11. OldStaysPinned'
  BY <1>c DEF IInv, UnloadFlush, OldStaysPinned, Commands, UnloadPc
<1>12. AllOrNothing' /\ NoStaleValidation'
  BY <1>c DEF IInv, UnloadFlush, AllOrNothing, NoStaleValidation, Commands, UnloadPc
<1>. QED
  BY <1>n, <1>1, <1>2, <1>3, <1>4, <1>5, <1>6, <1>7, <1>8, <1>9, <1>10, <1>11, <1>12
  DEF IInv, Places, TypeOK

LEMMA UnpinI == IInv /\ Unpin => IInv'
<1>. SUFFICES ASSUME IInv, Unpin PROVE IInv'
  OBVIOUS
<1>. USE HandlerAssumption DEF pinVars, swapVars, countVars, Works, End
<1>c. /\ TypeOK /\ PinType /\ CommandType /\ CountType
      /\ Commands /\ Failures /\ Untouched /\ Switched /\ Undoing /\ Active /\ Flushed
  BY DEF IInv, Places, TypeOK
<1>n. /\ hit \in Nat /\ hit' \in Nat /\ hit <= hit' /\ hit' <= faults' /\ CountType'
      /\ (Fails(1) => hit' = hit + 1) /\ (Fails(2) => hit' = hit + 2)
  BY <1>c, CallCount DEF Unpin, Failures
<1>1. PinType'
  BY <1>c DEF Unpin, PinType, Pin
<1>2. CommandType'
  BY <1>c DEF Unpin, CommandType
<1>3. Commands'
  BY <1>c DEF Unpin, Commands, SwapPc, UnloadPc
<1>4. Failures'
  BY <1>c, <1>n DEF Unpin, Failures, UndoPc
<1>5. Untouched'
  BY <1>c DEF Unpin, Untouched, SwapPc
<1>6. Switched'
  BY <1>c DEF Unpin, Switched
<1>7. Undoing'
  BY <1>c, <1>n DEF Unpin, Undoing, UndoPc
<1>8. Active'
  BY <1>c DEF Unpin, Active, SwapPc
<1>9. Flushed'
  BY <1>c DEF Unpin, Flushed
<1>10. HandlerNeverLost'
  BY <1>c DEF IInv, Unpin, HandlerNeverLost, Commands, UnloadPc
<1>11. OldStaysPinned'
  BY <1>c DEF IInv, Unpin, OldStaysPinned, Commands, UnloadPc
<1>12. AllOrNothing' /\ NoStaleValidation'
  BY <1>c DEF IInv, Unpin, AllOrNothing, NoStaleValidation, Commands, UnloadPc
<1>. QED
  BY <1>n, <1>1, <1>2, <1>3, <1>4, <1>5, <1>6, <1>7, <1>8, <1>9, <1>10, <1>11, <1>12
  DEF IInv, Places, TypeOK

LEMMA ForgetI == IInv /\ Forget => IInv'
<1>. SUFFICES ASSUME IInv, Forget PROVE IInv'
  OBVIOUS
<1>. USE HandlerAssumption DEF countVars, Works, End
<1>c. /\ TypeOK /\ PinType /\ CommandType /\ CountType
      /\ Commands /\ Failures /\ Untouched /\ Switched /\ Undoing /\ Active /\ Flushed
  BY DEF IInv, Places, TypeOK
<1>n. /\ hit \in Nat /\ hit' \in Nat /\ hit <= hit' /\ hit' <= faults' /\ CountType'
      /\ (Fails(1) => hit' = hit + 1) /\ (Fails(2) => hit' = hit + 2)
  BY <1>c, CallCount DEF Forget, Failures
<1>1. PinType'
  BY <1>c DEF Forget, PinType, Pin, Recorded
<1>2. CommandType'
  BY <1>c DEF Forget, CommandType
<1>3. Commands' /\ Untouched' /\ Switched' /\ Undoing' /\ Active' /\ Flushed' /\ HandlerNeverLost'
  BY IdleI DEF Forget
<1>4. Failures'
  BY <1>n DEF Forget, Failures, UndoPc
<1>5. OldStaysPinned'
  BY <1>c DEF IInv, Forget, OldStaysPinned, Prog, Commands, UnloadPc
<1>6. AllOrNothing'
  BY <1>c, <1>n DEF Forget, AllOrNothing, Commands, UnloadPc
<1>7. NoStaleValidation'
  BY <1>c DEF Forget, NoStaleValidation, Flushed
<1>. QED
  BY <1>n, <1>1, <1>2, <1>3, <1>4, <1>5, <1>6, <1>7 DEF IInv, Places, TypeOK

\* A kill leaves the pins under some name.
LEMMA DieI == IInv /\ Die => IInv'
<1>. SUFFICES ASSUME IInv, Die PROVE IInv'
  OBVIOUS
<1>. USE HandlerAssumption DEF countVars, Works, End
<1>c. /\ TypeOK /\ PinType /\ CommandType /\ CountType
      /\ Commands /\ Failures /\ Untouched /\ Switched /\ Undoing /\ Active /\ Flushed
  BY DEF IInv, Places, TypeOK
<1>n. /\ hit \in Nat /\ hit' = hit /\ hit' <= faults' /\ CountType'
  BY <1>c DEF Die, Failures, CountType
<1>1. PinType'
  BY <1>c DEF Die, PinType, Pin
<1>2. CommandType'
  BY <1>c DEF Die, CommandType
<1>3. Commands' /\ Untouched' /\ Switched' /\ Undoing' /\ Active' /\ Flushed' /\ HandlerNeverLost'
  BY IdleI DEF Die
<1>4. Failures'
  BY <1>n DEF Die, Failures, UndoPc
<1>5. OldStaysPinned'
  BY <1>c DEF IInv, Die, OldStaysPinned, Prog
<1>6. AllOrNothing'
  BY <1>c, <1>n DEF Die, AllOrNothing
<1>7. NoStaleValidation'
  BY <1>c DEF Die, NoStaleValidation
<1>. QED
  BY <1>n, <1>1, <1>2, <1>3, <1>4, <1>5, <1>6, <1>7 DEF IInv, Places, TypeOK

\* A load begins.
LEMMA LoadCandidateI == IInv /\ LoadCandidate => IInv'
<1>. SUFFICES ASSUME IInv, LoadCandidate PROVE IInv'
  OBVIOUS
<1>. USE HandlerAssumption
<1>c. /\ TypeOK /\ PinType /\ CommandType /\ CountType
      /\ Commands /\ Failures /\ Untouched /\ Switched /\ Undoing /\ Active /\ Flushed
  BY DEF IInv, Places, TypeOK
<1>n. /\ CountType' /\ hit' <= faults' /\ loads' \in Prog
      /\ \/ pc' = "preflight" /\ next' = loads' /\ cand' = loads'
         \/ pc' = "failed" /\ hit' >= 1 /\ UNCHANGED <<next, cand>>
  BY <1>c DEF LoadCandidate, CountType, Prog
<1>b. before' = [entry |-> entry, live |-> live, strays |-> strays, conf |-> conf]
  BY DEF LoadCandidate, Begin
<1>1. PinType'
  BY <1>c, <1>n DEF LoadCandidate, PinType, Pin, Prog
<1>2. CommandType'
  <2>1. cand' \in Prog \cup {None} /\ pc' \in {"preflight", "failed"}
    BY <1>c, <1>n DEF CommandType
  <2>2. before' \in [entry : Prog \cup {None}, live : Pin, strays : SUBSET Pin,
                     conf : Prog \cup {None}]
    BY <1>c, <1>b DEF PinType
  <2>. QED
    BY <1>c, <2>1, <2>2 DEF LoadCandidate, Begin, CommandType
<1>3. Commands'
  BY <1>c, <1>n DEF LoadCandidate, Begin, Commands, SwapPc, UnloadPc
<1>4. Failures'
  BY <1>n DEF Failures, UndoPc
<1>5. Untouched'
  BY <1>c, <1>n, <1>b DEF LoadCandidate, Begin, Untouched, Commands, SwapPc
<1>6. Switched' /\ Flushed'
  BY <1>n DEF Switched, Flushed
<1>7. Undoing'
  BY <1>n DEF Undoing, UndoPc
<1>8. Active' /\ HandlerNeverLost'
  BY <1>c, <1>n DEF LoadCandidate, Begin, Active, HandlerNeverLost, Commands, SwapPc
<1>9. OldStaysPinned'
  BY <1>b DEF LoadCandidate, OldStaysPinned
<1>10. AllOrNothing' /\ NoStaleValidation'
  BY <1>n DEF AllOrNothing, NoStaleValidation
<1>. QED
  BY <1>n, <1>1, <1>2, <1>3, <1>4, <1>5, <1>6, <1>7, <1>8, <1>9, <1>10 DEF IInv, Places, TypeOK

\* An unload begins.
LEMMA StartUnloadI == IInv /\ StartUnload => IInv'
<1>. SUFFICES ASSUME IInv, StartUnload PROVE IInv'
  OBVIOUS
<1>. USE HandlerAssumption DEF pinVars, swapVars
<1>c. /\ TypeOK /\ PinType /\ CommandType /\ CountType /\ Commands
  BY DEF IInv, Places, TypeOK
<1>n. pc' = "delete" /\ cmd' = "unload" /\ pc = "idle" /\ outcome' = "none"
  BY DEF StartUnload, Begin
<1>1. PinType'
  BY <1>c DEF StartUnload, PinType
<1>2. CommandType'
  <2>1. before' \in [entry : Prog \cup {None}, live : Pin, strays : SUBSET Pin,
                     conf : Prog \cup {None}]
    BY <1>c DEF StartUnload, Begin, PinType
  <2>. QED
    BY <1>c, <1>n, <2>1 DEF StartUnload, CommandType
<1>3. CountType' /\ Failures'
  BY <1>c, <1>n DEF StartUnload, CountType, Failures, UndoPc
<1>4. Commands'
  BY <1>c, <1>n DEF StartUnload, Commands, SwapPc, UnloadPc
<1>5. Untouched' /\ Switched' /\ Undoing' /\ Active' /\ Flushed'
  BY <1>n DEF Untouched, Switched, Undoing, Active, Flushed, SwapPc, UndoPc
<1>6. HandlerNeverLost' /\ OldStaysPinned' /\ AllOrNothing' /\ NoStaleValidation'
  BY <1>n DEF HandlerNeverLost, OldStaysPinned, AllOrNothing, NoStaleValidation
<1>. QED
  BY <1>1, <1>2, <1>3, <1>4, <1>5, <1>6 DEF IInv, Places, TypeOK

\* A packet only adds a validation entry of the active handler.
LEMMA PacketI == IInv /\ Packet => IInv'
<1>. SUFFICES ASSUME IInv, Packet PROVE IInv'
  OBVIOUS
<1>. USE DEF pinVars, swapVars
<1>c. /\ TypeOK /\ PinType /\ CommandType /\ CountType
      /\ Commands /\ Failures /\ Untouched /\ Switched /\ Undoing /\ Active /\ Flushed
  BY DEF IInv, Places, TypeOK
<1>1. PinType'
  BY <1>c DEF Packet, PinType
<1>2. CommandType'
  BY <1>c DEF Packet, CommandType
<1>6. CountType'
  BY <1>c DEF Packet, CountType
<1>3. Commands' /\ Failures' /\ Untouched' /\ Switched' /\ Undoing' /\ Active'
  BY <1>c DEF Packet, Commands, Failures, Untouched, Switched, Undoing, Active
<1>4. Flushed' /\ NoStaleValidation'
  BY <1>c DEF IInv, Packet, Flushed, NoStaleValidation
<1>5. HandlerNeverLost' /\ OldStaysPinned' /\ AllOrNothing'
  BY DEF IInv, Packet, HandlerNeverLost, OldStaysPinned, AllOrNothing
<1>. QED
  BY <1>1, <1>2, <1>3, <1>4, <1>5, <1>6 DEF IInv, Places, TypeOK

-----------------------------------------------------------------------------
\* Every step keeps the invariant.
LEMMA StepI == IInv /\ [Next]_vars => IInv'
<1>. SUFFICES ASSUME IInv, [Next]_vars PROVE IInv'
  OBVIOUS
<1>1. CASE LoadSlot \/ LoadPort
  BY <1>1, LoadCandidateI DEF LoadSlot, LoadPort
<1>2. CASE LoadFailed
  BY <1>2, LoadFailedI
<1>3. ASSUME Swap PROVE IInv'
  BY <1>3, PreflightI, DiscardI, UpdateArrayI, VerifySwitchI, MoveOldI, MoveNewI, VerifyCommitI,
     UndoI, UndoNewI, UndoOldI, DropI DEF Swap
<1>4. CASE FileSwap \/ DirSwap
  BY <1>3, <1>4, DropOldFileI, DropOldDirI DEF FileSwap, DirSwap
<1>5. CASE Flush \/ Record
  BY <1>5, FlushI, RecordI
<1>6. CASE SlotUnload \/ PortUnload
  BY <1>6, StartUnloadI, DeleteEntryI, UnloadFlushI, UnpinI, ForgetI DEF SlotUnload, PortUnload
<1>7. CASE Die \/ Packet
  BY <1>7, DieI, PacketI
<1>8. CASE UNCHANGED vars
  <2>. USE <1>8 DEF vars, pinVars, swapVars
  <2>1. PinType'
    BY DEF IInv, TypeOK, PinType
  <2>3. CommandType'
    BY DEF IInv, TypeOK, CommandType
  <2>4. CountType'
    BY DEF IInv, TypeOK, CountType
  <2>2. Places'
    BY DEF IInv, Places, Commands, Failures, Untouched, Switched, Undoing, Active, Flushed
  <2>. QED
    BY <2>1, <2>2, <2>3, <2>4 DEF IInv, TypeOK, HandlerNeverLost, OldStaysPinned, AllOrNothing, NoStaleValidation
<1>. QED
  BY <1>1, <1>2, <1>4, <1>5, <1>6, <1>7, <1>8 DEF Next

\* The invariant holds throughout.
LEMMA Invariant == Spec => []IInv
  BY InitI, StepI, PTL DEF Spec

\* The variables keep their types; a slot never has a hollow pin.
THEOREM TypeCorrect == Spec => []TypeOK
<1>1. IInv => TypeOK
  BY DEF IInv
<1>. QED
  BY <1>1, Invariant, PTL

\* "Atomically switch a PROG_ARRAY entry": while a load is under way that found
\* an active handler, packets run through that handler or the new one
\* (_transactional_file_prog_swap, _transactional_dir_prog_swap).
THEOREM AtomicSwitch == Spec => []HandlerNeverLost
<1>1. IInv => HandlerNeverLost
  BY DEF IInv
<1>. QED
  BY <1>1, Invariant, PTL

\* "The old program remains pinned until the kernel lookup confirms the new
\* program ID", whatever fails and wherever the load is killed.
THEOREM OldPinned == Spec => []OldStaysPinned
<1>1. IInv => OldStaysPinned
  BY DEF IInv
<1>. QED
  BY <1>1, Invariant, PTL

\* "Any failure before the final cleanup restores the old entry and pin name":
\* a load that meets a single failure is undone as a whole, one that meets none
\* succeeds.
THEOREM LoadIsTransactional == Spec => []AllOrNothing
<1>1. IInv => AllOrNothing
  BY DEF IInv
<1>. QED
  BY <1>1, Invariant, PTL

\* "Handler-specific validation caches must not survive a successful handler
\* replacement": after a load or unload that succeeds, the validation entries of
\* the port are those of the active handler.
THEOREM CachesAreFresh == Spec => []NoStaleValidation
<1>1. IInv => NoStaleValidation
  BY DEF IInv
<1>. QED
  BY <1>1, Invariant, PTL
=============================================================================
