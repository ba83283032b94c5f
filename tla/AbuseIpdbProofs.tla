--------------------------- MODULE AbuseIpdbProofs ---------------------------
(***************************************************************************)
(* Proofs about AbuseIpdb: for any lists, any capacity of the trie and any *)
(* number of refreshes and failed calls, what the trie holds during a      *)
(* refresh of the block list and its rollback, that a refresh ends with    *)
(* the new list or the old one, and that a reconcile repairs the runtime   *)
(* configuration.                                                          *)
(***************************************************************************)
EXTENDS AbuseIpdb, FiniteSetTheorems, TLAPS

\* The cache knows every entry but those it missed when it was loaded.
Mirror == cache \subseteq kernel /\ kernel \ cache \subseteq missed

\* How far a replacement or its rollback has come.
Progress ==
    /\ (tpc # "wait" /\ ~rb) => ~torn
    /\ tpc \in {"was", "was-read", "add"} => ~rb /\ removed = {}
    /\ tpc \in {"was", "was-read"} => added = {}
    /\ tpc = "del" => ~rb
    /\ tpc \in {"undo-add", "undo-del"} => rb
    /\ tpc # "wait" => added \subseteq target \ previous /\ removed \subseteq previous \ target
    /\ tpc \notin {"wait", "was", "was-read", "add"} /\ ~rb => added = target \ previous
    /\ tpc \notin {"wait", "was", "was-read", "add", "del"} /\ ~rb => removed = previous \ target
    /\ tpc = "undo-del" => added = {}
    /\ tpc \notin {"wait", "undo-add", "undo-del"} /\ rb => added = {} /\ removed = {}

\* The cache as far as that; what is on both lists is never touched, even
\* when a call of the rollback fails.
Contents ==
    /\ tpc # "wait" /\ ~torn => cache = (previous \cup added) \ removed
    /\ tpc # "wait" => previous \cap target \subseteq cache

\* What an undisturbed reconcile has read is still so, and what it has packed
\* is still in the buffer; once it has ended, the record is as wanted.
Settled ==
    /\ calm # "no" => tpc = "wait" /\ (mpc = "update" => val = want)
    /\ calm = "begun" =>
         /\ mpc # "idle" /\ (mpc \in {"timing-read", "flags-read"} => val = rt)
         /\ mpc \in {"flags", "flags-read"} => current = rt.t
    /\ calm = "done" => rt = want

Inv == TypeOK /\ Mirror /\ Progress /\ Contents /\ Settled

-----------------------------------------------------------------------------
(* The operators of the model. *)

\* A finite nonempty set of numbers has a least and a greatest element: a
\* smallest set without them would keep one when an element is taken out.
LEMMA MinMax ==
  ASSUME NEW S \in SUBSET Nat, IsFiniteSet(S), S # {}
  PROVE  (\E x \in S : \A y \in S : x <= y) /\ (\E x \in S : \A y \in S : y <= x)
<1>. DEFINE Has(T) == (\E x \in T : \A y \in T : x <= y) /\ (\E x \in T : \A y \in T : y <= x)
            Bad == {T \in FiniteSubsetsOf(Nat) : T # {} /\ ~Has(T)}
            R == StrictSubsetOrdering(Nat)
<1>1. ASSUME Bad # {} PROVE FALSE
  <2>1. PICK T \in Bad : \A U \in Bad : ~(<<U, T>> \in R)
    <3>1. IsWellFoundedOn(R, FiniteSubsetsOf(Nat))
      BY FS_StrictSubsetOrderingWellFounded
    <3>2. Bad \subseteq FiniteSubsetsOf(Nat)
      OBVIOUS
    <3>. QED
      BY <1>1, <3>1, <3>2, WFMin
  <2>2. T \in SUBSET Nat /\ IsFiniteSet(T) /\ T # {} /\ ~Has(T)
    BY <2>1 DEF FiniteSubsetsOf
  <2>3. PICK x \in T : TRUE
    BY <2>2
  <2>. DEFINE U == T \ {x}
  <2>4. U \in SUBSET Nat /\ IsFiniteSet(U) /\ U \subseteq T /\ U # T
    BY <2>2, <2>3, FS_RemoveElement
  <2>5. U = {} \/ Has(U)
    <3>1. <<U, T>> \in R
      BY <2>2, <2>4 DEF StrictSubsetOrdering
    <3>2. U \notin Bad
      BY <2>1, <3>1
    <3>. QED
      BY <2>4, <3>2 DEF FiniteSubsetsOf
  <2>6. CASE U = {}
    BY <2>2, <2>3, <2>6
  <2>7. CASE Has(U)
    <3>1. PICK lo \in U : \A y \in U : lo <= y
      BY <2>7
    <3>2. PICK hi \in U : \A y \in U : y <= hi
      BY <2>7
    <3>3. \E z \in T : \A y \in T : z <= y
      <4>1. CASE lo <= x
        BY <2>2, <2>3, <2>4, <3>1, <4>1
      <4>2. CASE x <= lo
        BY <2>2, <2>3, <2>4, <3>1, <4>2
      <4>. QED
        BY <2>2, <2>3, <2>4, <4>1, <4>2
    <3>4. \E z \in T : \A y \in T : y <= z
      <4>1. CASE x <= hi
        BY <2>2, <2>3, <2>4, <3>2, <4>1
      <4>2. CASE hi <= x
        BY <2>2, <2>3, <2>4, <3>2, <4>2
      <4>. QED
        BY <2>2, <2>3, <2>4, <4>1, <4>2
    <3>. QED
      BY <2>2, <3>3, <3>4
  <2>. QED
    BY <2>5, <2>6, <2>7
<1>2. S \in FiniteSubsetsOf(Nat)
  BY DEF FiniteSubsetsOf
<1>3. Has(S)
  BY <1>1, <1>2
<1>. QED
  BY <1>3

\* The next address, in either order, is one of those that are left.
LEMMA NextIsLeft ==
  ASSUME NEW S \in SUBSET Ip, S # {}
  PROVE  Lowest(S) \in S /\ Highest(S) \in S
<1>1. IsFiniteSet(S) /\ S \in SUBSET Nat
  BY AbuseAssumption, FS_Subset
<1>. QED
  BY <1>1, MinMax DEF Lowest, Highest

\* A write the trie has room for, and a delete, keep it within its capacity.
LEMMA TrieBound ==
  ASSUME TrieType, NEW x \in Ip
  PROVE  /\ ~Full(x) => Cardinality(kernel \cup {x}) <= Capacity
         /\ Cardinality(kernel \ {x}) <= Capacity
<1>1. IsFiniteSet(kernel)
  BY AbuseAssumption, FS_Subset DEF TrieType
<1>2. Cardinality(kernel) \in Nat
  BY <1>1, FS_CardinalityType
<1>3. Cardinality(kernel) <= Capacity /\ Capacity \in Nat
  BY AbuseAssumption DEF TrieType
<1>4. Cardinality(kernel \cup {x}) = IF x \in kernel THEN Cardinality(kernel) ELSE Cardinality(kernel) + 1
  BY <1>1, FS_AddElement
<1>5. Cardinality(kernel \ {x}) = IF x \in kernel THEN Cardinality(kernel) - 1 ELSE Cardinality(kernel)
  BY <1>1, FS_RemoveElement
<1>. QED
  BY <1>2, <1>3, <1>4, <1>5 DEF Full

\* What is wanted, and what a failed lookup reads as, are configurations.
LEMMA RuntimeValues == Unset \in Runtime /\ Unset.t \in Timing /\ Wants \subseteq Runtime
<1>1. Unset \in Runtime /\ Unset.t \in Timing
  BY DEF Unset, Runtime, Timing
<1>2. ASSUME NEW w \in Wants PROVE w \in Runtime
  BY AbuseAssumption DEF Runtime, Timing
<1>. QED
  BY <1>1, <1>2

LEMMA InitInv == Init => Inv
<1>. SUFFICES ASSUME Init PROVE Inv
  OBVIOUS
<1>. USE AbuseAssumption
<1>1. TrieType
  BY DEF Init, TrieType
<1>2. RuntimeType
  <2>1. InitWant \in Runtime /\ Unset \in Runtime /\ Unset.t \in Timing
    BY RuntimeValues
  <2>. QED
    BY <2>1 DEF Init, RuntimeType
<1>3. ControlType
  BY DEF Init, ControlType
<1>4. CountType
  BY DEF Init, CountType
<1>5. Mirror /\ Progress /\ Contents
  BY DEF Init, Mirror, Progress, Contents
<1>6. Settled
  BY DEF Init, Settled
<1>. QED
  BY <1>1, <1>2, <1>3, <1>4, <1>5, <1>6 DEF Inv, TypeOK
-----------------------------------------------------------------------------
(* Steps of the thread. *)

\* A call that fails is counted.
LEMMA FaultCount ==
  ASSUME CountType, UNCHANGED faults \/ Fault, UNCHANGED reloads
  PROVE  CountType'
  BY AbuseAssumption DEF CountType, Fault

\* A step of the thread inside replace_all disturbs no reconcile that counts.
LEMMA ThreadSettled ==
  ASSUME Settled, tpc # "wait", UNCHANGED calm PROVE Settled'
  BY DEF Settled

\* A refresh begins with the cache as it is.
LEMMA FetchInv == ASSUME Inv, NEW l \in Lists, Fetch(l) PROVE Inv'
<1>. USE AbuseAssumption DEF trieVars, mainVars
<1>c. /\ TrieType /\ RuntimeType /\ ControlType /\ CountType /\ Mirror /\ Progress /\ Contents
      /\ Settled
  BY DEF Inv, TypeOK
<1>1. TrieType'
  BY <1>c DEF Fetch, TrieType
<1>2. RuntimeType'
  BY <1>c DEF Fetch, RuntimeType
<1>3. ControlType'
  BY <1>c DEF Fetch, ControlType
<1>4. CountType'
  BY <1>c DEF Fetch, CountType
<1>5. Mirror'
  BY <1>c DEF Fetch, Mirror
<1>6. Progress'
  BY <1>c DEF Fetch, Progress
<1>7. Contents'
  BY <1>c DEF Fetch, Contents
<1>8. Settled'
  BY DEF Fetch, Settled
<1>. QED
  BY <1>1, <1>2, <1>3, <1>4, <1>5, <1>6, <1>7, <1>8 DEF Inv, TypeOK

\* A lookup fills the shared buffer.
LEMMA LookupInv == ASSUME Inv, NEW pc, NEW next,
             <<pc, next>> \in {<<"was", "was-read">>, <<"flags", "flags-read">>, <<"timing", "timing-read">>},
             Lookup(pc, next) PROVE Inv'
<1>. USE DEF trieVars, localVars, mainVars
<1>c. /\ TrieType /\ RuntimeType /\ ControlType /\ CountType /\ Mirror /\ Progress /\ Contents
      /\ Settled
  BY DEF Inv, TypeOK
<1>p. /\ pc \in {"was", "flags", "timing"} /\ next \in {"was-read", "flags-read", "timing-read"}
      /\ (pc = "was" <=> next = "was-read")
  OBVIOUS
<1>1. TrieType'
  BY <1>c DEF Lookup, TrieType
<1>2. RuntimeType'
  BY <1>c DEF Lookup, RuntimeType
<1>3. ControlType'
  BY <1>c, <1>p DEF Lookup, ControlType
<1>4. CountType'
  BY <1>c, FaultCount DEF Lookup
<1>5. Mirror'
  BY <1>c DEF Lookup, Mirror
<1>6. Progress'
  BY <1>c, <1>p DEF Lookup, Progress, ControlType
<1>7. Contents'
  BY <1>c, <1>p DEF Lookup, Contents, Progress, ControlType
<1>8. Settled'
  BY <1>c, ThreadSettled DEF Lookup
<1>. QED
  BY <1>1, <1>2, <1>3, <1>4, <1>5, <1>6, <1>7, <1>8 DEF Inv, TypeOK

\* The flag that a rollback will restore.
LEMMA ReadWasActiveInv == ASSUME Inv, NEW result \in {val, Unset}, ReadWasActive(result) PROVE Inv'
<1>. USE DEF trieVars, localVars, mainVars
<1>c. /\ TrieType /\ RuntimeType /\ ControlType /\ CountType /\ Mirror /\ Progress /\ Contents
      /\ Settled
  BY DEF Inv, TypeOK
<1>r. result \in Runtime
  BY <1>c, RuntimeValues DEF RuntimeType
<1>a. previousActive' \in BOOLEAN
  BY <1>r DEF ReadWasActive, Runtime
<1>1. TrieType'
  BY <1>c DEF ReadWasActive, Looked, TrieType
<1>2. RuntimeType'
  BY <1>c DEF ReadWasActive, Looked, RuntimeType
<1>3. ControlType'
  BY <1>c, <1>a DEF ReadWasActive, Looked, ControlType
<1>4. CountType'
  BY <1>c, FaultCount DEF ReadWasActive, Looked
<1>5. Mirror'
  BY <1>c DEF ReadWasActive, Looked, Mirror
<1>6. Progress'
  BY <1>c DEF ReadWasActive, Looked, Progress, ControlType
<1>7. Contents'
  BY <1>c DEF ReadWasActive, Looked, Contents, Progress, ControlType
<1>8. Settled'
  BY <1>c, ThreadSettled DEF ReadWasActive, Looked
<1>. QED
  BY <1>1, <1>2, <1>3, <1>4, <1>5, <1>6, <1>7, <1>8 DEF Inv, TypeOK

\* A new entry is written, or the rollback begins.
LEMMA AddNewInv == ASSUME Inv, AddNew PROVE Inv'
<1>. USE DEF trieVars, localVars, mainVars
<1>c. /\ TrieType /\ RuntimeType /\ ControlType /\ CountType /\ Mirror /\ Progress /\ Contents
      /\ Settled
  BY DEF Inv, TypeOK
<1>x. target \ (previous \cup added) # {} =>
        Lowest(target \ (previous \cup added)) \in target \ (previous \cup added)
  BY <1>c, NextIsLeft DEF TrieType
<1>1. TrieType'
  BY <1>c, <1>x, TrieBound DEF AddNew, StartRollback, Put, TrieType
<1>2. RuntimeType'
  BY <1>c DEF AddNew, StartRollback, Put, RuntimeType
<1>3. ControlType'
  BY <1>c DEF AddNew, StartRollback, Put, ControlType
<1>4. CountType'
  BY <1>c, FaultCount DEF AddNew, StartRollback, Put
<1>5. Mirror'
  BY <1>c, <1>x DEF AddNew, StartRollback, Put, Mirror
<1>6. Progress'
  BY <1>c, <1>x DEF AddNew, StartRollback, Put, Progress, ControlType
<1>7. Contents'
  BY <1>c, <1>x DEF AddNew, StartRollback, Put, Contents, Progress, ControlType
<1>8. Settled'
  BY <1>c, ThreadSettled DEF AddNew
<1>. QED
  BY <1>1, <1>2, <1>3, <1>4, <1>5, <1>6, <1>7, <1>8 DEF Inv, TypeOK

\* An entry that is no longer listed is removed, or the rollback begins.
LEMMA RemoveStaleInv == ASSUME Inv, RemoveStale PROVE Inv'
<1>. USE DEF trieVars, localVars, mainVars
<1>c. /\ TrieType /\ RuntimeType /\ ControlType /\ CountType /\ Mirror /\ Progress /\ Contents
      /\ Settled
  BY DEF Inv, TypeOK
<1>x. Stale \ removed # {} => Lowest(Stale \ removed) \in Stale \ removed
  BY <1>c, NextIsLeft DEF TrieType, Stale
<1>1. TrieType'
  BY <1>c, <1>x, TrieBound DEF RemoveStale, StartRollback, Take, Stale, TrieType
<1>2. RuntimeType'
  BY <1>c DEF RemoveStale, StartRollback, Take, Stale, RuntimeType
<1>3. ControlType'
  BY <1>c DEF RemoveStale, StartRollback, Take, Stale, ControlType
<1>4. CountType'
  BY <1>c, FaultCount DEF RemoveStale, StartRollback, Take, Stale
<1>5. Mirror'
  BY <1>c, <1>x DEF RemoveStale, StartRollback, Take, Stale, Mirror
<1>6. Progress'
  BY <1>c, <1>x DEF RemoveStale, StartRollback, Take, Stale, Progress, ControlType
<1>7. Contents'
  BY <1>c, <1>x DEF RemoveStale, StartRollback, Take, Stale, Contents, Progress, ControlType
<1>8. Settled'
  BY <1>c, ThreadSettled DEF RemoveStale
<1>. QED
  BY <1>1, <1>2, <1>3, <1>4, <1>5, <1>6, <1>7, <1>8 DEF Inv, TypeOK

\* The rollback removes an entry that was added.
LEMMA UndoAddInv == ASSUME Inv, UndoAdd PROVE Inv'
<1>. USE DEF trieVars, localVars, mainVars
<1>c. /\ TrieType /\ RuntimeType /\ ControlType /\ CountType /\ Mirror /\ Progress /\ Contents
      /\ Settled
  BY DEF Inv, TypeOK
<1>x. added # {} => Highest(added) \in added
  BY <1>c, NextIsLeft DEF TrieType
<1>1. TrieType'
  BY <1>c, <1>x, TrieBound DEF UndoAdd, Take, TrieType
<1>2. RuntimeType'
  BY <1>c DEF UndoAdd, Take, RuntimeType
<1>3. ControlType'
  BY <1>c DEF UndoAdd, Take, ControlType
<1>4. CountType'
  BY <1>c, FaultCount DEF UndoAdd, Take
<1>5. Mirror'
  BY <1>c, <1>x DEF UndoAdd, Take, Mirror
<1>6. Progress'
  BY <1>c, <1>x DEF UndoAdd, Take, Progress, ControlType
<1>7. Contents'
  BY <1>c, <1>x DEF UndoAdd, Take, Contents, Progress, ControlType
<1>8. Settled'
  BY <1>c, ThreadSettled DEF UndoAdd
<1>. QED
  BY <1>1, <1>2, <1>3, <1>4, <1>5, <1>6, <1>7, <1>8 DEF Inv, TypeOK

\* The rollback puts an entry back, if there is room for it.
LEMMA UndoDelInv == ASSUME Inv, UndoDel PROVE Inv'
<1>. USE DEF trieVars, localVars, mainVars
<1>c. /\ TrieType /\ RuntimeType /\ ControlType /\ CountType /\ Mirror /\ Progress /\ Contents
      /\ Settled
  BY DEF Inv, TypeOK
<1>x. removed # {} => Lowest(removed) \in removed
  BY <1>c, NextIsLeft DEF TrieType
<1>1. TrieType'
  BY <1>c, <1>x, TrieBound DEF UndoDel, Put, ToRestore, TrieType
<1>2. RuntimeType'
  BY <1>c DEF UndoDel, Put, ToRestore, RuntimeType
<1>3. ControlType'
  BY <1>c DEF UndoDel, Put, ToRestore, ControlType
<1>4. CountType'
  BY <1>c, FaultCount DEF UndoDel, Put, ToRestore
<1>5. Mirror'
  BY <1>c, <1>x DEF UndoDel, Put, ToRestore, Mirror
<1>6. Progress'
  BY <1>c, <1>x DEF UndoDel, Put, ToRestore, Progress, ControlType
<1>7. Contents'
  BY <1>c, <1>x DEF UndoDel, Put, ToRestore, Contents, Progress, ControlType
<1>8. Settled'
  BY <1>c, ThreadSettled DEF UndoDel
<1>. QED
  BY <1>1, <1>2, <1>3, <1>4, <1>5, <1>6, <1>7, <1>8 DEF Inv, TypeOK

\* The flags are read.
LEMMA ReadFlagsInv == ASSUME Inv, NEW result \in {val, Unset}, ReadFlags(result) PROVE Inv'
<1>. USE DEF trieVars, localVars, mainVars
<1>c. /\ TrieType /\ RuntimeType /\ ControlType /\ CountType /\ Mirror /\ Progress /\ Contents
      /\ Settled
  BY DEF Inv, TypeOK
<1>r. result \in Runtime
  BY <1>c, RuntimeValues DEF RuntimeType
<1>1. TrieType'
  BY <1>c DEF ReadFlags, Looked, TrieType
<1>2. RuntimeType'
  BY <1>c, <1>r DEF ReadFlags, Looked, RuntimeType
<1>3. ControlType'
  BY <1>c DEF ReadFlags, Looked, ControlType
<1>4. CountType'
  BY <1>c, FaultCount DEF ReadFlags, Looked
<1>5. Mirror'
  BY <1>c DEF ReadFlags, Looked, Mirror
<1>6. Progress'
  BY <1>c DEF ReadFlags, Looked, Progress, ControlType
<1>7. Contents'
  BY <1>c DEF ReadFlags, Looked, Contents, Progress, ControlType
<1>8. Settled'
  BY <1>c, ThreadSettled DEF ReadFlags, Looked
<1>. QED
  BY <1>1, <1>2, <1>3, <1>4, <1>5, <1>6, <1>7, <1>8 DEF Inv, TypeOK

\* The timing is read.
LEMMA ReadTimingInv == ASSUME Inv, NEW result \in {val, Unset}, ReadTiming(result) PROVE Inv'
<1>. USE DEF trieVars, localVars, mainVars
<1>c. /\ TrieType /\ RuntimeType /\ ControlType /\ CountType /\ Mirror /\ Progress /\ Contents
      /\ Settled
  BY DEF Inv, TypeOK
<1>r. result \in Runtime
  BY <1>c, RuntimeValues DEF RuntimeType
<1>t. result.t \in Timing
  BY <1>r DEF Runtime
<1>1. TrieType'
  BY <1>c DEF ReadTiming, Looked, TrieType
<1>2. RuntimeType'
  BY <1>c, <1>t DEF ReadTiming, Looked, RuntimeType
<1>3. ControlType'
  BY <1>c DEF ReadTiming, Looked, ControlType
<1>4. CountType'
  BY <1>c, FaultCount DEF ReadTiming, Looked
<1>5. Mirror'
  BY <1>c DEF ReadTiming, Looked, Mirror
<1>6. Progress'
  BY <1>c DEF ReadTiming, Looked, Progress, ControlType
<1>7. Contents'
  BY <1>c DEF ReadTiming, Looked, Contents, Progress, ControlType
<1>8. Settled'
  BY <1>c, ThreadSettled DEF ReadTiming, Looked
<1>. QED
  BY <1>1, <1>2, <1>3, <1>4, <1>5, <1>6, <1>7, <1>8 DEF Inv, TypeOK

\* The record is packed into the shared buffer.
LEMMA PackActiveInv == ASSUME Inv, PackActive PROVE Inv'
<1>. USE DEF trieVars, localVars, mainVars
<1>c. /\ TrieType /\ RuntimeType /\ ControlType /\ CountType /\ Mirror /\ Progress /\ Contents
      /\ Settled
  BY DEF Inv, TypeOK
<1>v. Packed \in Runtime
  <2>1. Active \in BOOLEAN
    BY <1>c DEF Active, ControlType
  <2>2. flags.o \in BOOLEAN /\ timing \in Timing
    BY <1>c DEF RuntimeType, Runtime
  <2>. QED
    BY <2>1, <2>2 DEF Packed, Runtime
<1>1. TrieType'
  BY <1>c DEF PackActive, TrieType
<1>2. RuntimeType'
  BY <1>c, <1>v DEF PackActive, RuntimeType
<1>3. ControlType'
  BY <1>c DEF PackActive, ControlType
<1>4. CountType'
  BY <1>c, FaultCount DEF PackActive
<1>5. Mirror'
  BY <1>c DEF PackActive, Mirror
<1>6. Progress'
  BY <1>c DEF PackActive, Progress, ControlType
<1>7. Contents'
  BY <1>c DEF PackActive, Contents, Progress, ControlType
<1>8. Settled'
  BY <1>c, ThreadSettled DEF PackActive
<1>. QED
  BY <1>1, <1>2, <1>3, <1>4, <1>5, <1>6, <1>7, <1>8 DEF Inv, TypeOK

\* The record is written: the refresh ends, or is rolled back.
LEMMA UpdateActiveInv == ASSUME Inv, UpdateActive PROVE Inv'
<1>. USE DEF trieVars, localVars, mainVars
<1>c. /\ TrieType /\ RuntimeType /\ ControlType /\ CountType /\ Mirror /\ Progress /\ Contents
      /\ Settled
  BY DEF Inv, TypeOK
<1>1. TrieType'
  BY <1>c DEF UpdateActive, Return, StartRollback, TrieType
<1>2. RuntimeType'
  BY <1>c, RuntimeValues DEF UpdateActive, Return, StartRollback, RuntimeType
<1>3. ControlType'
  BY <1>c DEF UpdateActive, Return, StartRollback, ControlType
<1>4. CountType'
  BY <1>c, FaultCount DEF UpdateActive, Return, StartRollback
<1>5. Mirror'
  BY <1>c DEF UpdateActive, Return, StartRollback, Mirror
<1>6. Progress'
  BY <1>c DEF UpdateActive, Return, StartRollback, Progress, ControlType
<1>7. Contents'
  BY <1>c DEF UpdateActive, Return, StartRollback, Contents, Progress, ControlType
<1>8. Settled'
  BY <1>c, ThreadSettled DEF UpdateActive
<1>. QED
  BY <1>1, <1>2, <1>3, <1>4, <1>5, <1>6, <1>7, <1>8 DEF Inv, TypeOK

-----------------------------------------------------------------------------
(* Steps of the main thread: they only change the record, its buffer and the  *)
(* main thread's own variables.                                               *)

\* What the main thread leaves alone.
LEMMA MainKeeps ==
  ASSUME Inv, UNCHANGED threadVars, RuntimeType', CountType', Settled',
         mpc' \in {"idle", "timing-read", "flags", "flags-read", "pack", "update"},
         calm' \in {"no", "begun", "done"}
  PROVE  Inv'
<1>. USE DEF threadVars, trieVars, localVars
<1>c. TrieType /\ ControlType /\ Mirror /\ Progress /\ Contents
  BY DEF Inv, TypeOK
<1>1. TrieType'
  BY <1>c DEF TrieType
<1>2. ControlType'
  BY <1>c DEF ControlType
<1>3. Mirror' /\ Progress' /\ Contents'
  BY <1>c DEF Mirror, Progress, Contents
<1>. QED
  BY <1>1, <1>2, <1>3 DEF Inv, TypeOK

LEMMA ReloadRuntimeInv == ASSUME Inv, NEW w \in Wants, ReloadRuntime(w) PROVE Inv'
<1>c. RuntimeType /\ ControlType /\ CountType
  BY DEF Inv, TypeOK
<1>1. RuntimeType'
  BY <1>c DEF ReloadRuntime, RuntimeType, threadVars
<1>2. CountType'
  BY <1>c, AbuseAssumption DEF ReloadRuntime, CountType, threadVars
<1>3. mpc' = "idle" /\ calm' = "no"
  BY DEF ReloadRuntime
<1>4. Settled'
  BY <1>3 DEF Settled
<1>. QED
  BY <1>1, <1>2, <1>3, <1>4, MainKeeps DEF ReloadRuntime

LEMMA MainInv == ASSUME Inv, Main PROVE Inv'
<1>c. RuntimeType /\ ControlType /\ CountType /\ Settled
  BY DEF Inv, TypeOK
<1>n. calm \in {"no", "begun", "done"}
  BY <1>c DEF ControlType
<1>1. ASSUME NEW pc, NEW next,
             <<pc, next>> \in {<<"idle", "timing-read">>, <<"flags", "flags-read">>},
             MainLookup(pc, next)
      PROVE  Inv'
  <2>p. /\ pc \in {"idle", "flags"} /\ next \in {"timing-read", "flags-read"}
        /\ (pc = "idle" <=> next = "timing-read")
    BY <1>1
  <2>1. RuntimeType'
    BY <1>c, <1>1 DEF MainLookup, RuntimeType, threadVars
  <2>2. CountType'
    BY <1>c, <1>1 DEF MainLookup, CountType, threadVars
  <2>3. calm' \in {"no", "begun", "done"}
    BY <1>1, <1>n DEF MainLookup, Starts
  <2>4. Settled'
    BY <1>c, <1>1, <1>n, <2>p DEF MainLookup, Starts, Settled, threadVars
  <2>. QED
    BY <1>1, <2>p, <2>1, <2>2, <2>3, <2>4, MainKeeps DEF MainLookup
<1>2. CASE MainReadTiming
  <2>1. current' \in Timing
    BY <1>c, <1>2, RuntimeValues DEF MainReadTiming, RuntimeType, Runtime
  <2>2. RuntimeType'
    BY <1>c, <1>2, <2>1 DEF MainReadTiming, RuntimeType, threadVars
  <2>3. CountType'
    BY <1>c, <1>2, FaultCount DEF MainReadTiming, threadVars
  <2>4. Settled'
    BY <1>c, <1>2 DEF MainReadTiming, Settled, threadVars
  <2>. QED
    BY <1>2, <1>n, <2>2, <2>3, <2>4, MainKeeps DEF MainReadTiming
<1>3. ASSUME NEW read, MainReadFlags(read) PROVE Inv'
  <2>1. RuntimeType'
    BY <1>c, <1>3, RuntimeValues DEF MainReadFlags, RuntimeType, threadVars
  <2>2. CountType'
    BY <1>c, <1>3, FaultCount DEF MainReadFlags, threadVars
  <2>3. calm' \in {"no", "begun", "done"}
    BY <1>3, <1>n DEF MainReadFlags, Fails, Ends
  <2>4. ASSUME calm = "begun", mpc = "flags-read", ~Differs(read) PROVE rt = want
    <3>1. read = rt /\ current = rt.t /\ rt \in Runtime
      BY <1>c, <1>3, <2>4 DEF MainReadFlags, Settled, RuntimeType
    <3>2. [rt EXCEPT !.t = rt.t] = rt
      BY <3>1 DEF Runtime
    <3>. QED
      BY <2>4, <3>1, <3>2 DEF Differs
  <2>5. Settled'
    <3>1. mpc' \in {"pack", "idle"} /\ (mpc' = "pack" <=> Differs(read))
      BY <1>3 DEF MainReadFlags
    <3>2. UNCHANGED <<tpc, rt, want>>
      BY <1>3 DEF MainReadFlags, threadVars
    <3>3. CASE mpc = "flags"
      BY <1>c, <1>3, <1>n, <3>1, <3>2, <3>3 DEF MainReadFlags, Settled, Fails
    <3>4. CASE mpc = "flags-read"
      BY <1>c, <1>3, <1>n, <2>4, <3>1, <3>2, <3>4 DEF MainReadFlags, Settled, Ends
    <3>. QED
      BY <1>3, <3>3, <3>4 DEF MainReadFlags
  <2>. QED
    BY <1>3, <2>1, <2>2, <2>3, <2>5, MainKeeps DEF MainReadFlags
<1>4. CASE MainPack
  <2>1. RuntimeType'
    BY <1>c, <1>4, RuntimeValues DEF MainPack, RuntimeType, threadVars
  <2>2. CountType'
    BY <1>c, <1>4 DEF MainPack, CountType, threadVars
  <2>3. Settled'
    BY <1>c, <1>4 DEF MainPack, Settled, threadVars
  <2>. QED
    BY <1>4, <1>n, <2>1, <2>2, <2>3, MainKeeps DEF MainPack
<1>5. CASE MainUpdate
  <2>1. RuntimeType'
    BY <1>c, <1>5 DEF MainUpdate, RuntimeType, threadVars
  <2>2. CountType'
    BY <1>c, <1>5, FaultCount DEF MainUpdate, threadVars
  <2>3. calm' \in {"no", "begun", "done"}
    BY <1>5, <1>n DEF MainUpdate, Fails, Ends
  <2>4. Settled'
    BY <1>c, <1>5, <1>n DEF MainUpdate, Fails, Ends, Settled, threadVars
  <2>. QED
    BY <1>5, <2>1, <2>2, <2>3, <2>4, MainKeeps DEF MainUpdate
<1>. QED
  BY <1>1, <1>2, <1>3, <1>4, <1>5 DEF Main

-----------------------------------------------------------------------------
\* Every step keeps the invariant.
LEMMA StepInv == Inv /\ [Next]_vars => Inv'
<1>. SUFFICES ASSUME Inv, [Next]_vars PROVE Inv'
  OBVIOUS
<1>1. CASE Thread
  <2>1. CASE Lookup("was", "was-read") \/ Lookup("flags", "flags-read")
             \/ Lookup("timing", "timing-read")
    BY <2>1, LookupInv
  <2>2. ASSUME NEW result \in {val, Unset},
               ReadWasActive(result) \/ ReadFlags(result) \/ ReadTiming(result)
        PROVE  Inv'
    BY <2>2, ReadWasActiveInv, ReadFlagsInv, ReadTimingInv
  <2>. QED
    BY <1>1, <2>1, <2>2, AddNewInv, RemoveStaleInv, UndoAddInv, UndoDelInv, PackActiveInv,
       UpdateActiveInv DEF Thread
<1>2. CASE Main
  BY <1>2, MainInv
<1>3. ASSUME NEW l \in Lists, Fetch(l) PROVE Inv'
  BY <1>3, FetchInv
<1>4. ASSUME NEW w \in Wants, ReloadRuntime(w) PROVE Inv'
  BY <1>4, ReloadRuntimeInv
<1>5. CASE UNCHANGED vars
  <2>. USE <1>5 DEF vars
  <2>1. UNCHANGED threadVars
    BY DEF threadVars, trieVars, localVars
  <2>2. RuntimeType'
    BY DEF Inv, TypeOK, RuntimeType
  <2>3. CountType'
    BY DEF Inv, TypeOK, CountType
  <2>4. /\ mpc' \in {"idle", "timing-read", "flags", "flags-read", "pack", "update"}
        /\ calm' \in {"no", "begun", "done"}
    BY DEF Inv, TypeOK, ControlType
  <2>5. Settled'
    BY DEF Inv, Settled
  <2>. QED
    BY <2>1, <2>2, <2>3, <2>4, <2>5, MainKeeps
<1>. QED
  BY <1>1, <1>2, <1>3, <1>4, <1>5 DEF Next

LEMMA Invariant == Spec => []Inv
  BY InitInv, StepInv, PTL DEF Spec

\* The variables keep their types: the trie stays within its capacity and the
\* shared buffer only ever holds fields that were asked for, or zeros.
THEOREM TypeCorrect == Spec => []TypeOK
<1>1. Inv => TypeOK
  BY DEF Inv
<1>. QED
  BY <1>1, Invariant, PTL

\* While replace_all goes forward the trie holds all of the old list or all of
\* the new one; while it rolls back, the old list but for the entries that it has
\* removed and not yet restored, so that the docstring's promise of a whole list
\* does not extend to the rollback; and no address that is on both lists is ever
\* let through.
THEOREM NoGap == Spec => []OldOrUnion
<1>1. Inv => OldOrUnion
  BY DEF Inv, TypeOK, ControlType, Mirror, Progress, Contents, OldOrUnion
<1>. QED
  BY <1>1, Invariant, PTL

\* A refresh ends with exactly the new list or, after an error, exactly the old
\* one, as long as no call of the rollback fails too.
THEOREM RefreshIsTransactional == Spec => AllOrNothing
<1>. DEFINE Step == (tpc # "wait" /\ tpc' = "wait" /\ ~torn') =>
                      /\ cache = IF rb THEN previous ELSE target
                      /\ kernel \ cache \subseteq missed /\ cache \subseteq kernel
<1>1. ASSUME Inv, [Next]_vars PROVE [Step]_vars
  <2>. SUFFICES ASSUME tpc # "wait", tpc' = "wait", ~torn'
                PROVE  /\ cache = IF rb THEN previous ELSE target
                       /\ kernel \ cache \subseteq missed /\ cache \subseteq kernel
    OBVIOUS
  <2>1. UpdateActive
    <3>1. ~Main
      BY DEF Main, MainLookup, MainReadTiming, MainReadFlags, MainPack, MainUpdate, threadVars
    <3>2. ~(\E l \in Lists : Fetch(l)) /\ ~(\E w \in Wants : ReloadRuntime(w))
      BY DEF Fetch, ReloadRuntime, threadVars
    <3>. QED
      BY <1>1, <3>1, <3>2 DEF Next, Thread, vars, Lookup, ReadWasActive, AddNew, RemoveStale,
         UndoAdd, UndoDel, ReadFlags, ReadTiming, PackActive, StartRollback
  <2>2. tpc = "update" /\ ~torn
    BY <2>1 DEF UpdateActive, StartRollback
  <2>. QED
    BY <1>1, <2>2 DEF Inv, Mirror, Progress, Contents
<1>. QED
  BY <1>1, Invariant, PTL DEF Spec, AllOrNothing

\* One reconcile between two refreshes, without a call that fails, leaves the
\* runtime configuration as the operator wants it until the next refresh or
\* reload, whatever the two threads had written over each other before.
THEOREM ReconcileRepairs == Spec => []ReconcileRestores
<1>1. Inv => ReconcileRestores
  BY DEF Inv, Settled, ReconcileRestores
<1>. QED
  BY <1>1, Invariant, PTL
=============================================================================
