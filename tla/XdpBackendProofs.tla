-------------------------- MODULE XdpBackendProofs --------------------------
(***************************************************************************)
(* Proofs about XdpBackend: for any ports, policies, maps and desired      *)
(* states, and any number of faults, a port is only opened with its        *)
(* protection in force, a flow only removed as stale when it was missed    *)
(* often enough, and a clean reconcile leaves the kernel as desired.       *)
(***************************************************************************)
EXTENDS XdpBackend, TLAPS

\* What the items of a stage are.
Scope(i) ==
    CASE i \in {CloseTcp, CloseUdp, Sctp, Open}     -> Port
      [] i \in {PurgeTcp, PurgeUdp, Seed, Unseed}   -> Flow
      [] i \in View                                 -> ViewPorts(i)
      [] i = Outer                                  -> Slot
      [] i = Prefixes                               -> PolPort
      [] i \in {Trust, AclStage, RtStage, RlStage, SitStage} -> Aux
      [] OTHER                                      -> {}

\* The items left are those of the stage; ensure_prefixes only touches cached
\* entries; only an open backend is in the middle of a reconcile.
TodoOK ==
    /\ todo \subseteq Scope(pc)
    /\ pc = Prefixes => \A p \in todo : cPol[p] # None
    /\ pc # Idle => up

TInv == TypeOK /\ TodoOK

-----------------------------------------------------------------------------
\* The kind of items of every stage.
LEMMA ScopeValues ==
  /\ \A i \in {CloseTcp, CloseUdp, Sctp, Open} : Scope(i) = Port
  /\ \A i \in {PurgeTcp, PurgeUdp, Seed, Unseed} : Scope(i) = Flow
  /\ \A i \in View : Scope(i) = ViewPorts(i)
  /\ Scope(Outer) = Slot /\ Scope(Prefixes) = PolPort /\ Scope(Idle) = {}
  /\ \A i \in {Trust, AclStage, RtStage, RlStage, SitStage} : Scope(i) = Aux
  BY DEF Scope, Idle, CloseTcp, PurgeTcp, Seed, Unseed, CloseUdp, PurgeUdp, Sctp, Trust, View,
         Outer, Prefixes, AclStage, RtStage, RlStage, SitStage, Open

\* What a desired state consists of.
LEMMA DesiredType ==
  ASSUME NEW d \in DesiredStates
  PROVE  /\ d.wl \subseteq Port /\ d.pfx \in Prefix /\ d.ct \subseteq TcpFlow
         /\ d.lim \in [PolPort -> [Field -> Limit]]
         /\ d.cap \in [Slot -> Cap]
         /\ d.aux \in [Aux -> AuxVal \cup {None}]
  BY DesiredAssumption DEF DesiredState

\* A view write yields an entry or none (BpfPortPolicyViewMap).
LEMMA ViewWriteType ==
  ASSUME NEW pol \in Policy \cup {None}, NEW f \in Field, NEW v \in Limit, NEW x \in Prefix
  PROVE  ViewWrite(pol, f, v, x) \in Policy \cup {None}
<1>. DEFINE current == IF pol = None THEN [lim |-> [g \in Field |-> 0], pfx |-> x] ELSE pol
<1>1. current.lim \in [Field -> Limit] /\ current.pfx \in Prefix
  BY ValueAssumption DEF Policy
<1>. HIDE DEF current
<1>2. [lim |-> [current.lim EXCEPT ![f] = v], pfx |-> current.pfx] \in Policy
  BY <1>1 DEF Policy
<1>. QED
  BY <1>2 DEF ViewWrite, current

\* The inner map a port should have has a capacity, or there is none.
LEMMA WantedSlotType ==
  ASSUME NEW d \in DesiredStates, NEW s \in Slot
  PROVE  WantedSlot(d, s) \in Cap \cup {None}
  BY DesiredType DEF WantedSlot

\* Every field of a view is a field of the entry.
LEMMA ViewFieldType == \A i \in View : ViewField(i) \in Field
  BY DEF View, ViewField, Field

\* What a load leaves in the caches: entries of the kernel, or none.
LEMMA LoadType ==
  ASSUME KernelType, NEW missed \in SUBSET Missable, NEW read, Load(missed, read)
  PROVE  /\ cWl' \in SUBSET Port /\ cPol' \in [PolPort -> Policy \cup {None}]
         /\ cSlot' \in [Slot -> Cap \cup {None}] /\ cAux' \in [Aux -> AuxVal \cup {None}]
         /\ unread' \subseteq Port \cup Slot \cup Aux
<1>1. cWl' \in SUBSET Port
  BY DEF Load, KernelType
<1>2. cPol' \in [PolPort -> Policy \cup {None}]
  BY DEF Load, KernelType
<1>3. cSlot' \in [Slot -> Cap \cup {None}]
  BY DEF Load, KernelType
<1>4. cAux' \in [Aux -> AuxVal \cup {None}]
  BY DEF Load, KernelType
<1>5. unread' \subseteq Port \cup Slot \cup Aux
  BY DEF Load, KernelType, Missable, Aux
<1>. QED
  BY <1>1, <1>2, <1>3, <1>4, <1>5

-----------------------------------------------------------------------------
LEMMA InitTInv == Init => TInv
<1>. SUFFICES ASSUME Init PROVE TInv
  OBVIOUS
<1>1. NoPlan \in PlanType
  BY DEF NoPlan, PlanType
<1>2. KernelType
  BY DEF Init, KernelType
<1>3. CacheType
  BY DEF Init, CacheType
<1>b. up \in BOOLEAN /\ sitOpen \in BOOLEAN /\ drifted \in BOOLEAN
  BY DEF Init
<1>4. CallType
  BY <1>1, <1>b DEF Init, CallType, Idle, Open
<1>5. HistoryType
  BY <1>b, ValueAssumption DEF Init, HistoryType
<1>6. TodoOK
  BY DEF Init, TodoOK, Idle, Prefixes
<1>. QED
  BY <1>2, <1>3, <1>4, <1>5, <1>6 DEF TInv, TypeOK

-----------------------------------------------------------------------------
(* Steps of the life cycle keep the types. *)

LEMMA BackendInitT == TInv /\ BackendInit => TInv'
<1>. SUFFICES ASSUME TInv, BackendInit PROVE TInv'
  OBVIOUS
<1>. USE ValueAssumption
<1>t. KernelType /\ CacheType /\ CallType /\ HistoryType /\ TodoOK
  BY DEF TInv, TypeOK
<1>b. up' \in BOOLEAN /\ sitOpen' \in BOOLEAN /\ drifted' \in BOOLEAN
  BY DEF BackendInit
<1>1. KernelType'
  BY <1>t DEF BackendInit, kernelVars, KernelType
<1>2. CacheType' /\ unread' \subseteq Port \cup Slot \cup Aux
  <2>. PICK missed \in SUBSET Missable, read \in PolicyReads, lost \in SUBSET kCt, sit \in BOOLEAN :
         Load(missed, read) /\ cCt' = kCt \ lost
    BY DEF BackendInit
  <2>1. cCt' \in SUBSET Flow
    BY <1>t DEF KernelType
  <2>. QED
    BY <2>1, <1>t, LoadType DEF CacheType
<1>3. CallType'
  BY <1>t, <1>b DEF BackendInit, CallType
<1>4. HistoryType'
  <2>1. faults' \in 0..MaxFaults
    BY <1>t DEF BackendInit, Fault, HistoryType
  <2>2. /\ stale' \in [Flow -> 0..StaleReconciles] /\ misses' \in [Flow -> 0..StaleReconciles]
        /\ target' = target /\ changes' = changes
    BY DEF BackendInit
  <2>. QED
    BY <1>t, <1>b, <1>2, <2>1, <2>2 DEF HistoryType
<1>5. TodoOK'
  <2>1. pc = Idle
    BY <1>t DEF BackendInit, TodoOK
  <2>. QED
    BY <2>1, <1>t DEF BackendInit, TodoOK, Idle, Prefixes
<1>. QED
  BY <1>1, <1>2, <1>3, <1>4, <1>5 DEF TInv, TypeOK

LEMMA BackendGoneT == TInv /\ BackendGone => TInv'
<1>. SUFFICES ASSUME TInv, BackendGone PROVE TInv'
  OBVIOUS
<1>. USE ValueAssumption
<1>t. KernelType /\ CacheType /\ CallType /\ HistoryType /\ TodoOK
  BY DEF TInv, TypeOK
<1>b. up' \in BOOLEAN /\ sitOpen' \in BOOLEAN /\ drifted' \in BOOLEAN
  BY <1>t DEF BackendGone, CallType, HistoryType
<1>1. KernelType' /\ CacheType'
  BY <1>t DEF BackendGone, kernelVars, KernelType, CacheType
<1>2. NoPlan \in PlanType
  BY DEF NoPlan, PlanType
<1>3. CallType'
  BY <1>t, <1>b, <1>2 DEF BackendGone, CallType, Idle, Open
<1>4. HistoryType'
  BY <1>t, <1>b DEF BackendGone, HistoryType
<1>5. TodoOK'
  BY DEF BackendGone, TodoOK, Idle, Prefixes
<1>. QED
  BY <1>1, <1>3, <1>4, <1>5 DEF TInv, TypeOK

LEMMA VerifyT == TInv /\ VerifyKernelState => TInv'
<1>. SUFFICES ASSUME TInv, VerifyKernelState PROVE TInv'
  OBVIOUS
<1>. USE ValueAssumption
<1>t. KernelType /\ CacheType /\ CallType /\ HistoryType /\ TodoOK
  BY DEF TInv, TypeOK
<1>b. up' \in BOOLEAN /\ sitOpen' \in BOOLEAN /\ drifted' \in BOOLEAN
  BY <1>t DEF VerifyKernelState, callVars, CallType
<1>1. KernelType'
  BY <1>t DEF VerifyKernelState, kernelVars, KernelType
<1>2. CacheType' /\ unread' \subseteq Port \cup Slot \cup Aux
  <2>. PICK missed \in SUBSET Missable, read \in PolicyReads : Load(missed, read)
    BY DEF VerifyKernelState
  <2>1. cCt' \in SUBSET Flow
    BY <1>t DEF VerifyKernelState, CacheType
  <2>. QED
    BY <2>1, <1>t, LoadType DEF CacheType
<1>3. CallType'
  BY <1>t, <1>b DEF VerifyKernelState, callVars, CallType
<1>4. HistoryType'
  <2>1. faults' \in 0..MaxFaults
    BY <1>t DEF VerifyKernelState, Fault, HistoryType
  <2>2. UNCHANGED <<stale, misses, target, changes>>
    BY DEF VerifyKernelState
  <2>. QED
    BY <1>t, <1>b, <1>2, <2>1, <2>2 DEF HistoryType
<1>5. TodoOK'
  BY <1>t DEF VerifyKernelState, callVars, TodoOK, Idle, Prefixes
<1>. QED
  BY <1>1, <1>2, <1>3, <1>4, <1>5 DEF TInv, TypeOK

LEMMA RunCtGcT == TInv /\ RunCtGc => TInv'
<1>. SUFFICES ASSUME TInv, RunCtGc PROVE TInv'
  OBVIOUS
<1>t. KernelType /\ CacheType /\ CallType /\ HistoryType /\ TodoOK
  BY DEF TInv, TypeOK
<1>1. KernelType' /\ CacheType'
  BY <1>t DEF RunCtGc, KernelType, CacheType
<1>2. UNCHANGED <<callVars, todo, failures, stale, faults, unread, envVars, cPol>>
  BY DEF RunCtGc
<1>3. CallType' /\ HistoryType'
  BY <1>2, <1>t DEF callVars, envVars, CallType, HistoryType
<1>4. TodoOK'
  BY <1>2, <1>t DEF callVars, TodoOK
<1>. QED
  BY <1>1, <1>3, <1>4 DEF TInv, TypeOK

-----------------------------------------------------------------------------
(* Steps of the rest of the world keep the types. *)

LEMMA EnvironmentT == TInv /\ (ChangeTarget \/ PacketPath \/ Drift) => TInv'
<1>. SUFFICES ASSUME TInv, ChangeTarget \/ PacketPath \/ Drift PROVE TInv'
  OBVIOUS
<1>. USE ValueAssumption
<1>t. KernelType /\ CacheType /\ CallType /\ HistoryType /\ TodoOK
  BY DEF TInv, TypeOK
<1>1. UNCHANGED daemonVars
  BY DEF ChangeTarget, PacketPath, Drift
<1>b. up' \in BOOLEAN /\ sitOpen' \in BOOLEAN /\ drifted' \in BOOLEAN
  BY <1>1, <1>t DEF daemonVars, ChangeTarget, PacketPath, Drift, CallType, HistoryType
<1>2. CacheType' /\ CallType'
  BY <1>1, <1>b, <1>t DEF daemonVars, cacheVars, CacheType, CallType
<1>3. TodoOK'
  BY <1>1, <1>t DEF daemonVars, cacheVars, TodoOK
<1>4. KernelType'
  <2>1. CASE ChangeTarget
    BY <2>1, <1>t DEF ChangeTarget, kernelVars, KernelType
  <2>2. CASE PacketPath
    BY <2>2, <1>t DEF PacketPath, KernelType
  <2>3. CASE Drift
    BY <2>3, <1>t DEF Drift, KernelType
  <2>. QED
    BY <2>1, <2>2, <2>3
<1>5. stale' = stale /\ misses' = misses /\ unread' = unread
  BY <1>1 DEF daemonVars
<1>6. HistoryType'
  <2>1. CASE ChangeTarget
    BY <2>1, <1>b, <1>5, <1>t DEF ChangeTarget, HistoryType
  <2>2. CASE PacketPath
    BY <2>2, <1>b, <1>5, <1>t DEF PacketPath, HistoryType
  <2>3. CASE Drift
    BY <2>3, <1>b, <1>5, <1>t DEF Drift, HistoryType
  <2>. QED
    BY <2>1, <2>2, <2>3
<1>. QED
  BY <1>2, <1>3, <1>4, <1>6 DEF TInv, TypeOK

-----------------------------------------------------------------------------
(* Steps of a reconcile keep the types. *)

LEMMA ReconcileT == TInv /\ Reconcile => TInv'
<1>. SUFFICES ASSUME TInv, Reconcile PROVE TInv'
  OBVIOUS
<1>. USE ValueAssumption
<1>t. KernelType /\ CacheType /\ CallType /\ HistoryType /\ TodoOK
  BY DEF TInv, TypeOK
<1>d. target.wl \subseteq Port /\ target.ct \subseteq Flow
  BY <1>t, DesiredType DEF HistoryType, TcpFlow
<1>b. up' \in BOOLEAN /\ sitOpen' \in BOOLEAN /\ drifted' \in BOOLEAN
  BY <1>t DEF Reconcile, CallType, HistoryType
<1>1. KernelType'
  BY <1>t DEF Reconcile, kernelVars, KernelType
<1>2. CacheType'
  <2>1. cCt' \subseteq Flow
    BY <1>t, <1>d DEF Reconcile, CacheType
  <2>. QED
    BY <2>1, <1>t DEF Reconcile, CacheType
<1>3. CallType'
  <2>1. plan' \in PlanType
    <3>1. \A f \in Field : ViewPlan(cPol, target, f) \subseteq PolPort
      BY DEF ViewPlan
    <3>3. PICK failed \in SUBSET target.ct, blind \in SUBSET {k \in GlobalRl : kAux[k] # None} :
            LET present  == {f \in target.ct : IF f \in failed THEN f \in cCt ELSE f \in kCt}
                toRemove == (cCt \cap TcpFlow) \ target.ct
                rounds   == Rounds(toRemove)
            IN  plan' = [close  |-> cWl \ target.wl,
                         seed   |-> target.ct \ present,
                         unseed |-> {f \in toRemove : rounds[f] >= StaleReconciles},
                         view   |-> [f \in Field |-> ViewPlan(cPol, target, f)],
                         rl     |-> {k \in GlobalRl :
                                       (IF k \in blind THEN None ELSE kAux[k]) # target.aux[k]}]
      BY DEF Reconcile
    <3>4. cWl \subseteq Port /\ cCt \subseteq Flow
      BY <1>t DEF CacheType
    <3>. QED
      BY <3>1, <3>3, <3>4, <1>d DEF PlanType
  <2>2. pc' \in Idle..Open /\ todo' \subseteq Port
    BY <1>t DEF Reconcile, CacheType, Idle, Open, CloseTcp
  <2>. QED
    BY <2>1, <2>2, <1>b, <1>t DEF Reconcile, CallType, HistoryType
<1>4. HistoryType'
  <2>1. stale' \in [Flow -> 0..StaleReconciles]
    <3>1. \A S : \A f \in Flow : Rounds(S)[f] \in Nat
      BY <1>t DEF Rounds, HistoryType
    <3>2. PICK S : stale' = [f \in Flow |-> IF Rounds(S)[f] > StaleReconciles
                                            THEN StaleReconciles ELSE Rounds(S)[f]]
      BY DEF Reconcile
    <3>. QED
      BY <3>1, <3>2
  <2>2. misses' \in [Flow -> 0..StaleReconciles]
    BY <1>t DEF Reconcile, HistoryType
  <2>3. faults' \in 0..MaxFaults
    BY <1>t DEF Reconcile, Fault, HistoryType
  <2>4. target' = target /\ changes' = changes
    BY DEF Reconcile
  <2>5. unread' \subseteq Port \cup Slot \cup Aux
    BY <1>t DEF Reconcile, HistoryType, Aux
  <2>. QED
    BY <2>1, <2>2, <2>3, <2>4, <2>5, <1>b, <1>t DEF HistoryType
<1>5. TodoOK'
  <2>1. pc' = CloseTcp /\ todo' \subseteq Port
    BY <1>t DEF Reconcile, CacheType
  <2>2. up'
    BY DEF Reconcile
  <2>3. Scope(CloseTcp) = Port
    BY ScopeValues DEF CloseTcp
  <2>. QED
    BY <2>1, <2>2, <2>3 DEF TodoOK, CloseTcp, Prefixes
<1>. QED
  BY <1>1, <1>2, <1>3, <1>4, <1>5 DEF TInv, TypeOK

\* The items of a stage are of its kind when it is entered.
LEMMA WorkScope ==
  ASSUME TypeOK, NEW i \in CloseTcp + 1..Open, NEW blind
  PROVE  /\ Work(i, blind) \subseteq Scope(i)
         /\ Scope(i) \subseteq Port \cup Flow \cup Slot \cup Aux
<1>. USE DEF Idle, CloseTcp, PurgeTcp, Seed, Unseed, CloseUdp, PurgeUdp, Sctp, Trust, View, Outer,
             Prefixes, AclStage, RtStage, RlStage, SitStage, Open
<1>t. CacheType /\ CallType
  BY DEF TypeOK
<1>1. /\ cCt \subseteq Flow /\ cWl \subseteq Port /\ desired.wl \subseteq Port
      /\ plan \in PlanType
  BY <1>t, DesiredType DEF CacheType, CallType
<1>2. /\ plan.seed \subseteq Flow /\ plan.unseed \subseteq Flow /\ plan.rl \subseteq GlobalRl
      /\ plan.close \subseteq Port
  BY <1>1 DEF PlanType
<1>3. CASE i \in {PurgeTcp, PurgeUdp, Seed, Unseed}
  BY <1>1, <1>2, <1>3 DEF Work, Scope
<1>4. CASE i \in {CloseUdp, Sctp, Open}
  BY <1>1, <1>2, <1>4 DEF Work, Scope, ToOpen, Port
<1>5. CASE i \in View
  BY <1>5 DEF Work, Scope, ViewPorts, Port
<1>6. CASE i \in {Outer, Prefixes}
  BY <1>6 DEF Work, Scope, PrefixWork, Port, PolPort
<1>7. CASE i \in {Trust, AclStage, RtStage, RlStage, SitStage}
  BY <1>2, <1>7 DEF Work, Scope, AuxKeys, Aux
<1>. QED
  BY <1>3, <1>4, <1>5, <1>6, <1>7

LEMMA AdvanceT == TInv /\ Advance => TInv'
<1>. SUFFICES ASSUME TInv, Advance PROVE TInv'
  OBVIOUS
<1>t. TypeOK /\ KernelType /\ CacheType /\ CallType /\ HistoryType /\ TodoOK
  BY DEF TInv, TypeOK
<1>b. up' \in BOOLEAN /\ sitOpen' \in BOOLEAN /\ drifted' \in BOOLEAN
  BY <1>t DEF Advance, envVars, CallType, HistoryType
<1>1. KernelType' /\ CacheType'
  BY <1>t DEF Advance, kernelVars, cacheVars, KernelType, CacheType
<1>2. HistoryType'
  <2>1. faults' \in 0..MaxFaults
    BY <1>t, ValueAssumption DEF Advance, Fault, HistoryType
  <2>2. unread' \subseteq Port \cup Slot \cup Aux
    BY <1>t DEF Advance, HistoryType, Aux
  <2>3. UNCHANGED <<stale, envVars>>
    BY DEF Advance
  <2>. QED
    BY <1>t, <1>b, <2>1, <2>2, <2>3 DEF envVars, HistoryType
<1>3. CASE pc = Open
  <2>1. pc' = Idle /\ todo' = {}
    BY <1>3 DEF Advance
  <2>2. CallType'
    BY <2>1, <1>t, <1>b DEF Advance, CallType, Idle, Open
  <2>3. TodoOK'
    BY <2>1 DEF TodoOK, Idle, Prefixes
  <2>. QED
    BY <1>1, <1>2, <2>2, <2>3 DEF TInv, TypeOK
<1>4. CASE pc # Open
  <2>1. PICK blind : pc' = pc + 1 /\ todo' = Work(pc + 1, blind) /\ pc + 1 \in CloseTcp + 1..Open
    BY <1>4, <1>t DEF Advance, CallType, Idle, CloseTcp, Open
  <2>2. /\ Work(pc + 1, blind) \subseteq Scope(pc + 1)
        /\ Scope(pc + 1) \subseteq Port \cup Flow \cup Slot \cup Aux
    BY <2>1, <1>t, WorkScope
  <2>3. CallType'
    BY <2>1, <2>2, <1>t, <1>b DEF Advance, CallType, Idle, CloseTcp, Open
  <2>4. TodoOK'
    <3>1. pc' = Prefixes => \A p \in todo' : cPol'[p] # None
      <4>. SUFFICES ASSUME pc + 1 = Prefixes PROVE \A p \in todo' : cPol[p] # None
        BY <2>1 DEF Advance, cacheVars
      <4>1. Work(Prefixes, blind) = PrefixWork(desired)
        BY DEF Work, Prefixes, PurgeTcp, PurgeUdp, Seed, Unseed, CloseUdp, Sctp, View, Outer,
               RlStage, Open
      <4>. QED
        BY <2>1, <4>1 DEF PrefixWork
    <3>2. up'
      BY DEF Advance
    <3>. QED
      BY <2>1, <2>2, <3>1, <3>2 DEF TodoOK
  <2>. QED
    BY <1>1, <1>2, <2>3, <2>4 DEF TInv, TypeOK
<1>. QED
  BY <1>3, <1>4

\* What every update of a map has in common.
LEMMA ItemT ==
  ASSUME TInv, NEW x, todo' = todo \ {x}, UNCHANGED <<callVars, envVars>>,
         NEW ok \in BOOLEAN, Fault(ok), failures' \in {failures, failures + 1},
         stale' \in [Flow -> 0..StaleReconciles],
         KernelType', CacheType', unread' \in {unread, unread \ {x}},
         pc = Prefixes => \A p \in todo \ {x} : cPol'[p] # None
  PROVE  TInv'
<1>t. KernelType /\ CacheType /\ CallType /\ HistoryType /\ TodoOK
  BY DEF TInv, TypeOK
<1>b. up' \in BOOLEAN /\ sitOpen' \in BOOLEAN /\ drifted' \in BOOLEAN
  BY <1>t DEF callVars, envVars, CallType, HistoryType
<1>1. CallType'
  BY <1>t, <1>b DEF callVars, CallType
<1>2. faults' \in 0..MaxFaults
  BY <1>t, ValueAssumption DEF Fault, HistoryType
<1>3. HistoryType'
  BY <1>t, <1>b, <1>2 DEF envVars, HistoryType
<1>4. TodoOK'
  <2>1. todo' \subseteq Scope(pc)
    BY <1>t DEF TodoOK
  <2>2. pc' = pc /\ up' = up
    BY DEF callVars
  <2>. QED
    BY <2>1, <2>2, <1>t DEF TodoOK
<1>. QED
  BY <1>1, <1>3, <1>4 DEF TInv, TypeOK

\* One update of any map keeps the types.
LEMMA ApplyOneT == TInv /\ ApplyOne => TInv'
<1>. SUFFICES ASSUME TInv, up, NEW x \in todo, NEW ok \in BOOLEAN,
                     \/ SetPort(x, ok)   \/ DeleteFlow(x, ok)  \/ SeedFlow(x, ok)
                     \/ WriteView(x, ok) \/ WriteSlot(x, ok)   \/ WritePrefix(x, ok)
                     \/ WriteAux(x, ok)
              PROVE  TInv'
  BY DEF ApplyOne
<1>t. KernelType /\ CacheType /\ CallType /\ HistoryType /\ TodoOK
  BY DEF TInv, TypeOK
<1>d. /\ desired \in DesiredStates /\ desired.wl \subseteq Port /\ desired.pfx \in Prefix
      /\ desired.lim \in [PolPort -> [Field -> Limit]]
      /\ desired.aux \in [Aux -> AuxVal \cup {None}]
  BY <1>t, DesiredType DEF CallType
<1>s. stale \in [Flow -> 0..StaleReconciles] /\ [stale EXCEPT ![x] = 0] \in [Flow -> 0..StaleReconciles]
  <2>1. stale \in [Flow -> 0..StaleReconciles] /\ 0 \in 0..StaleReconciles
    BY <1>t, ValueAssumption DEF HistoryType
  <2>. QED
    BY <2>1
<1>1. CASE SetPort(x, ok)
  <2>1. KernelType' /\ CacheType'
    BY <1>1, <1>t, <1>d DEF SetPort, KernelType, CacheType
  <2>2. pc # Prefixes
    BY <1>1 DEF SetPort, CloseTcp, CloseUdp, Sctp, Open, Prefixes
  <2>. QED
    BY <1>1, <1>s, <2>1, <2>2, ItemT DEF SetPort, Counted, Noted
<1>2. CASE DeleteFlow(x, ok)
  <2>1. KernelType' /\ CacheType'
    BY <1>2, <1>t DEF DeleteFlow, KernelType, CacheType
  <2>2. pc # Prefixes
    BY <1>2 DEF DeleteFlow, PurgeTcp, PurgeUdp, Unseed, Prefixes
  <2>. QED
    BY <1>2, <1>s, <2>1, <2>2, ItemT DEF DeleteFlow, Counted
<1>3. CASE SeedFlow(x, ok)
  <2>0. x \in Flow
    BY <1>3, <1>t, ScopeValues DEF SeedFlow, TodoOK
  <2>1. KernelType' /\ CacheType'
    BY <1>3, <2>0, <1>t DEF SeedFlow, KernelType, CacheType
  <2>2. pc # Prefixes
    BY <1>3 DEF SeedFlow, Seed, Prefixes
  <2>. QED
    BY <1>3, <1>s, <2>1, <2>2, ItemT DEF SeedFlow, Counted
<1>4. CASE WriteView(x, ok)
  <2>. DEFINE v   == IF x \in desired.wl THEN desired.lim[x][ViewField(pc)] ELSE 0
              new == ViewWrite(cPol[x], ViewField(pc), v, desired.pfx)
  <2>0. x \in PolPort
    BY <1>4, <1>t, ScopeValues DEF WriteView, TodoOK, ViewPorts, PolPort
  <2>1. v \in Limit
    BY <1>4, <2>0, <1>d, ViewFieldType, ValueAssumption DEF WriteView
  <2>2. new \in Policy \cup {None}
    <3>. HIDE DEF v
    <3>. QED
      BY <1>4, <2>0, <2>1, <1>d, <1>t, ViewFieldType, ViewWriteType DEF WriteView, CacheType
  <2>3. /\ kPol' = IF ok THEN [kPol EXCEPT ![x] = new] ELSE kPol
        /\ cPol' = IF ok THEN [cPol EXCEPT ![x] = new] ELSE cPol
        /\ UNCHANGED <<kWl, kSlot, kAux, kCt, cWl, cSlot, cAux, cCt, stale, unread, callVars, envVars>>
    BY <1>4 DEF WriteView
  <2>. HIDE DEF new
  <2>4. KernelType' /\ CacheType'
    BY <2>2, <2>3, <1>t DEF KernelType, CacheType
  <2>5. pc # Prefixes
    BY <1>4 DEF WriteView, View, Prefixes
  <2>. QED
    BY <1>4, <1>s, <2>3, <2>4, <2>5, ItemT DEF WriteView, Counted
<1>5. CASE WriteSlot(x, ok)
  <2>0. WantedSlot(desired, x) \in Cap \cup {None}
    BY <1>5, <1>t, <1>d, ScopeValues, WantedSlotType DEF WriteSlot, TodoOK
  <2>1. KernelType' /\ CacheType'
    BY <1>5, <2>0, <1>t DEF WriteSlot, KernelType, CacheType
  <2>2. pc # Prefixes
    BY <1>5 DEF WriteSlot, Outer, Prefixes
  <2>. QED
    BY <1>5, <1>s, <2>1, <2>2, ItemT DEF WriteSlot, Counted, Noted
<1>6. CASE WritePrefix(x, ok)
  <2>. DEFINE new == [lim |-> cPol[x].lim, pfx |-> desired.pfx]
  <2>0. x \in PolPort /\ \A p \in todo : cPol[p] # None
    BY <1>6, <1>t, ScopeValues DEF WritePrefix, TodoOK
  <2>1. new \in Policy
    BY <2>0, <1>d, <1>t DEF CacheType, Policy
  <2>2. /\ kPol' = IF ok THEN [kPol EXCEPT ![x] = new] ELSE kPol
        /\ cPol' = IF ok THEN [cPol EXCEPT ![x] = new] ELSE cPol
        /\ UNCHANGED <<kWl, kSlot, kAux, kCt, cWl, cSlot, cAux, cCt, stale, unread, callVars, envVars,
                       failures>>
    BY <1>6 DEF WritePrefix
  <2>. HIDE DEF new
  <2>3. KernelType' /\ CacheType'
    BY <2>1, <2>2, <1>t DEF KernelType, CacheType
  <2>4. \A p \in todo \ {x} : cPol'[p] # None
    BY <2>0, <2>2, <1>t DEF CacheType
  <2>. QED
    BY <1>6, <1>s, <2>2, <2>3, <2>4, ItemT DEF WritePrefix
<1>7. CASE WriteAux(x, ok)
  <2>0. x \in Aux
    BY <1>7, <1>t, ScopeValues DEF WriteAux, TodoOK
  <2>1. KernelType' /\ CacheType'
    BY <1>7, <2>0, <1>d, <1>t DEF WriteAux, KernelType, CacheType
  <2>2. pc # Prefixes
    BY <1>7 DEF WriteAux, Trust, AclStage, RtStage, RlStage, SitStage, Prefixes
  <2>. QED
    BY <1>7, <1>s, <2>1, <2>2, ItemT DEF WriteAux, Counted, Noted
<1>. QED
  BY <1>1, <1>2, <1>3, <1>4, <1>5, <1>6, <1>7

\* Every step keeps the types.
LEMMA NextTInv == TInv /\ [Next]_vars => TInv'
<1>. SUFFICES ASSUME TInv, [Next]_vars PROVE TInv'
  OBVIOUS
<1>1. CASE Next
  BY <1>1, BackendInitT, BackendGoneT, VerifyT, RunCtGcT, ReconcileT, AdvanceT, ApplyOneT,
     EnvironmentT DEF Next
<1>2. CASE UNCHANGED vars
  BY <1>2 DEF vars, kernelVars, cacheVars, TInv, TypeOK, KernelType, CacheType, CallType,
              HistoryType, TodoOK
<1>. QED
  BY <1>1, <1>2

\* Every variable keeps its type, through crashes, failed updates and drift:
\* in particular ensure_prefixes never builds an entry from a missing one.
THEOREM TypeCorrect == Spec => []TypeOK
<1>1. TInv => TypeOK
  BY DEF TInv
<1>. QED
  BY InitTInv, NextTInv, <1>1, PTL DEF Spec

-----------------------------------------------------------------------------
(***************************************************************************)
(* The gate before the ports are opened.  The invariant follows one        *)
(* reconcile: as long as no failure was counted, what a stage has dealt    *)
(* with is as desired in the cache, and without drift in the kernel too.   *)
(***************************************************************************)

\* The limits of a port that decide whether it has an entry.
HeadOf(p) == IF p \in TcpPort THEN HeadField ELSE UdpField

\* The stage that writes such a limit.
HeadStage(p, f) == IF p \in TcpPort THEN 9 + f ELSE 14 + f

\* The plan has a write of this limit, which is still to be made.
Pending(p, f) ==
    /\ p \in plan.view[f]
    /\ pc < HeadStage(p, f) \/ (pc = HeadStage(p, f) /\ p \in todo)

\* Stage i has dealt with item x.
Dealt(x, i) == pc > i \/ (pc = i /\ x \notin todo)

Clean == pc # Idle /\ failures = 0

\* The auxiliary maps with a cache.
Cached == Trusted \cup Acl \cup Sit4

\* Without drift a cache holds what the kernel has, or nothing where a read
\* has failed; a policy map that could not be read has an empty cache.
KernelSync ==
    (up /\ ~drifted) =>
        /\ \A s \in Slot : cSlot[s] = kSlot[s] \/ (cSlot[s] = None /\ s \in unread)
        /\ \A k \in Cached : cAux[k] = kAux[k] \/ (cAux[k] = None /\ k \in unread)
        /\ \A p \in PolPort : cPol[p] = kPol[p] \/ cPol[p] = None

\* No UDP port has a connection limit.
UdpNoConn == \A p \in UdpPort : LimitOf(kPol[p], 2) = 0 /\ LimitOf(cPol[p], 2) = 0

\* No port that is to be closed is desired; only TCP and UDP ports are opened
\* in the last stage.
CloseInv ==
    /\ pc # Idle => plan.close \cap desired.wl = {}
    /\ pc \in {CloseTcp, CloseUdp} => todo \cap desired.wl = {}
    /\ pc = Sctp => todo \subseteq SctpPort
    /\ pc = Open => todo \subseteq PolPort

HeadInv ==
    Clean => \A p \in PolPort \cap desired.wl : \A f \in HeadOf(p) :
                Pending(p, f) \/ LimitOf(cPol[p], f) = desired.lim[p][f]

\* A port whose entry could not be read has all its limits written anew.
EntryInv ==
    (Clean /\ ~drifted) =>
        \A p \in PolPort \cap desired.wl :
            cPol[p] = kPol[p] \/ \A f \in HeadOf(p) : Pending(p, f)

SlotInv == Clean => \A s \in Slot : Dealt(s, Outer) => cSlot[s] = WantedSlot(desired, s)

AuxInv ==
    (Clean /\ ~drifted) =>
        /\ \A i \in {Trust, AclStage, RtStage, SitStage} : \A k \in AuxKeys(i) :
             Dealt(k, i) => AuxInForce(k)
        /\ \A k \in GlobalRl :
             AuxInForce(k) \/ (k \in plan.rl /\ ~Dealt(k, RlStage))

\* The ports in the last stage may be opened, whatever fails within it.
OpenInv ==
    (pc = Open /\ ~drifted) =>
        \A p \in todo : Protected(p) /\ \A k \in Managed : AuxInForce(k)

PInv == /\ TInv /\ KernelSync /\ UdpNoConn /\ CloseInv
        /\ HeadInv /\ EntryInv /\ SlotInv /\ AuxInv /\ OpenInv

-----------------------------------------------------------------------------
\* A view write sets its own limit and keeps the other two of the first
\* three, also when it drops the entry (BpfPortPolicyViewMap).
LEMMA ViewWriteLimit ==
  ASSUME NEW pol \in Policy \cup {None}, NEW f \in Field, NEW v \in Limit, NEW x \in Prefix,
         NEW g \in HeadField
  PROVE  LimitOf(ViewWrite(pol, f, v, x), g) = IF g = f THEN v ELSE LimitOf(pol, g)
<1>. DEFINE current == IF pol = None THEN [lim |-> [h \in Field |-> 0], pfx |-> x] ELSE pol
            updated == [lim |-> [current.lim EXCEPT ![f] = v], pfx |-> current.pfx]
<1>1. current.lim \in [Field -> Limit] /\ current.pfx \in Prefix
  BY ValueAssumption DEF Policy
<1>2. g \in Field /\ current.lim[g] = LimitOf(pol, g)
  BY DEF HeadField, Field, LimitOf
<1>. HIDE DEF current
<1>3. updated \in Policy /\ updated # None /\ updated.lim[g] = IF g = f THEN v ELSE LimitOf(pol, g)
  BY <1>1, <1>2, ValueAssumption DEF Policy
<1>4. ViewWrite(pol, f, v, x) = IF \A h \in HeadField : updated.lim[h] = 0 THEN None ELSE updated
  BY DEF ViewWrite, current
<1>. HIDE DEF updated
<1>. QED
  BY <1>3, <1>4 DEF LimitOf

\* Between two reconciles only the caches and the kernel matter.
LEMMA IdleP ==
  ASSUME pc' = Idle, TInv', KernelSync', UdpNoConn'
  PROVE  PInv'
  BY DEF PInv, CloseInv, HeadInv, EntryInv, SlotInv, AuxInv, OpenInv, Clean, Idle, CloseTcp,
         CloseUdp, Sctp, Open

LEMMA InitP == Init => PInv
<1>. SUFFICES ASSUME Init PROVE PInv
  OBVIOUS
<1>1. pc = Idle /\ TInv /\ ~up
  BY InitTInv DEF Init
<1>2. KernelSync /\ CloseInv /\ OpenInv /\ ~Clean
  BY <1>1 DEF KernelSync, CloseInv, OpenInv, Clean, Idle, CloseTcp, CloseUdp, Sctp, Open
<1>3. UdpNoConn
  BY DEF Init, UdpNoConn, LimitOf, PolPort
<1>. QED
  BY <1>1, <1>2, <1>3 DEF PInv, HeadInv, EntryInv, SlotInv, AuxInv

\* After a load, a cache that differs from the kernel has missed the entry.
LEMMA LoadP ==
  ASSUME TInv, UdpNoConn, UNCHANGED kernelVars,
         NEW missed \in SUBSET Missable, NEW read, Load(missed, read)
  PROVE  KernelSync' /\ UdpNoConn'
<1>1. UNCHANGED <<kPol, kSlot, kAux>>
  BY DEF kernelVars
<1>2. \A s \in Slot : cSlot'[s] = kSlot[s] \/ (cSlot'[s] = None /\ s \in unread')
  BY DEF Load
<1>3. \A k \in Cached : cAux'[k] = kAux[k] \/ (cAux'[k] = None /\ k \in unread')
  BY DEF Load, Cached, Aux
<1>4. \A p \in PolPort : cPol'[p] = kPol[p] \/ cPol'[p] = None
  BY DEF Load
<1>5. UdpPort \subseteq PolPort
  BY DEF PolPort
<1>6. UdpNoConn'
  BY <1>1, <1>4, <1>5 DEF UdpNoConn, LimitOf
<1>. QED
  BY <1>1, <1>2, <1>3, <1>4, <1>6 DEF KernelSync

LEMMA LifeCycleP ==
  PInv /\ (BackendInit \/ BackendGone \/ VerifyKernelState \/ RunCtGc) => PInv'
<1>. SUFFICES ASSUME PInv, BackendInit \/ BackendGone \/ VerifyKernelState \/ RunCtGc PROVE PInv'
  OBVIOUS
<1>t. TInv /\ TInv'
  BY BackendInitT, BackendGoneT, VerifyT, RunCtGcT DEF PInv
<1>1. CASE BackendInit
  <2>1. pc' = Idle
    BY <1>1, <1>t DEF BackendInit, TInv, TodoOK
  <2>2. KernelSync' /\ UdpNoConn'
    <3>. PICK missed \in SUBSET Missable, read \in PolicyReads : Load(missed, read)
      BY <1>1 DEF BackendInit
    <3>. QED
      BY <1>1, <1>t, LoadP DEF BackendInit, kernelVars, PInv
  <2>. QED
    BY <2>1, <2>2, <1>t, IdleP
<1>2. CASE BackendGone
  <2>1. pc' = Idle /\ KernelSync'
    BY <1>2 DEF BackendGone, KernelSync
  <2>2. UdpNoConn'
    BY <1>2 DEF BackendGone, kernelVars, PInv, UdpNoConn, LimitOf, PolPort
  <2>. QED
    BY <2>1, <2>2, <1>t, IdleP
<1>3. CASE VerifyKernelState
  <2>1. pc' = Idle
    BY <1>3 DEF VerifyKernelState, callVars
  <2>2. KernelSync' /\ UdpNoConn'
    <3>. PICK missed \in SUBSET Missable, read \in PolicyReads : Load(missed, read)
      BY <1>3 DEF VerifyKernelState
    <3>. QED
      BY <1>3, <1>t, LoadP DEF VerifyKernelState, kernelVars, PInv
  <2>. QED
    BY <2>1, <2>2, <1>t, IdleP
<1>4. CASE RunCtGc
  <2>1. pc' = Idle /\ UNCHANGED <<up, drifted, unread, cSlot, kSlot, cAux, kAux, cPol, kPol>>
    BY <1>4 DEF RunCtGc, callVars, envVars
  <2>2. KernelSync' /\ UdpNoConn'
    BY <2>1 DEF PInv, KernelSync, UdpNoConn
  <2>. QED
    BY <2>1, <2>2, <1>t, IdleP
<1>. QED
  BY <1>1, <1>2, <1>3, <1>4

LEMMA EnvironmentP == PInv /\ (ChangeTarget \/ PacketPath \/ Drift) => PInv'
<1>. SUFFICES ASSUME PInv, ChangeTarget \/ PacketPath \/ Drift PROVE PInv'
  OBVIOUS
<1>t. TInv /\ TInv'
  BY EnvironmentT DEF PInv
<1>1. UNCHANGED <<up, sitOpen, pc, todo, desired, plan, failures, unread, cWl, cPol, cSlot, cAux>>
  BY DEF ChangeTarget, PacketPath, Drift, daemonVars, cacheVars
<1>2. CloseInv' /\ HeadInv' /\ SlotInv'
  BY <1>1 DEF PInv, CloseInv, HeadInv, SlotInv, Clean, Pending, Dealt
<1>3. CASE ChangeTarget \/ PacketPath
  <2>1. UNCHANGED <<drifted, kPol, kSlot, kAux>>
    BY <1>3 DEF ChangeTarget, PacketPath, kernelVars
  <2>2. KernelSync' /\ UdpNoConn'
    BY <1>1, <2>1 DEF PInv, KernelSync, UdpNoConn
  <2>3. EntryInv'
    BY <1>1, <2>1 DEF PInv, EntryInv, Clean, Pending
  <2>4. AuxInv'
    BY <1>1, <2>1 DEF PInv, AuxInv, AuxInForce, Leftover, AuxKeys, Clean, Dealt
  <2>5. OpenInv'
    BY <1>1, <2>1 DEF PInv, OpenInv, Protected, SlotInForce, AuxInForce, Leftover, Managed
  <2>. QED
    BY <1>t, <1>2, <2>2, <2>3, <2>4, <2>5 DEF PInv
<1>4. CASE Drift
  <2>1. drifted'
    BY <1>4 DEF Drift
  <2>2. UdpNoConn'
    <3>1. \A p \in PolPort : kPol'[p] = kPol[p] \/ kPol'[p] = None
      BY <1>4, <1>t DEF Drift, TInv, TypeOK, KernelType
    <3>. QED
      BY <1>1, <3>1 DEF PInv, UdpNoConn, LimitOf, PolPort
  <2>3. KernelSync' /\ EntryInv' /\ AuxInv' /\ OpenInv'
    BY <2>1 DEF KernelSync, EntryInv, AuxInv, OpenInv
  <2>. QED
    BY <1>t, <1>2, <2>2, <2>3 DEF PInv
<1>. QED
  BY <1>3, <1>4

\* The plan covers every limit whose cached value is not the desired one, and
\* every limit of a port whose entry is not in the cache.
LEMMA ReconcileP == PInv /\ Reconcile => PInv'
<1>. SUFFICES ASSUME PInv, Reconcile PROVE PInv'
  OBVIOUS
<1>t. TInv /\ TInv'
  BY ReconcileT DEF PInv
<1>1. /\ pc' = CloseTcp /\ desired' = target /\ failures' = 0
      /\ todo' = (cWl \ target.wl) \cap TcpPort
      /\ up
      /\ UNCHANGED <<up, drifted, kPol, kSlot, kAux, cWl, cPol, cSlot, cAux>>
  BY DEF Reconcile, kernelVars
<1>2. PICK blind \in SUBSET GlobalRl :
      /\ plan'.close = cWl \ target.wl
      /\ plan'.view = [f \in Field |-> ViewPlan(cPol, target, f)]
      /\ plan'.rl = {k \in GlobalRl : (IF k \in blind THEN None ELSE kAux[k]) # target.aux[k]}
      /\ unread' = (unread \ GlobalRl) \cup blind
  BY DEF Reconcile
<1>3. KernelSync' /\ UdpNoConn'
  <2>1. UdpNoConn'
    BY <1>1 DEF PInv, UdpNoConn
  <2>2. \A y \in Slot \cup Cached : y \in unread => y \in unread'
    BY <1>2, KeyAssumption DEF Aux, Cached
  <2>. QED
    BY <1>1, <2>1, <2>2 DEF PInv, KernelSync
<1>4. CloseInv'
  BY <1>1, <1>2 DEF CloseInv, CloseTcp, CloseUdp, Sctp, Open
<1>5. \A p \in PolPort, f \in HeadField :
        /\ pc' < HeadStage(p, f)
        /\ f \in HeadOf(p) =>
             \/ p \in plan'.view[f]
             \/ p \in target.wl => LimitOf(cPol[p], f) # 0 /\ LimitOf(cPol[p], f) = target.lim[p][f]
  <2>1. \A p \in PolPort, f \in HeadField : f \in HeadOf(p) => f \in FieldsOf(p)
    BY DEF HeadOf, FieldsOf, HeadField, Field
  <2>2. \A f \in HeadField : f \in Field /\ f \in Nat
    BY DEF HeadField, Field
  <2>. QED
    BY <1>1, <1>2, <2>1, <2>2 DEF HeadStage, CloseTcp, ViewPlan
<1>6. \A p \in PolPort : \A f \in HeadOf(p) : f \in HeadField
  BY DEF HeadOf, HeadField, UdpField
<1>7. HeadInv'
  BY <1>1, <1>5, <1>6 DEF HeadInv, Pending
<1>8. EntryInv'
  <2>1. ~drifted => \A p \in PolPort : cPol[p] = kPol[p] \/ cPol[p] = None
    BY <1>1 DEF PInv, KernelSync
  <2>2. \A p \in PolPort : \A f \in HeadOf(p) :
          cPol[p] = None /\ p \in target.wl => p \in plan'.view[f] /\ pc' < HeadStage(p, f)
    BY <1>5, <1>6 DEF LimitOf
  <2>. QED
    BY <1>1, <2>1, <2>2 DEF EntryInv, Pending
<1>9. SlotInv'
  BY <1>1 DEF SlotInv, Dealt, CloseTcp, Outer
<1>10. AuxInv'
  <2>1. \A k \in GlobalRl : AuxInForce(k)' \/ k \in plan'.rl
    BY <1>1, <1>2 DEF AuxInForce, Leftover
  <2>. QED
    BY <1>1, <2>1 DEF AuxInv, Dealt, CloseTcp, Trust, AclStage, RtStage, RlStage, SitStage
<1>11. OpenInv'
  BY <1>1 DEF OpenInv, CloseTcp, Open
<1>. QED
  BY <1>t, <1>3, <1>4, <1>7, <1>8, <1>9, <1>10, <1>11 DEF PInv

\* What the stages of a clean reconcile come to before the last one and after
\* it: every port's protection is in force.
LEMMA ReadyToOpen ==
  ASSUME PInv, Clean, ~drifted, pc \in {SitStage, Open}, todo = {}
  PROVE  /\ \A p \in PolPort \cap desired.wl : Protected(p) /\ cPol[p] = kPol[p]
         /\ \A k \in Managed : AuxInForce(k)
<1>. USE DEF SitStage, Open
<1>1. up /\ \A s \in Slot : cSlot[s] = kSlot[s] \/ (cSlot[s] = None /\ s \in unread)
  BY DEF PInv, TInv, TodoOK, KernelSync, Idle
<1>2. \A p \in PolPort : \A f \in HeadOf(p) : ~Pending(p, f) /\ 0 \in HeadOf(p)
  BY DEF Pending, HeadStage, HeadOf, HeadField, UdpField
<1>3. \A p \in PolPort \cap desired.wl :
        /\ cPol[p] = kPol[p]
        /\ \A f \in HeadOf(p) : LimitOf(kPol[p], f) = desired.lim[p][f]
  <2>1. \A p \in PolPort \cap desired.wl : cPol[p] = kPol[p]
    BY <1>2 DEF PInv, EntryInv, HeadOf, HeadField, UdpField
  <2>2. \A p \in PolPort \cap desired.wl : \A f \in HeadOf(p) : LimitOf(cPol[p], f) = desired.lim[p][f]
    BY <1>2 DEF PInv, HeadInv
  <2>. QED
    BY <2>1, <2>2
<1>4. \A p \in PolPort \cap desired.wl : \A f \in HeadField : LimitOf(kPol[p], f) = desired.lim[p][f]
  <2>. SUFFICES ASSUME NEW p \in PolPort \cap desired.wl, NEW f \in HeadField
                PROVE  LimitOf(kPol[p], f) = desired.lim[p][f]
    OBVIOUS
  <2>1. CASE f \in HeadOf(p)
    BY <2>1, <1>3
  <2>2. CASE f \notin HeadOf(p)
    <3>1. p \in UdpPort /\ f = 2
      BY <2>2 DEF HeadOf, HeadField, UdpField, PolPort
    <3>2. desired.lim[p][2] = 0
      BY <3>1, DesiredAssumption DEF PInv, TInv, TypeOK, CallType, Field, UdpField
    <3>. QED
      BY <3>1, <3>2 DEF PInv, UdpNoConn
  <2>. QED
    BY <2>1, <2>2
<1>5. \A s \in Slot : SlotInForce(s)
  <2>1. \A s \in Slot : cSlot[s] = WantedSlot(desired, s)
    BY DEF PInv, SlotInv, Dealt, Outer
  <2>. QED
    BY <1>1, <2>1 DEF SlotInForce, Leftover
<1>6. \A k \in Managed : AuxInForce(k)
  BY DEF PInv, AuxInv, Dealt, AuxKeys, Trust, AclStage, RtStage, RlStage, Aux, Managed
<1>. QED
  BY <1>3, <1>4, <1>5, <1>6 DEF Protected, Slot

\* A new stage changes nothing but what is to be done.
LEMMA AdvanceP == PInv /\ Advance => PInv'
<1>. SUFFICES ASSUME PInv, Advance PROVE PInv'
  OBVIOUS
<1>t. TInv /\ TInv'
  BY AdvanceT DEF PInv
<1>1. /\ UNCHANGED <<up, sitOpen, desired, plan, failures, drifted, kPol, kSlot, kAux, cWl, cPol, cSlot,
                     cAux>>
      /\ todo = {} /\ pc \in CloseTcp..Open /\ up
  BY <1>t DEF Advance, kernelVars, cacheVars, envVars, TInv, TypeOK, CallType, Idle, CloseTcp, Open
<1>u. \A y \in Slot \cup Cached \cup GlobalRl : y \in unread' <=> y \in unread
  BY KeyAssumption DEF Advance, Cached, Aux
<1>2. KernelSync' /\ UdpNoConn'
  <2>1. UdpNoConn'
    BY <1>1 DEF PInv, UdpNoConn
  <2>. QED
    BY <1>1, <1>u, <2>1 DEF PInv, KernelSync
<1>3. CASE pc = Open
  <2>1. pc' = Idle
    BY <1>3 DEF Advance
  <2>. QED
    BY <2>1, <1>t, <1>2, IdleP
<1>4. CASE pc # Open
  <2>1. PICK blind \in SUBSET Runtime :
        /\ pc' = pc + 1 /\ todo' = Work(pc + 1, blind) /\ pc \in CloseTcp..SitStage
        /\ pc + 1 # RtStage => blind = {}
        /\ pc + 1 = RtStage => blind \subseteq unread'
        /\ \A k \in Runtime : pc + 1 # RtStage => (k \in unread' <=> k \in unread)
    BY <1>1, <1>4 DEF Advance, CloseTcp, SitStage, Open
  <2>2. Clean' <=> Clean
    BY <1>1, <2>1 DEF Clean, CloseTcp, SitStage, Idle
  <2>3. CloseInv'
    <3>1. plan.close \cap desired.wl = {}
      BY <1>1 DEF PInv, CloseInv, CloseTcp, Idle
    <3>2. /\ Work(CloseUdp, blind) = plan.close \cap UdpPort /\ Work(Sctp, blind) \subseteq SctpPort
          /\ Work(Open, blind) \subseteq PolPort
      BY DEF Work, ToOpen, CloseUdp, Sctp, PurgeTcp, PurgeUdp, Seed, Unseed, View, Outer, Prefixes,
             RlStage, Open
    <3>. QED
      BY <1>1, <2>1, <3>1, <3>2 DEF CloseInv, CloseTcp, SitStage, Idle
  <2>4. \A p \in PolPort : \A f \in HeadOf(p) : Pending(p, f) => Pending(p, f)'
    <3>. SUFFICES ASSUME NEW p \in PolPort, NEW f \in HeadOf(p), Pending(p, f)
                  PROVE  Pending(p, f)'
      OBVIOUS
    <3>1. /\ pc < HeadStage(p, f) /\ p \in plan.view[f] /\ HeadStage(p, f) \in View
          /\ ViewField(HeadStage(p, f)) = f /\ p \in ViewPorts(HeadStage(p, f))
      BY <1>1 DEF Pending, HeadStage, HeadOf, HeadField, UdpField, View, ViewField, ViewPorts, PolPort
    <3>2. \A i \in View : Work(i, blind) = plan.view[ViewField(i)] \cap ViewPorts(i)
      BY DEF Work, PurgeTcp, PurgeUdp, Seed, Unseed, CloseUdp, Sctp, View, Outer, Prefixes,
             RlStage, Open
    <3>3. CASE pc + 1 < HeadStage(p, f)
      BY <3>1, <3>3, <1>1, <2>1 DEF Pending
    <3>4. CASE pc + 1 = HeadStage(p, f)
      BY <3>1, <3>2, <3>4, <1>1, <2>1 DEF Pending
    <3>. QED
      BY <3>1, <3>3, <3>4, <2>1 DEF View, CloseTcp, SitStage
  <2>5. HeadInv'
    BY <1>1, <2>2, <2>4 DEF PInv, HeadInv
  <2>6. EntryInv'
    BY <1>1, <2>2, <2>4 DEF PInv, EntryInv
  <2>7. SlotInv'
    <3>1. Work(Outer, blind) = {s \in Slot : cSlot[s] # WantedSlot(desired, s)}
      BY DEF Work, Outer, PurgeTcp, PurgeUdp, Seed, Unseed, CloseUdp, Sctp, View, Prefixes,
             RlStage, Open
    <3>. QED
      BY <1>1, <2>1, <2>2, <3>1 DEF PInv, SlotInv, Dealt, Outer, CloseTcp, SitStage
  <2>8. AuxInv'
    <3>. SUFFICES ASSUME Clean, ~drifted
                  PROVE  /\ \A i \in {Trust, AclStage, RtStage, SitStage} : \A k \in AuxKeys(i) :
                              Dealt(k, i)' => AuxInForce(k)'
                         /\ \A k \in GlobalRl :
                              AuxInForce(k)' \/ (k \in plan.rl /\ ~Dealt(k, RlStage)')
      BY <1>1, <2>2 DEF AuxInv, AuxKeys
    <3>1. \A i \in {Trust, AclStage, RtStage, SitStage} :
            Work(i, blind) = {k \in AuxKeys(i) : SeenAux(k, blind) # desired.aux[k]}
      BY DEF Work, Trust, AclStage, RtStage, SitStage, PurgeTcp, PurgeUdp, Seed, Unseed, CloseUdp,
             Sctp, View, Outer, Prefixes, RlStage, Open
    <3>2. Work(RlStage, blind) = plan.rl
      BY DEF Work, RlStage, PurgeTcp, PurgeUdp, Seed, Unseed, CloseUdp, Sctp, View, Outer,
             Prefixes, Open
    <3>3. \A k \in Cached : cAux[k] = kAux[k] \/ (cAux[k] = None /\ k \in unread)
      BY <1>1 DEF PInv, KernelSync
    <3>4. /\ AuxKeys(RtStage) = Runtime
          /\ \A i \in {Trust, AclStage, SitStage} : AuxKeys(i) \subseteq Cached
      BY DEF AuxKeys, Cached, Trust, AclStage, RtStage, SitStage
    <3>5. ASSUME NEW i \in {Trust, AclStage, RtStage, SitStage}, NEW k \in AuxKeys(i), Dealt(k, i)'
          PROVE  AuxInForce(k)'
      <4>1. CASE pc + 1 = i
        <5>1. SeenAux(k, blind) = desired.aux[k]
          BY <3>1, <3>5, <4>1, <2>1 DEF Dealt
        <5>2. CASE i = RtStage
          <6>1. k \in Runtime /\ blind \subseteq unread'
            BY <5>2, <4>1, <3>4, <2>1
          <6>. QED
            BY <5>1, <6>1, <1>1 DEF SeenAux, AuxInForce, Leftover
        <5>3. CASE i # RtStage
          <6>1. k \in Cached /\ k \notin Runtime /\ k \notin blind
            BY <5>3, <3>4, KeyAssumption DEF Cached
          <6>2. cAux[k] = desired.aux[k]
            BY <5>1, <6>1 DEF SeenAux
          <6>. QED
            BY <3>3, <6>1, <6>2, <1>1, <1>u DEF AuxInForce, Leftover
        <5>. QED
          BY <5>2, <5>3
      <4>2. CASE pc + 1 # i
        <5>1. Dealt(k, i)
          BY <3>5, <4>2, <1>1, <2>1 DEF Dealt, Trust, AclStage, RtStage, SitStage, CloseTcp
        <5>2. AuxInForce(k)
          BY <5>1 DEF PInv, AuxInv
        <5>3. k \in unread' <=> k \in unread
          BY <3>4, <4>2, <1>u, <2>1
        <5>. QED
          BY <5>2, <5>3, <1>1 DEF AuxInForce, Leftover
      <4>. QED
        BY <4>1, <4>2
    <3>6. ASSUME NEW k \in GlobalRl, ~AuxInForce(k)'
          PROVE  k \in plan.rl /\ ~Dealt(k, RlStage)'
      <4>1. ~AuxInForce(k)
        BY <3>6, <1>1, <1>u DEF AuxInForce, Leftover
      <4>2. k \in plan.rl /\ ~Dealt(k, RlStage)
        BY <4>1 DEF PInv, AuxInv
      <4>. QED
        BY <4>2, <3>2, <1>1, <2>1 DEF Dealt, RlStage, CloseTcp, SitStage
    <3>. QED
      BY <3>5, <3>6
  <2>9. OpenInv'
    <3>. SUFFICES ASSUME pc + 1 = Open, ~drifted, NEW p \in Work(Open, blind)
                  PROVE  Protected(p)' /\ \A k \in Managed : AuxInForce(k)'
      BY <1>1, <2>1 DEF OpenInv, Managed
    <3>1. Work(Open, blind) = ToOpen
      BY DEF Work, Open, PurgeTcp, PurgeUdp, Seed, Unseed, CloseUdp, Sctp, View, Outer, Prefixes,
             RlStage
    <3>2. failures = 0 /\ p \in PolPort \cap desired.wl
      BY <3>1 DEF ToOpen
    <3>3. pc = SitStage /\ Clean
      BY <3>2, <2>1 DEF Clean, Idle, CloseTcp, SitStage, Open
    <3>4. Protected(p) /\ \A k \in Managed : AuxInForce(k)
      BY <3>2, <3>3, <1>1, ReadyToOpen
    <3>5. \A y \in Slot \cup Aux : y \in unread' <=> y \in unread
      BY <3>3, <1>u, <2>1 DEF Aux, Cached, SitStage, RtStage
    <3>6. \A g \in Family : <<p, g>> \in Slot
      BY <3>2 DEF Slot
    <3>7. Protected(p)'
      BY <3>4, <3>5, <3>6, <1>1 DEF Protected, SlotInForce, Leftover
    <3>8. \A k \in Managed : AuxInForce(k)'
      BY <3>4, <3>5, <1>1 DEF Managed, AuxInForce, Leftover
    <3>. QED
      BY <3>7, <3>8
  <2>. QED
    BY <1>t, <1>2, <2>3, <2>5, <2>6, <2>7, <2>8, <2>9 DEF PInv
<1>. QED
  BY <1>3, <1>4

\* What every update of a map does to the progress of the reconcile.
LEMMA ItemP ==
  ASSUME PInv, NEW x \in todo, todo' = todo \ {x}, UNCHANGED <<callVars, envVars>>,
         failures' \in {failures, failures + 1}, unread' \in {unread, unread \ {x}}
  PROVE  /\ CloseInv' /\ (Clean' => Clean)
         /\ \A p, f : Pending(p, f) => Pending(p, f)' \/ (p = x /\ pc = HeadStage(p, f))
         /\ \A p, f : Pending(p, f)' => Pending(p, f)
         /\ \A y, i : Dealt(y, i)' => Dealt(y, i) \/ (y = x /\ pc = i)
         /\ \A y : y # x => (y \in unread' <=> y \in unread)
         /\ UNCHANGED <<up, sitOpen, pc, desired, plan, drifted>>
<1>1. UNCHANGED <<up, sitOpen, pc, desired, plan, drifted>> /\ failures \in Nat
  BY DEF callVars, envVars, PInv, TInv, TypeOK, CallType
<1>2. CloseInv'
  BY <1>1 DEF PInv, CloseInv
<1>3. Clean' => Clean
  BY <1>1 DEF Clean
<1>4. \A p, f : Pending(p, f) => Pending(p, f)' \/ (p = x /\ pc = HeadStage(p, f))
  BY <1>1 DEF Pending
<1>5. \A p, f : Pending(p, f)' => Pending(p, f)
  BY <1>1 DEF Pending
<1>6. \A y, i : Dealt(y, i)' => Dealt(y, i) \/ (y = x /\ pc = i)
  BY <1>1 DEF Dealt
<1>7. \A y : y # x => (y \in unread' <=> y \in unread)
  OBVIOUS
<1>. QED
  BY <1>1, <1>2, <1>3, <1>4, <1>5, <1>6, <1>7

\* What is in force stays so while the items of the other maps are dealt with.
LEMMA AuxKept ==
  ASSUME PInv, UNCHANGED <<sitOpen, desired, plan, drifted, kAux>>, Clean' => Clean,
         \A y \in Aux : y \in unread' <=> y \in unread,
         \A y : \A i \in {Trust, AclStage, RtStage, RlStage, SitStage} : Dealt(y, i)' => Dealt(y, i)
  PROVE  AuxInv'
<1>1. /\ GlobalRl \subseteq Aux
      /\ \A i \in {Trust, AclStage, RtStage, SitStage} : AuxKeys(i) \subseteq Aux /\ AuxKeys(i)' = AuxKeys(i)
  BY DEF AuxKeys, Aux, Trust, AclStage, RtStage, SitStage
<1>2. \A k \in Aux : AuxInForce(k)' <=> AuxInForce(k)
  BY DEF AuxInForce, Leftover
<1>3. ASSUME Clean, ~drifted
      PROVE  /\ \A i \in {Trust, AclStage, RtStage, SitStage} : \A k \in AuxKeys(i) :
                  Dealt(k, i) => AuxInForce(k)
             /\ \A k \in GlobalRl : AuxInForce(k) \/ (k \in plan.rl /\ ~Dealt(k, RlStage))
  BY <1>3 DEF PInv, AuxInv
<1>. QED
  BY <1>1, <1>2, <1>3 DEF AuxInv

LEMMA OpenKept ==
  ASSUME PInv, UNCHANGED <<sitOpen, pc, desired, drifted, kPol, kSlot, kAux>>, todo' \subseteq todo,
         \A y \in Slot \cup Aux : y \in unread' <=> y \in unread
  PROVE  OpenInv'
<1>. SUFFICES ASSUME pc = Open, ~drifted, NEW p \in todo'
              PROVE  Protected(p)' /\ \A k \in Managed : AuxInForce(k)'
  BY DEF OpenInv, Managed
<1>1. Protected(p) /\ \A k \in Managed : AuxInForce(k)
  BY DEF PInv, OpenInv
<1>2. \A k \in Managed : AuxInForce(k)'
  BY <1>1 DEF Managed, AuxInForce, Leftover
<1>3. \A s \in Slot : SlotInForce(s)' <=> SlotInForce(s)
  BY DEF SlotInForce, Leftover, WantedSlot
<1>4. p \in PolPort
  BY DEF PInv, CloseInv
<1>. QED
  BY <1>1, <1>2, <1>3, <1>4 DEF Protected, Slot

\* An update of another map than the policies, the inner maps and the
\* auxiliary ones.
LEMMA OtherItemP ==
  ASSUME PInv, TInv', NEW x \in todo, todo' = todo \ {x}, UNCHANGED <<callVars, envVars>>,
         failures' \in {failures, failures + 1},
         unread' = unread \/ (x \in Port /\ unread' = unread \ {x}),
         UNCHANGED <<kPol, kSlot, kAux, cPol, cSlot, cAux>>,
         pc \in {CloseTcp, CloseUdp, Sctp, Open, PurgeTcp, PurgeUdp, Unseed, Seed}
  PROVE  PInv'
<1>1. /\ CloseInv' /\ (Clean' => Clean)
      /\ \A p, f : Pending(p, f) => Pending(p, f)' \/ (p = x /\ pc = HeadStage(p, f))
      /\ \A y, i : Dealt(y, i)' => Dealt(y, i) \/ (y = x /\ pc = i)
      /\ UNCHANGED <<up, sitOpen, pc, desired, plan, drifted>>
  BY ItemP
<1>u. \A y \in Slot \cup Aux : y \in unread' <=> y \in unread
  BY KeyAssumption
<1>2. KernelSync' /\ UdpNoConn'
  <2>1. UdpNoConn'
    BY DEF PInv, UdpNoConn
  <2>2. Cached \subseteq Aux
    BY DEF Cached, Aux
  <2>. QED
    BY <1>1, <1>u, <2>1, <2>2 DEF PInv, KernelSync
<1>3. \A p \in PolPort : \A f \in HeadOf(p) : Pending(p, f) => Pending(p, f)'
  <2>1. \A p \in PolPort : \A f \in HeadOf(p) : pc # HeadStage(p, f)
    BY DEF HeadOf, HeadField, UdpField, HeadStage, CloseTcp, CloseUdp, Sctp, Open, PurgeTcp,
           PurgeUdp, Unseed, Seed
  <2>. QED
    BY <1>1, <2>1
<1>4. HeadInv'
  BY <1>1, <1>3 DEF PInv, HeadInv
<1>5. EntryInv'
  BY <1>1, <1>3 DEF PInv, EntryInv
<1>6. \A y : \A i \in {Outer, Trust, AclStage, RtStage, RlStage, SitStage} :
        Dealt(y, i)' => Dealt(y, i)
  BY <1>1 DEF Outer, Trust, AclStage, RtStage, RlStage, SitStage, CloseTcp, CloseUdp, Sctp, Open,
              PurgeTcp, PurgeUdp, Unseed, Seed
<1>7. SlotInv'
  BY <1>1, <1>6 DEF PInv, SlotInv
<1>8. AuxInv'
  BY <1>1, <1>6, <1>u, AuxKept
<1>9. OpenInv'
  BY <1>1, <1>u, OpenKept
<1>. QED
  BY <1>1, <1>2, <1>4, <1>5, <1>7, <1>8, <1>9 DEF PInv

\* A view write makes the limit of its own field as desired in the cache, and
\* kernel and cache agree on the entry afterwards.
LEMMA WriteViewP ==
  ASSUME PInv, TInv', NEW x \in todo, NEW ok \in BOOLEAN, WriteView(x, ok)
  PROVE  PInv'
<1>. DEFINE fld == ViewField(pc)
            v   == IF x \in desired.wl THEN desired.lim[x][fld] ELSE 0
            new == ViewWrite(cPol[x], fld, v, desired.pfx)
<1>t. TInv /\ KernelType /\ CacheType /\ CallType /\ TodoOK
  BY DEF PInv, TInv, TypeOK
<1>1. /\ CloseInv' /\ (Clean' => Clean)
      /\ \A p, f : Pending(p, f) => Pending(p, f)' \/ (p = x /\ pc = HeadStage(p, f))
      /\ \A p, f : Pending(p, f)' => Pending(p, f)
      /\ \A y, i : Dealt(y, i)' => Dealt(y, i) \/ (y = x /\ pc = i)
      /\ UNCHANGED <<up, sitOpen, pc, desired, plan, drifted>>
  BY ItemP DEF WriteView, Counted
<1>2. /\ pc \in View
      /\ kPol' = IF ok THEN [kPol EXCEPT ![x] = new] ELSE kPol
      /\ cPol' = IF ok THEN [cPol EXCEPT ![x] = new] ELSE cPol
      /\ UNCHANGED <<kSlot, kAux, cSlot, cAux, unread>>
      /\ failures' = IF ok THEN failures ELSE failures + 1
  BY DEF WriteView, Counted
<1>3. x \in PolPort /\ x \in ViewPorts(pc) /\ fld \in FieldsOf(x) /\ fld \in Field
  <2>1. x \in ViewPorts(pc)
    BY <1>t, <1>2, ScopeValues DEF TodoOK
  <2>2. x \in PolPort /\ fld \in FieldsOf(x) /\ fld \in Field
    BY <2>1, <1>2, PortAssumption DEF ViewPorts, ViewField, FieldsOf, Field, UdpField, PolPort, View
  <2>. QED
    BY <2>1, <2>2
<1>4. v \in Limit /\ desired.pfx \in Prefix
  BY <1>t, <1>3, DesiredType, ValueAssumption DEF CallType
<1>5. \A g \in HeadField : LimitOf(new, g) = IF g = fld THEN v ELSE LimitOf(cPol[x], g)
  <2>1. cPol[x] \in Policy \cup {None}
    BY <1>3, <1>t DEF CacheType
  <2>. HIDE DEF v, fld
  <2>. QED
    BY <2>1, <1>3, <1>4, ViewWriteLimit
<1>6. kPol \in [PolPort -> Policy \cup {None}] /\ cPol \in [PolPort -> Policy \cup {None}]
  BY <1>t DEF KernelType, CacheType
<1>7. \A f \in HeadOf(x) : pc = HeadStage(x, f) => f = fld
  BY <1>2, <1>3, PortAssumption DEF HeadStage, HeadOf, HeadField, UdpField, ViewField, ViewPorts, View, PolPort
<1>. HIDE DEF new
<1>8. \A p \in PolPort : IF ok /\ p = x THEN kPol'[p] = new /\ cPol'[p] = new
                                        ELSE kPol'[p] = kPol[p] /\ cPol'[p] = cPol[p]
  BY <1>2, <1>6
<1>9. KernelSync'
  BY <1>1, <1>2, <1>8 DEF PInv, KernelSync
<1>10. UdpNoConn'
  <2>1. x \in UdpPort => fld # 2
    BY <1>3, PortAssumption DEF FieldsOf, UdpField
  <2>2. x \in UdpPort => LimitOf(new, 2) = 0
    BY <1>5, <2>1 DEF HeadField, PInv, UdpNoConn
  <2>3. UdpPort \subseteq PolPort
    BY DEF PolPort
  <2>. QED
    BY <2>2, <2>3, <1>8 DEF PInv, UdpNoConn
<1>11. HeadInv'
  <2>. SUFFICES ASSUME Clean', NEW p \in PolPort \cap desired.wl, NEW f \in HeadOf(p), ~Pending(p, f)'
                PROVE  LimitOf(cPol'[p], f) = desired.lim[p][f]
    BY <1>1 DEF HeadInv
  <2>1. ok /\ Clean
    BY <1>1, <1>2, <1>t DEF Clean, CallType
  <2>2. Pending(p, f) \/ LimitOf(cPol[p], f) = desired.lim[p][f]
    BY <2>1 DEF PInv, HeadInv
  <2>3. f \in HeadField
    BY DEF HeadOf, HeadField, UdpField
  <2>4. CASE p # x
    BY <2>2, <2>4, <1>1, <1>8
  <2>5. CASE p = x /\ f = fld
    BY <2>1, <2>3, <2>5, <1>5, <1>8
  <2>6. CASE p = x /\ f # fld
    <3>1. LimitOf(cPol[p], f) = desired.lim[p][f]
      BY <2>2, <2>6, <1>1, <1>7
    <3>. QED
      BY <3>1, <2>1, <2>3, <2>6, <1>5, <1>8
  <2>. QED
    BY <2>4, <2>5, <2>6
<1>12. EntryInv'
  <2>. SUFFICES ASSUME Clean', ~drifted, NEW p \in PolPort \cap desired.wl, cPol'[p] # kPol'[p],
                       NEW f \in HeadOf(p)
                PROVE  Pending(p, f)'
    BY <1>1 DEF EntryInv
  <2>1. ok /\ Clean
    BY <1>1, <1>2, <1>t DEF Clean, CallType
  <2>2. p # x /\ cPol[p] # kPol[p]
    BY <2>1, <1>8
  <2>3. Pending(p, f)
    BY <2>1, <2>2 DEF PInv, EntryInv
  <2>. QED
    BY <2>2, <2>3, <1>1
<1>13. \A y : \A i \in {Outer, Trust, AclStage, RtStage, RlStage, SitStage} :
         Dealt(y, i)' => Dealt(y, i)
  BY <1>1, <1>2 DEF Outer, Trust, AclStage, RtStage, RlStage, SitStage, View
<1>14. SlotInv'
  BY <1>1, <1>2, <1>13 DEF PInv, SlotInv
<1>15. AuxInv'
  BY <1>1, <1>2, <1>13, AuxKept
<1>16. OpenInv'
  BY <1>1, <1>2 DEF OpenInv, Open, View
<1>. QED
  BY <1>1, <1>9, <1>10, <1>11, <1>12, <1>14, <1>15, <1>16 DEF PInv

\* An inner map is published for the slot, or the failure is counted.
LEMMA WriteSlotP ==
  ASSUME PInv, TInv', NEW x \in todo, NEW ok \in BOOLEAN, WriteSlot(x, ok)
  PROVE  PInv'
<1>t. KernelType /\ CacheType /\ CallType /\ TodoOK
  BY DEF PInv, TInv, TypeOK
<1>1. /\ CloseInv' /\ (Clean' => Clean)
      /\ \A p, f : Pending(p, f) => Pending(p, f)' \/ (p = x /\ pc = HeadStage(p, f))
      /\ \A y, i : Dealt(y, i)' => Dealt(y, i) \/ (y = x /\ pc = i)
      /\ \A y : y # x => (y \in unread' <=> y \in unread)
      /\ UNCHANGED <<up, sitOpen, pc, desired, plan, drifted>>
  BY ItemP DEF WriteSlot, Counted, Noted
<1>2. /\ pc = Outer
      /\ kSlot' = IF ok THEN [kSlot EXCEPT ![x] = WantedSlot(desired, x)] ELSE kSlot
      /\ cSlot' = IF ok THEN [cSlot EXCEPT ![x] = WantedSlot(desired, x)] ELSE cSlot
      /\ UNCHANGED <<kPol, kAux, cPol, cAux>>
      /\ failures' = IF ok THEN failures ELSE failures + 1
  BY DEF WriteSlot, Counted
<1>x. x \in Slot /\ x \notin Aux
  BY <1>2, <1>t, ScopeValues, KeyAssumption DEF TodoOK
<1>3. KernelSync' /\ UdpNoConn'
  <2>1. UdpNoConn'
    BY <1>2 DEF PInv, UdpNoConn
  <2>2. \A s \in Slot : \/ s = x /\ ok /\ kSlot'[s] = cSlot'[s]
                        \/ s # x /\ kSlot'[s] = kSlot[s] /\ cSlot'[s] = cSlot[s]
                        \/ kSlot' = kSlot /\ cSlot' = cSlot /\ unread' = unread
    BY <1>2, <1>t DEF KernelType, CacheType, WriteSlot, Noted
  <2>3. Cached \subseteq Aux
    BY DEF Cached, Aux
  <2>. QED
    BY <1>1, <1>2, <1>x, <2>1, <2>2, <2>3 DEF PInv, KernelSync
<1>4. \A p \in PolPort : \A f \in HeadOf(p) : Pending(p, f) => Pending(p, f)'
  <2>1. \A p \in PolPort : \A f \in HeadOf(p) : pc # HeadStage(p, f)
    BY <1>2 DEF HeadOf, HeadField, UdpField, HeadStage, Outer
  <2>. QED
    BY <1>1, <2>1
<1>5. HeadInv'
  BY <1>1, <1>2, <1>4 DEF PInv, HeadInv
<1>6. EntryInv'
  BY <1>1, <1>2, <1>4 DEF PInv, EntryInv
<1>7. SlotInv'
  <2>. SUFFICES ASSUME Clean', NEW s \in Slot, Dealt(s, Outer)'
                PROVE  cSlot'[s] = WantedSlot(desired, s)
    BY <1>1 DEF SlotInv, WantedSlot
  <2>1. ok /\ Clean
    BY <1>1, <1>2, <1>t DEF Clean, CallType
  <2>2. CASE s = x
    BY <2>1, <2>2, <1>2, <1>t DEF CacheType
  <2>3. CASE s # x
    <3>1. cSlot[s] = WantedSlot(desired, s)
      BY <2>1, <2>3, <1>1 DEF PInv, SlotInv
    <3>. QED
      BY <3>1, <2>1, <2>3, <1>2, <1>t DEF CacheType
  <2>. QED
    BY <2>2, <2>3
<1>8. AuxInv'
  <2>1. \A y : \A i \in {Trust, AclStage, RtStage, RlStage, SitStage} : Dealt(y, i)' => Dealt(y, i)
    BY <1>1, <1>2 DEF Outer, Trust, AclStage, RtStage, RlStage, SitStage
  <2>. QED
    BY <1>1, <1>2, <1>x, <2>1, AuxKept
<1>9. OpenInv'
  BY <1>1, <1>2 DEF OpenInv, Open, Outer
<1>. QED
  BY <1>1, <1>3, <1>5, <1>6, <1>7, <1>8, <1>9 DEF PInv

\* ensure_prefixes keeps every limit, and kernel and cache together.
LEMMA WritePrefixP ==
  ASSUME PInv, TInv', NEW x \in todo, NEW ok \in BOOLEAN, WritePrefix(x, ok)
  PROVE  PInv'
<1>. DEFINE new == [lim |-> cPol[x].lim, pfx |-> desired.pfx]
<1>t. KernelType /\ CacheType /\ CallType /\ TodoOK
  BY DEF PInv, TInv, TypeOK
<1>1. /\ CloseInv' /\ (Clean' => Clean)
      /\ \A p, f : Pending(p, f) => Pending(p, f)' \/ (p = x /\ pc = HeadStage(p, f))
      /\ \A y, i : Dealt(y, i)' => Dealt(y, i) \/ (y = x /\ pc = i)
      /\ UNCHANGED <<up, sitOpen, pc, desired, plan, drifted>>
  BY ItemP DEF WritePrefix
<1>2. /\ pc = Prefixes
      /\ kPol' = IF ok THEN [kPol EXCEPT ![x] = new] ELSE kPol
      /\ cPol' = IF ok THEN [cPol EXCEPT ![x] = new] ELSE cPol
      /\ UNCHANGED <<kSlot, kAux, cSlot, cAux, unread>>
  BY DEF WritePrefix
<1>3. x \in PolPort /\ cPol[x] \in Policy /\ cPol[x] # None
  BY <1>2, <1>t, ScopeValues DEF TodoOK, CacheType
<1>4. /\ new \in Policy /\ new # None
      /\ \A f : LimitOf(new, f) = LimitOf(cPol[x], f)
  <2>1. desired.pfx \in Prefix
    BY <1>t, DesiredType DEF CallType
  <2>2. new \in Policy /\ new.lim = cPol[x].lim
    BY <2>1, <1>3 DEF Policy
  <2>. QED
    BY <2>2, <1>3, ValueAssumption DEF LimitOf
<1>5. kPol \in [PolPort -> Policy \cup {None}] /\ cPol \in [PolPort -> Policy \cup {None}]
  BY <1>t DEF KernelType, CacheType
<1>. HIDE DEF new
<1>6. \A p \in PolPort : IF ok /\ p = x THEN kPol'[p] = new /\ cPol'[p] = new
                                        ELSE kPol'[p] = kPol[p] /\ cPol'[p] = cPol[p]
  BY <1>2, <1>5
<1>7. \A p \in PolPort, f \in Field : LimitOf(cPol'[p], f) = LimitOf(cPol[p], f)
  BY <1>4, <1>6
<1>8. KernelSync'
  BY <1>1, <1>2, <1>6 DEF PInv, KernelSync
<1>9. UdpNoConn'
  <2>1. UdpPort \subseteq PolPort
    BY DEF PolPort
  <2>. QED
    BY <2>1, <1>4, <1>6 DEF PInv, UdpNoConn
<1>10. \A p \in PolPort : \A f \in HeadOf(p) : f \in Field /\ (Pending(p, f) => Pending(p, f)')
  <2>1. \A p \in PolPort : \A f \in HeadOf(p) : pc # HeadStage(p, f) /\ f \in Field
    BY <1>2 DEF HeadOf, HeadField, UdpField, HeadStage, Prefixes, Field
  <2>. QED
    BY <1>1, <2>1
<1>11. HeadInv'
  BY <1>1, <1>7, <1>10 DEF PInv, HeadInv
<1>12. EntryInv'
  BY <1>1, <1>6, <1>10 DEF PInv, EntryInv
<1>13. \A y : \A i \in {Outer, Trust, AclStage, RtStage, RlStage, SitStage} :
         Dealt(y, i)' => Dealt(y, i)
  BY <1>1, <1>2 DEF Outer, Trust, AclStage, RtStage, RlStage, SitStage, Prefixes
<1>14. SlotInv'
  BY <1>1, <1>2, <1>13 DEF PInv, SlotInv
<1>15. AuxInv'
  BY <1>1, <1>2, <1>13, AuxKept
<1>16. OpenInv'
  BY <1>1, <1>2 DEF OpenInv, Open, Prefixes
<1>. QED
  BY <1>1, <1>8, <1>9, <1>11, <1>12, <1>14, <1>15, <1>16 DEF PInv

\* An auxiliary map gets the desired value, or the failure is counted.
LEMMA WriteAuxP ==
  ASSUME PInv, TInv', NEW x \in todo, NEW ok \in BOOLEAN, WriteAux(x, ok)
  PROVE  PInv'
<1>t. KernelType /\ CacheType /\ CallType /\ TodoOK
  BY DEF PInv, TInv, TypeOK
<1>1. /\ CloseInv' /\ (Clean' => Clean)
      /\ \A p, f : Pending(p, f) => Pending(p, f)' \/ (p = x /\ pc = HeadStage(p, f))
      /\ \A y, i : Dealt(y, i)' => Dealt(y, i) \/ (y = x /\ pc = i)
      /\ \A y : y # x => (y \in unread' <=> y \in unread)
      /\ UNCHANGED <<up, sitOpen, pc, desired, plan, drifted>>
  BY ItemP DEF WriteAux, Counted, Noted
<1>2. /\ pc \in {Trust, AclStage, RtStage, RlStage, SitStage}
      /\ kAux' = IF ok THEN [kAux EXCEPT ![x] = desired.aux[x]] ELSE kAux
      /\ cAux' = IF ok THEN [cAux EXCEPT ![x] = desired.aux[x]] ELSE cAux
      /\ UNCHANGED <<kPol, kSlot, cPol, cSlot>>
      /\ failures' = IF ok THEN failures ELSE failures + 1
  BY DEF WriteAux, Counted
<1>x. x \in Aux /\ x \notin Slot
  BY <1>2, <1>t, ScopeValues, KeyAssumption DEF TodoOK
<1>3. KernelSync' /\ UdpNoConn'
  <2>1. UdpNoConn'
    BY <1>2 DEF PInv, UdpNoConn
  <2>2. \A k \in Aux : \/ k = x /\ ok /\ kAux'[k] = cAux'[k]
                       \/ k # x /\ kAux'[k] = kAux[k] /\ cAux'[k] = cAux[k]
                       \/ kAux' = kAux /\ cAux' = cAux /\ unread' = unread
    BY <1>2, <1>t DEF KernelType, CacheType, WriteAux, Noted
  <2>3. Cached \subseteq Aux
    BY DEF Cached, Aux
  <2>. QED
    BY <1>1, <1>2, <1>x, <2>1, <2>2, <2>3 DEF PInv, KernelSync
<1>4. \A p \in PolPort : \A f \in HeadOf(p) : Pending(p, f) => Pending(p, f)'
  <2>1. \A p \in PolPort : \A f \in HeadOf(p) : pc # HeadStage(p, f)
    BY <1>2 DEF HeadOf, HeadField, UdpField, HeadStage, Trust, AclStage, RtStage, RlStage, SitStage
  <2>. QED
    BY <1>1, <2>1
<1>5. HeadInv'
  BY <1>1, <1>2, <1>4 DEF PInv, HeadInv
<1>6. EntryInv'
  BY <1>1, <1>2, <1>4 DEF PInv, EntryInv
<1>7. SlotInv'
  <2>1. \A y : Dealt(y, Outer)' => Dealt(y, Outer)
    BY <1>1, <1>2 DEF Outer, Trust, AclStage, RtStage, RlStage, SitStage
  <2>. QED
    BY <1>1, <1>2, <2>1 DEF PInv, SlotInv
<1>8. AuxInv'
  <2>. SUFFICES ASSUME Clean', ~drifted
                PROVE  /\ \A i \in {Trust, AclStage, RtStage, SitStage} : \A k \in AuxKeys(i) :
                            Dealt(k, i)' => AuxInForce(k)'
                       /\ \A k \in GlobalRl :
                            AuxInForce(k)' \/ (k \in plan.rl /\ ~Dealt(k, RlStage)')
    BY <1>1 DEF AuxInv, AuxKeys
  <2>1. ok /\ Clean
    BY <1>1, <1>2, <1>t DEF Clean, CallType
  <2>2. \A k \in Aux : IF k = x THEN AuxInForce(k)' ELSE AuxInForce(k)' <=> AuxInForce(k)
    <3>1. \A k \in Aux : kAux'[k] = IF k = x THEN desired.aux[k] ELSE kAux[k]
      BY <2>1, <1>2, <1>t DEF KernelType
    <3>. QED
      BY <3>1, <1>1 DEF AuxInForce, Leftover
  <2>3. GlobalRl \subseteq Aux /\ \A i \in {Trust, AclStage, RtStage, SitStage} : AuxKeys(i) \subseteq Aux
    BY DEF AuxKeys, Aux, Trust, AclStage, RtStage, SitStage
  <2>4. ASSUME NEW i \in {Trust, AclStage, RtStage, SitStage}, NEW k \in AuxKeys(i), Dealt(k, i)'
        PROVE  AuxInForce(k)'
    BY <2>1, <2>2, <2>3, <2>4, <1>1 DEF PInv, AuxInv
  <2>5. ASSUME NEW k \in GlobalRl, ~AuxInForce(k)'
        PROVE  k \in plan.rl /\ ~Dealt(k, RlStage)'
    BY <2>1, <2>2, <2>3, <2>5, <1>1 DEF PInv, AuxInv
  <2>. QED
    BY <2>4, <2>5
<1>9. OpenInv'
  BY <1>1, <1>2 DEF OpenInv, Open, Trust, AclStage, RtStage, RlStage, SitStage
<1>. QED
  BY <1>1, <1>3, <1>5, <1>6, <1>7, <1>8, <1>9 DEF PInv

LEMMA ApplyOneP == PInv /\ ApplyOne => PInv'
<1>. SUFFICES ASSUME PInv, ApplyOne PROVE PInv'
  OBVIOUS
<1>t. TInv'
  BY ApplyOneT DEF PInv
<1>. PICK x \in todo, ok \in BOOLEAN :
       \/ SetPort(x, ok)   \/ DeleteFlow(x, ok)  \/ SeedFlow(x, ok) \/ WriteView(x, ok)
       \/ WriteSlot(x, ok) \/ WritePrefix(x, ok) \/ WriteAux(x, ok)
  BY DEF ApplyOne
<1>1. CASE SetPort(x, ok)
  <2>1. x \in Port
    BY <1>1, ScopeValues DEF SetPort, PInv, TInv, TodoOK
  <2>. QED
    BY <1>1, <1>t, <2>1, OtherItemP DEF SetPort, Counted, Noted
<1>2. CASE DeleteFlow(x, ok)
  BY <1>2, <1>t, OtherItemP DEF DeleteFlow, Counted
<1>3. CASE SeedFlow(x, ok)
  BY <1>3, <1>t, OtherItemP DEF SeedFlow, Counted
<1>4. CASE WriteView(x, ok) \/ WriteSlot(x, ok) \/ WritePrefix(x, ok) \/ WriteAux(x, ok)
  BY <1>4, <1>t, WriteViewP, WriteSlotP, WritePrefixP, WriteAuxP
<1>. QED
  BY <1>1, <1>2, <1>3, <1>4

LEMMA NextP == PInv /\ [Next]_vars => PInv'
<1>. SUFFICES ASSUME PInv, [Next]_vars PROVE PInv'
  OBVIOUS
<1>1. CASE Next
  BY <1>1, LifeCycleP, ReconcileP, AdvanceP, ApplyOneP, EnvironmentP DEF Next
<1>2. CASE UNCHANGED vars
  <2>1. TInv'
    BY <1>2, NextTInv DEF PInv
  <2>2. UNCHANGED <<kPol, kSlot, kAux, cPol, cSlot, cAux, up, sitOpen, pc, todo, desired, plan, failures,
                    drifted, unread>>
    BY <1>2 DEF vars, kernelVars, cacheVars
  <2>3. KernelSync' /\ UdpNoConn' /\ CloseInv'
    BY <2>2 DEF PInv, KernelSync, UdpNoConn, CloseInv
  <2>4. HeadInv' /\ EntryInv'
    BY <2>2 DEF PInv, HeadInv, EntryInv, Clean, Pending
  <2>5. SlotInv' /\ (Clean' => Clean) /\ \A y, i : Dealt(y, i)' => Dealt(y, i)
    BY <2>2 DEF PInv, SlotInv, Clean, Dealt
  <2>6. AuxInv'
    BY <2>2, <2>5, AuxKept
  <2>7. OpenInv'
    BY <2>2, OpenKept
  <2>. QED
    BY <2>1, <2>3, <2>4, <2>5, <2>6, <2>7 DEF PInv
<1>. QED
  BY <1>1, <1>2

\* Only the last stage puts a TCP or UDP port on a whitelist.
LEMMA OpenStep ==
  ASSUME PInv, [Next]_vars, NEW p \in (kWl' \ kWl) \cap PolPort, ~drifted
  PROVE  Protected(p) /\ \A k \in Managed : AuxInForce(k)
<1>1. ApplyOne
  BY DEF Next, vars, kernelVars, BackendInit, BackendGone, VerifyKernelState, RunCtGc, Reconcile,
         Advance, ChangeTarget, PacketPath, Drift
<1>2. PICK x \in todo, ok \in BOOLEAN : SetPort(x, ok)
  BY <1>1 DEF ApplyOne, DeleteFlow, SeedFlow, WriteView, WriteSlot, WritePrefix, WriteAux
<1>3. p = x /\ x \in desired.wl /\ pc \in {CloseTcp, CloseUdp, Sctp, Open}
  BY <1>2 DEF SetPort
<1>4. pc = Open
  BY <1>3, PortAssumption DEF PInv, CloseInv
<1>. QED
  BY <1>3, <1>4 DEF PInv, OpenInv

\* For any ports, limits, maps and number of faults, failed reads of the
\* kernel included: a port is put on a whitelist only when its limits, its
\* inner maps and every wanted entry of the auxiliary maps are in force in the
\* kernel; only an unwanted entry that a read has missed may be left there.
THEOREM OpenedProtected == Spec => NewPortProtected
<1>1. PInv /\ [Next]_vars =>
        [\A p \in (kWl' \ kWl) \cap PolPort :
            ~drifted => Protected(p) /\ \A k \in Managed : AuxInForce(k)]_vars
  BY OpenStep
<1>. QED
  BY InitP, NextP, <1>1, PTL DEF Spec, NewPortProtected

-----------------------------------------------------------------------------
(***************************************************************************)
(* Removal of stale flows.                                                 *)
(***************************************************************************)

\* The rounds a flow has collected are reconciles in a row that missed it, and
\* the flows a plan removes have been missed often enough.
MissInv ==
    /\ \A f \in Flow : stale[f] <= misses[f]
    /\ pc # Idle => \A f \in plan.unseed : misses[f] >= StaleReconciles
    /\ pc = Unseed => todo \subseteq plan.unseed

LEMMA InitMiss == Init => MissInv
  BY DEF Init, MissInv, Idle, Unseed

\* A reconcile counts a miss for every flow it counts a round for.
LEMMA ReconcileMiss == TInv /\ MissInv /\ Reconcile => MissInv'
<1>. SUFFICES ASSUME TInv, MissInv, Reconcile PROVE MissInv'
  OBVIOUS
<1>. DEFINE toRemove == (cCt \cap TcpFlow) \ target.ct
            rounds == Rounds(toRemove)
<1>1. /\ stale' = [f \in Flow |-> IF rounds[f] > StaleReconciles THEN StaleReconciles ELSE rounds[f]]
      /\ plan'.unseed = {f \in toRemove : rounds[f] >= StaleReconciles}
      /\ misses' = [f \in Flow |-> IF f \in target.ct THEN 0
                                   ELSE IF misses[f] < StaleReconciles THEN misses[f] + 1
                                   ELSE misses[f]]
      /\ pc' = CloseTcp
  BY DEF Reconcile
<1>2. \A f \in Flow : rounds[f] = IF f \in toRemove THEN stale[f] + 1 ELSE 0
  BY DEF Rounds
<1>3. /\ stale \in [Flow -> 0..StaleReconciles] /\ misses \in [Flow -> 0..StaleReconciles]
      /\ StaleReconciles \in Nat \ {0} /\ \A f \in Flow : stale[f] <= misses[f]
      /\ toRemove \subseteq Flow /\ toRemove \cap target.ct = {}
  BY ValueAssumption DEF TInv, TypeOK, HistoryType, CacheType, MissInv, TcpFlow
<1>. HIDE DEF rounds, toRemove
<1>4. ASSUME NEW f \in Flow
      PROVE  /\ stale'[f] <= misses'[f]
             /\ f \in toRemove /\ rounds[f] >= StaleReconciles => misses'[f] >= StaleReconciles
  <2>1. /\ stale'[f] = IF rounds[f] > StaleReconciles THEN StaleReconciles ELSE rounds[f]
        /\ rounds[f] = IF f \in toRemove THEN stale[f] + 1 ELSE 0
        /\ misses'[f] = IF f \in target.ct THEN 0
                        ELSE IF misses[f] < StaleReconciles THEN misses[f] + 1 ELSE misses[f]
        /\ stale[f] \in 0..StaleReconciles /\ misses[f] \in 0..StaleReconciles
        /\ stale[f] <= misses[f]
    BY <1>1, <1>2, <1>3
  <2>2. f \in toRemove => f \notin target.ct
    BY <1>3
  <2>. QED
    BY <1>3, <2>1, <2>2
<1>. QED
  BY <1>1, <1>3, <1>4 DEF MissInv, CloseTcp, Unseed

LEMMA AdvanceMiss == TInv /\ MissInv /\ Advance => MissInv'
<1>. SUFFICES ASSUME TInv, MissInv, Advance PROVE MissInv'
  OBVIOUS
<1>1. UNCHANGED <<stale, misses, plan>> /\ pc # Idle
  BY DEF Advance, envVars
<1>2. \A blind : Work(Unseed, blind) = plan.unseed
  BY DEF Work, Unseed, PurgeTcp, PurgeUdp, Seed, CloseUdp, Sctp, View, Outer, Prefixes, RlStage, Open
<1>3. pc' = Unseed => \E blind : todo' = Work(Unseed, blind)
  BY DEF Advance, Unseed, Idle, Open
<1>. QED
  BY <1>1, <1>2, <1>3 DEF MissInv

LEMMA ApplyOneMiss == TInv /\ MissInv /\ ApplyOne => MissInv'
<1>. SUFFICES ASSUME TInv, MissInv, ApplyOne PROVE MissInv'
  OBVIOUS
<1>. PICK x \in todo, ok \in BOOLEAN :
       \/ SetPort(x, ok)   \/ DeleteFlow(x, ok)  \/ SeedFlow(x, ok) \/ WriteView(x, ok)
       \/ WriteSlot(x, ok) \/ WritePrefix(x, ok) \/ WriteAux(x, ok)
  BY DEF ApplyOne
<1>1. /\ UNCHANGED <<pc, plan, misses>> /\ todo' = todo \ {x}
      /\ stale' = stale \/ stale' = [stale EXCEPT ![x] = 0]
  BY DEF SetPort, DeleteFlow, SeedFlow, WriteView, WriteSlot, WritePrefix, WriteAux, callVars, envVars
<1>2. stale \in [Flow -> Nat] /\ misses \in [Flow -> Nat]
  BY ValueAssumption DEF TInv, TypeOK, HistoryType
<1>3. \A f \in Flow : stale'[f] <= misses'[f]
  BY <1>1, <1>2 DEF MissInv
<1>. QED
  BY <1>1, <1>3 DEF MissInv

LEMMA NextMiss == TInv /\ MissInv /\ [Next]_vars => MissInv'
<1>. SUFFICES ASSUME TInv, MissInv, [Next]_vars PROVE MissInv'
  OBVIOUS
<1>1. CASE BackendInit
  BY <1>1 DEF BackendInit, MissInv, TInv, TodoOK, Idle, Unseed
<1>2. CASE BackendGone
  BY <1>2 DEF BackendGone, MissInv, Idle, Unseed
<1>3. CASE VerifyKernelState \/ RunCtGc \/ ChangeTarget \/ PacketPath \/ Drift \/ UNCHANGED vars
  <2>1. UNCHANGED <<stale, misses, pc, plan, todo>>
    BY <1>3 DEF VerifyKernelState, RunCtGc, ChangeTarget, PacketPath, Drift, vars, callVars,
                envVars, daemonVars
  <2>. QED
    BY <2>1 DEF MissInv
<1>. QED
  BY <1>1, <1>2, <1>3, ReconcileMiss, AdvanceMiss, ApplyOneMiss DEF Next

\* For any flows, number of rounds and interleaving with the packet path and
\* the collector: build_reconcile_plan has a conntrack entry removed as stale
\* only after StaleReconciles reconciles in a row that did not observe its flow.
THEOREM StaleOnlyAfterMisses == Spec => StaleNeedsMisses
<1>1. TInv /\ MissInv /\ [Next]_vars =>
        [\A f \in Flow : (pc = Unseed /\ f \in todo \ todo' /\ f \in cCt \ cCt')
            => misses[f] >= StaleReconciles]_vars
  BY DEF MissInv, Idle, Unseed
<1>. QED
  BY InitTInv, NextTInv, InitMiss, NextMiss, <1>1, PTL DEF Spec, StaleNeedsMisses

-----------------------------------------------------------------------------
(***************************************************************************)
(* A clean reconcile.  Besides the protection of the ports, the invariant  *)
(* follows the whitelists through their four stages, and the limits behind *)
(* the first three, which a view write may lose with the entry.            *)
(***************************************************************************)

\* Without drift a whitelist is cached as it is, but for the ports that a read
\* has missed.
WlSync == (up /\ ~drifted) => cWl \subseteq kWl /\ kWl \subseteq cWl \cup unread

\* As long as no failure was counted, the ports a stage has dealt with are on
\* the whitelists as desired; a port still to be closed is in the plan.
WlInv ==
    Clean =>
        /\ \A p \in TcpPort \ desired.wl : Dealt(p, CloseTcp) => p \notin cWl
        /\ \A p \in UdpPort \ desired.wl :
             IF Dealt(p, CloseUdp) THEN p \notin cWl ELSE p \in cWl => p \in plan.close
        /\ \A p \in SctpPort : Dealt(p, Sctp) => ((p \in desired.wl) <=> (p \in cWl))
        /\ \A p \in PolPort \cap desired.wl : Dealt(p, Open) => p \in cWl

TailField == Field \ HeadField

\* A UDP port has none of the limits behind the first three.
UdpNoTail ==
    \A p \in UdpPort, f \in TailField : LimitOf(kPol[p], f) = 0 /\ LimitOf(cPol[p], f) = 0

\* One that is not as desired was dropped with its entry, or is still to be
\* written, in stage f + 7.
TailInv ==
    Clean => \A p \in TcpPort \cap desired.wl, f \in TailField :
                \/ LimitOf(cPol[p], f) \in {0, desired.lim[p][f]}
                \/ p \in plan.view[f] /\ ~Dealt(p, f + 7)

QInv == PInv /\ WlSync /\ WlInv /\ UdpNoTail /\ TailInv

\* A view write leaves every other limit as it is, or drops it.
LEMMA ViewWriteTail ==
  ASSUME NEW pol \in Policy \cup {None}, NEW f \in Field, NEW v \in Limit, NEW x \in Prefix,
         NEW g \in Field
  PROVE  LimitOf(ViewWrite(pol, f, v, x), g) \in {0, IF g = f THEN v ELSE LimitOf(pol, g)}
<1>. DEFINE current == IF pol = None THEN [lim |-> [h \in Field |-> 0], pfx |-> x] ELSE pol
            updated == [lim |-> [current.lim EXCEPT ![f] = v], pfx |-> current.pfx]
<1>1. current.lim \in [Field -> Limit] /\ current.pfx \in Prefix
  BY ValueAssumption DEF Policy
<1>2. current.lim[g] = LimitOf(pol, g)
  BY DEF LimitOf
<1>. HIDE DEF current
<1>3. updated \in Policy /\ updated # None /\ updated.lim[g] = IF g = f THEN v ELSE LimitOf(pol, g)
  BY <1>1, <1>2, ValueAssumption DEF Policy
<1>4. ViewWrite(pol, f, v, x) = IF \A h \in HeadField : updated.lim[h] = 0 THEN None ELSE updated
  BY DEF ViewWrite, current
<1>. HIDE DEF updated
<1>. QED
  BY <1>3, <1>4 DEF LimitOf

LEMMA InitQ == Init => QInv
<1>. SUFFICES ASSUME Init PROVE QInv
  OBVIOUS
<1>1. PInv
  BY InitP
<1>2. WlSync /\ ~Clean
  BY DEF Init, WlSync, Clean
<1>3. UdpNoTail
  BY DEF Init, UdpNoTail, LimitOf, PolPort
<1>. QED
  BY <1>1, <1>2, <1>3 DEF QInv, WlInv, TailInv

\* Between two reconciles only the caches and the kernel matter.
LEMMA IdleQ ==
  ASSUME pc' = Idle, PInv', WlSync', UdpNoTail'
  PROVE  QInv'
  BY DEF QInv, WlInv, TailInv, Clean

LEMMA LifeCycleQ ==
  ASSUME QInv, PInv', BackendInit \/ BackendGone \/ VerifyKernelState \/ RunCtGc
  PROVE  QInv'
<1>1. pc' = Idle
  BY DEF QInv, PInv, TInv, TodoOK, BackendInit, BackendGone, VerifyKernelState, RunCtGc, callVars
<1>2. WlSync'
  <2>1. CASE BackendInit \/ VerifyKernelState
    <3>1. PICK missed \in SUBSET Missable : \E read : Load(missed, read)
      BY <2>1 DEF BackendInit, VerifyKernelState
    <3>2. kWl' = kWl
      BY <2>1 DEF BackendInit, VerifyKernelState, kernelVars
    <3>. QED
      BY <3>1, <3>2 DEF WlSync, Load
  <2>2. CASE BackendGone
    BY <2>2 DEF BackendGone, WlSync
  <2>3. CASE RunCtGc
    BY <2>3 DEF RunCtGc, QInv, WlSync, callVars, envVars
  <2>. QED
    BY <2>1, <2>2, <2>3
<1>3. UdpNoTail'
  <2>1. kPol' = kPol /\ \A p \in PolPort : cPol'[p] \in {kPol[p], cPol[p], None}
    BY DEF BackendInit, BackendGone, VerifyKernelState, RunCtGc, Load, kernelVars
  <2>2. UdpPort \subseteq PolPort
    BY DEF PolPort
  <2>. QED
    BY <2>1, <2>2 DEF QInv, UdpNoTail, LimitOf
<1>. QED
  BY <1>1, <1>2, <1>3, IdleQ

LEMMA EnvironmentQ ==
  ASSUME QInv, PInv', ChangeTarget \/ PacketPath \/ Drift \/ UNCHANGED vars
  PROVE  QInv'
<1>1. UNCHANGED <<up, pc, todo, desired, plan, failures, unread, cWl, cPol>>
  BY DEF ChangeTarget, PacketPath, Drift, daemonVars, cacheVars, vars
<1>2. WlInv' /\ TailInv'
  BY <1>1 DEF QInv, WlInv, TailInv, Clean, Dealt
<1>3. WlSync'
  BY <1>1 DEF QInv, WlSync, ChangeTarget, PacketPath, Drift, vars, kernelVars
<1>4. UdpNoTail'
  <2>1. \A p \in PolPort : kPol'[p] \in {kPol[p], None}
    BY DEF ChangeTarget, PacketPath, Drift, vars, kernelVars, QInv, PInv, TInv, TypeOK, KernelType
  <2>2. UdpPort \subseteq PolPort
    BY DEF PolPort
  <2>. QED
    BY <1>1, <2>1, <2>2 DEF QInv, UdpNoTail, LimitOf
<1>. QED
  BY <1>2, <1>3, <1>4 DEF QInv

\* The plan closes what is not desired, and writes the limits that differ.
LEMMA ReconcileQ ==
  ASSUME QInv, PInv', Reconcile
  PROVE  QInv'
<1>1. /\ pc' = CloseTcp /\ desired' = target /\ failures' = 0
      /\ todo' = (cWl \ target.wl) \cap TcpPort
      /\ plan'.close = cWl \ target.wl
      /\ plan'.view = [f \in Field |-> ViewPlan(cPol, target, f)]
      /\ UNCHANGED <<up, drifted, kWl, kPol, cWl, cPol>>
  BY DEF Reconcile, kernelVars
<1>2. WlSync' /\ UdpNoTail'
  <2>1. \A y \in Port : y \in unread => y \in unread'
    BY KeyAssumption DEF Reconcile, Aux
  <2>2. kWl \subseteq Port
    BY DEF QInv, PInv, TInv, TypeOK, KernelType
  <2>3. WlSync'
    BY <1>1, <2>1, <2>2 DEF QInv, WlSync
  <2>4. UdpNoTail'
    BY <1>1 DEF QInv, UdpNoTail
  <2>. QED
    BY <2>3, <2>4
<1>3. WlInv'
  BY <1>1 DEF WlInv, Dealt, CloseTcp, CloseUdp, Sctp, Open
<1>4. TailInv'
  <2>1. ASSUME NEW p \in TcpPort \cap target.wl, NEW f \in TailField
        PROVE  LimitOf(cPol[p], f) = target.lim[p][f] \/ p \in plan'.view[f]
    BY <1>1 DEF ViewPlan, TailField, PolPort, FieldsOf
  <2>2. \A f \in TailField : f + 7 > CloseTcp /\ f \in Nat
    BY DEF TailField, Field, HeadField, CloseTcp
  <2>3. \A p : \A f \in TailField : ~Dealt(p, f + 7)'
    BY <1>1, <2>2 DEF Dealt, CloseTcp
  <2>. QED
    BY <1>1, <2>1, <2>3 DEF TailInv
<1>. QED
  BY <1>2, <1>3, <1>4 DEF QInv

LEMMA AdvanceQ ==
  ASSUME QInv, PInv', Advance
  PROVE  QInv'
<1>t. TypeOK
  BY DEF QInv, PInv, TInv
<1>1. /\ UNCHANGED <<up, desired, plan, failures, drifted, kWl, kPol, cWl, cPol>>
      /\ todo = {} /\ pc \in CloseTcp..Open
  BY <1>t DEF Advance, kernelVars, cacheVars, envVars, TypeOK, CallType, Idle, CloseTcp, Open
<1>2. WlSync' /\ UdpNoTail'
  <2>1. \A y \in Port : y \in unread => y \in unread'
    BY KeyAssumption DEF Advance, Aux
  <2>2. kWl \subseteq Port
    BY <1>t DEF TypeOK, KernelType
  <2>3. WlSync'
    BY <1>1, <2>1, <2>2 DEF QInv, WlSync
  <2>4. UdpNoTail'
    BY <1>1 DEF QInv, UdpNoTail
  <2>. QED
    BY <2>3, <2>4
<1>3. CASE pc = Open
  <2>1. pc' = Idle
    BY <1>3 DEF Advance
  <2>. QED
    BY <2>1, <1>2, IdleQ
<1>4. CASE pc # Open
  <2>1. PICK blind : pc' = pc + 1 /\ todo' = Work(pc + 1, blind) /\ pc \in 1..21
    BY <1>1, <1>4 DEF Advance, CloseTcp, Open
  <2>2. Clean' => Clean
    BY <1>1, <2>1 DEF Clean, Idle
  <2>3. /\ Work(CloseUdp, blind) = plan.close \cap UdpPort
        /\ Work(Sctp, blind) = {p \in SctpPort : (p \in desired.wl) # (p \in cWl)}
        /\ Work(Open, blind) = ToOpen
    BY DEF Work, CloseUdp, Sctp, PurgeTcp, PurgeUdp, Seed, Unseed, View, Outer, Prefixes,
           RlStage, Open
  <2>4. \A y : \A i \in 1..22 : Dealt(y, i)' /\ pc + 1 # i => Dealt(y, i)
    BY <1>1, <2>1 DEF Dealt
  <2>5. \A y : \A i \in 1..22 : Dealt(y, i) => Dealt(y, i)'
    BY <1>1, <2>1 DEF Dealt
  <2>6. ASSUME Clean'
        PROVE  /\ \A p \in TcpPort \ desired.wl : Dealt(p, CloseTcp)' => p \notin cWl
               /\ \A p \in UdpPort \ desired.wl :
                    IF Dealt(p, CloseUdp)' THEN p \notin cWl ELSE p \in cWl => p \in plan.close
               /\ \A p \in SctpPort : Dealt(p, Sctp)' => ((p \in desired.wl) <=> (p \in cWl))
               /\ \A p \in PolPort \cap desired.wl : Dealt(p, Open)' => p \in cWl
    <3>1. /\ \A p \in TcpPort \ desired.wl : Dealt(p, CloseTcp) => p \notin cWl
          /\ \A p \in UdpPort \ desired.wl :
               IF Dealt(p, CloseUdp) THEN p \notin cWl ELSE p \in cWl => p \in plan.close
          /\ \A p \in SctpPort : Dealt(p, Sctp) => ((p \in desired.wl) <=> (p \in cWl))
          /\ \A p \in PolPort \cap desired.wl : Dealt(p, Open) => p \in cWl
      BY <2>2, <2>6 DEF QInv, WlInv
    <3>2. \A p \in TcpPort \ desired.wl : Dealt(p, CloseTcp)' => p \notin cWl
      BY <3>1, <2>1, <2>4 DEF CloseTcp
    <3>3. ASSUME NEW p \in UdpPort \ desired.wl
          PROVE  IF Dealt(p, CloseUdp)' THEN p \notin cWl ELSE p \in cWl => p \in plan.close
      <4>1. CASE pc + 1 = CloseUdp
        <5>1. ~Dealt(p, CloseUdp)
          BY <4>1, <2>1 DEF Dealt, CloseUdp
        <5>2. Dealt(p, CloseUdp)' => p \notin plan.close
          BY <4>1, <2>1, <2>3 DEF Dealt, CloseUdp
        <5>. QED
          BY <3>1, <5>1, <5>2
      <4>2. CASE pc + 1 # CloseUdp
        BY <3>1, <4>2, <2>4, <2>5 DEF CloseUdp
      <4>. QED
        BY <4>1, <4>2
    <3>4. ASSUME NEW p \in SctpPort, Dealt(p, Sctp)'
          PROVE  (p \in desired.wl) <=> (p \in cWl)
      <4>1. CASE pc + 1 = Sctp
        BY <3>4, <4>1, <2>1, <2>3 DEF Dealt, Sctp
      <4>2. CASE pc + 1 # Sctp
        BY <3>1, <3>4, <4>2, <2>4 DEF Sctp
      <4>. QED
        BY <4>1, <4>2
    <3>5. ASSUME NEW p \in PolPort \cap desired.wl, Dealt(p, Open)'
          PROVE  p \in cWl
      <4>1. pc + 1 = Open /\ p \notin Work(Open, blind) /\ failures = 0
        BY <3>5, <2>1, <2>2, <2>6 DEF Dealt, Open, Clean
      <4>. QED
        BY <4>1, <2>3 DEF ToOpen
    <3>. QED
      BY <3>2, <3>3, <3>4, <3>5
  <2>7. WlInv'
    BY <1>1, <2>6 DEF WlInv
  <2>8. TailInv'
    <3>1. \A i \in View : Work(i, blind) = plan.view[ViewField(i)] \cap ViewPorts(i)
      BY DEF Work, PurgeTcp, PurgeUdp, Seed, Unseed, CloseUdp, Sctp, View, Outer, Prefixes,
             RlStage, Open
    <3>2. \A f \in TailField : f + 7 \in View /\ f + 7 \in 1..22 /\ ViewField(f + 7) = f
                               /\ ViewPorts(f + 7) = TcpPort
      BY DEF TailField, Field, HeadField, View, ViewField, ViewPorts
    <3>3. ASSUME NEW p \in TcpPort, NEW f \in TailField, p \in plan.view[f], ~Dealt(p, f + 7)
          PROVE  ~Dealt(p, f + 7)'
      <4>1. CASE pc + 1 = f + 7
        <5>1. p \in Work(f + 7, blind)
          BY <3>1, <3>2, <3>3
        <5>2. pc' = f + 7 /\ p \in todo' /\ f + 7 \in Nat
          BY <2>1, <4>1, <5>1, <3>2
        <5>. QED
          BY <5>2 DEF Dealt
      <4>2. CASE pc + 1 # f + 7
        BY <2>4, <3>2, <3>3, <4>2
      <4>. QED
        BY <4>1, <4>2
    <3>. QED
      BY <1>1, <2>2, <3>3 DEF QInv, TailInv
  <2>. QED
    BY <1>2, <2>7, <2>8 DEF QInv
<1>. QED
  BY <1>3, <1>4

\* What an update of any map does to the progress of the reconcile.
LEMMA ItemQ ==
  ASSUME QInv, NEW x \in todo, todo' = todo \ {x}, UNCHANGED <<callVars, envVars>>,
         failures' \in {failures, failures + 1}
  PROVE  /\ UNCHANGED <<up, pc, desired, plan, drifted>>
         /\ Clean' => Clean /\ failures' = failures
         /\ \A y, i : Dealt(y, i)' <=> (Dealt(y, i) \/ (y = x /\ pc = i))
<1>1. UNCHANGED <<up, pc, desired, plan, drifted>> /\ failures \in Nat /\ pc \in Nat
  BY DEF callVars, envVars, QInv, PInv, TInv, TypeOK, CallType, Idle, Open
<1>2. Clean' => Clean /\ failures' = failures
  BY <1>1 DEF Clean
<1>3. \A y, i : Dealt(y, i)' <=> (Dealt(y, i) \/ (y = x /\ pc = i))
  BY <1>1 DEF Dealt
<1>. QED
  BY <1>1, <1>2, <1>3

\* Updates of other maps than the whitelists.
LEMMA OtherWl ==
  ASSUME QInv, NEW x \in todo, todo' = todo \ {x}, UNCHANGED <<callVars, envVars>>,
         failures' \in {failures, failures + 1}, UNCHANGED <<kWl, cWl>>,
         \A y \in Port : y \in unread => y \in unread',
         pc \notin {CloseTcp, CloseUdp, Sctp, Open}
  PROVE  WlSync' /\ WlInv'
<1>1. /\ UNCHANGED <<up, pc, desired, plan, drifted>>
      /\ Clean' => Clean
      /\ \A y, i : Dealt(y, i)' <=> (Dealt(y, i) \/ (y = x /\ pc = i))
  BY ItemQ
<1>2. \A y : \A i \in {CloseTcp, CloseUdp, Sctp, Open} : Dealt(y, i)' <=> Dealt(y, i)
  BY <1>1
<1>3. WlInv'
  BY <1>1, <1>2 DEF QInv, WlInv
<1>4. WlSync'
  <2>1. kWl \subseteq Port
    BY DEF QInv, PInv, TInv, TypeOK, KernelType
  <2>. QED
    BY <1>1, <2>1 DEF QInv, WlSync
<1>. QED
  BY <1>3, <1>4

\* Updates of other maps than the policies.
LEMMA OtherTail ==
  ASSUME QInv, NEW x \in todo, todo' = todo \ {x}, UNCHANGED <<callVars, envVars>>,
         failures' \in {failures, failures + 1}, UNCHANGED <<kPol, cPol>>, pc \notin View
  PROVE  UdpNoTail' /\ TailInv'
<1>1. /\ UNCHANGED <<up, pc, desired, plan, drifted>>
      /\ Clean' => Clean
      /\ \A y, i : Dealt(y, i)' <=> (Dealt(y, i) \/ (y = x /\ pc = i))
  BY ItemQ
<1>2. \A f \in TailField : pc # f + 7
  BY DEF TailField, Field, HeadField, View
<1>3. \A y : \A f \in TailField : Dealt(y, f + 7)' <=> Dealt(y, f + 7)
  BY <1>1, <1>2
<1>4. TailInv'
  BY <1>1, <1>3 DEF QInv, TailInv
<1>5. UdpNoTail'
  BY DEF QInv, UdpNoTail
<1>. QED
  BY <1>4, <1>5

\* A port is set as desired, or the failure is counted.
LEMMA SetPortQ ==
  ASSUME QInv, PInv', NEW x \in todo, NEW ok \in BOOLEAN, SetPort(x, ok)
  PROVE  QInv'
<1>1. /\ UNCHANGED <<up, pc, desired, plan, drifted>>
      /\ Clean' => Clean /\ failures' = failures
      /\ \A y, i : Dealt(y, i)' <=> (Dealt(y, i) \/ (y = x /\ pc = i))
  BY ItemQ DEF SetPort, Counted
<1>2. UdpNoTail' /\ TailInv'
  <2>1. pc \notin View
    BY DEF SetPort, View, CloseTcp, CloseUdp, Sctp, Open
  <2>. QED
    BY <2>1, OtherTail DEF SetPort, Counted
<1>3. /\ kWl' = IF ok THEN IF x \in desired.wl THEN kWl \cup {x} ELSE kWl \ {x} ELSE kWl
      /\ cWl' = IF ok THEN IF x \in desired.wl THEN cWl \cup {x} ELSE cWl \ {x} ELSE cWl
      /\ failures' = IF ok THEN failures ELSE failures + 1
      /\ unread' = IF ok THEN unread \ {x} ELSE unread
  BY DEF SetPort, Counted, Noted
<1>4. WlSync'
  BY <1>1, <1>3 DEF QInv, WlSync
<1>5. WlInv'
  <2>. SUFFICES ASSUME Clean' PROVE WlInv'
    BY DEF WlInv
  <2>1. Clean /\ ok
    <3>1. failures \in Nat
      BY DEF QInv, PInv, TInv, TypeOK, CallType
    <3>. QED
      BY <3>1, <1>1, <1>3
  <2>2. \A p : (p \in cWl') <=> IF p = x THEN p \in desired.wl ELSE p \in cWl
    BY <1>3, <2>1
  <2>3. /\ \A p \in TcpPort \ desired.wl : Dealt(p, CloseTcp) => p \notin cWl
        /\ \A p \in UdpPort \ desired.wl :
             IF Dealt(p, CloseUdp) THEN p \notin cWl ELSE p \in cWl => p \in plan.close
        /\ \A p \in SctpPort : Dealt(p, Sctp) => ((p \in desired.wl) <=> (p \in cWl))
        /\ \A p \in PolPort \cap desired.wl : Dealt(p, Open) => p \in cWl
    BY <2>1 DEF QInv, WlInv
  <2>4. \A p, i : p # x => (Dealt(p, i)' <=> Dealt(p, i))
    BY <1>1
  <2>. QED
    BY <1>1, <2>2, <2>3, <2>4 DEF WlInv
<1>. QED
  BY <1>2, <1>4, <1>5 DEF QInv

\* A view write sets its own limit as desired, or drops the entry.
LEMMA WriteViewQ ==
  ASSUME QInv, PInv', NEW x \in todo, NEW ok \in BOOLEAN, WriteView(x, ok)
  PROVE  QInv'
<1>. DEFINE fld == ViewField(pc)
            v   == IF x \in desired.wl THEN desired.lim[x][fld] ELSE 0
            new == ViewWrite(cPol[x], fld, v, desired.pfx)
<1>t. KernelType /\ CacheType /\ CallType /\ TodoOK
  BY DEF QInv, PInv, TInv, TypeOK
<1>1. /\ UNCHANGED <<up, pc, desired, plan, drifted>>
      /\ Clean' => Clean /\ failures' = failures
      /\ \A y, i : Dealt(y, i)' <=> (Dealt(y, i) \/ (y = x /\ pc = i))
  BY ItemQ DEF WriteView, Counted
<1>2. /\ pc \in View
      /\ kPol' = IF ok THEN [kPol EXCEPT ![x] = new] ELSE kPol
      /\ cPol' = IF ok THEN [cPol EXCEPT ![x] = new] ELSE cPol
      /\ failures' = IF ok THEN failures ELSE failures + 1
  BY DEF WriteView, Counted
<1>3. x \in PolPort /\ x \in ViewPorts(pc) /\ fld \in FieldsOf(x) /\ fld \in Field
  <2>1. x \in ViewPorts(pc)
    BY <1>t, <1>2, ScopeValues DEF TodoOK
  <2>2. x \in PolPort /\ fld \in FieldsOf(x) /\ fld \in Field
    BY <2>1, <1>2, PortAssumption DEF ViewPorts, ViewField, FieldsOf, Field, UdpField, PolPort, View
  <2>. QED
    BY <2>1, <2>2
<1>4. v \in Limit /\ desired.pfx \in Prefix
  BY <1>t, <1>3, DesiredType, ValueAssumption DEF CallType
<1>5. \A g \in Field : LimitOf(new, g) \in {0, IF g = fld THEN v ELSE LimitOf(cPol[x], g)}
  <2>1. cPol[x] \in Policy \cup {None}
    BY <1>3, <1>t DEF CacheType
  <2>. HIDE DEF v, fld
  <2>. QED
    BY <2>1, <1>3, <1>4, ViewWriteTail
<1>6. \A f \in TailField : f \in Field /\ (pc = f + 7 => f = fld)
  BY <1>2 DEF TailField, Field, HeadField, ViewField, View
<1>7. WlSync' /\ WlInv'
  <2>1. pc \notin {CloseTcp, CloseUdp, Sctp, Open}
    BY <1>2 DEF View, CloseTcp, CloseUdp, Sctp, Open
  <2>. QED
    BY <2>1, OtherWl DEF WriteView, Counted
<1>8. kPol \in [PolPort -> Policy \cup {None}] /\ cPol \in [PolPort -> Policy \cup {None}]
  BY <1>t DEF KernelType, CacheType
<1>. HIDE DEF new
<1>9. \A p \in PolPort : IF ok /\ p = x THEN kPol'[p] = new /\ cPol'[p] = new
                                        ELSE kPol'[p] = kPol[p] /\ cPol'[p] = cPol[p]
  BY <1>2, <1>8
<1>10. UdpNoTail'
  <2>1. x \in UdpPort => fld \notin TailField
    BY <1>3, PortAssumption DEF FieldsOf, UdpField, TailField, HeadField
  <2>2. ASSUME NEW f \in TailField, x \in UdpPort
        PROVE  LimitOf(new, f) = 0
    BY <1>5, <1>6, <2>1, <2>2 DEF QInv, UdpNoTail
  <2>3. UdpPort \subseteq PolPort
    BY DEF PolPort
  <2>. QED
    BY <1>9, <2>2, <2>3 DEF QInv, UdpNoTail
<1>11. TailInv'
  <2>. SUFFICES ASSUME Clean', NEW p \in TcpPort \cap desired.wl, NEW f \in TailField
                PROVE  \/ LimitOf(cPol'[p], f) \in {0, desired.lim[p][f]}
                       \/ p \in plan.view[f] /\ ~Dealt(p, f + 7)'
    BY <1>1 DEF TailInv
  <2>1. ok /\ Clean
    BY <1>1, <1>2, <1>t DEF CallType
  <2>2. \/ LimitOf(cPol[p], f) \in {0, desired.lim[p][f]}
        \/ p \in plan.view[f] /\ ~Dealt(p, f + 7)
    BY <2>1 DEF QInv, TailInv
  <2>3. p \in PolPort
    BY DEF PolPort
  <2>4. CASE p # x
    BY <2>2, <2>3, <2>4, <1>1, <1>9
  <2>5. CASE p = x /\ f = fld
    <3>1. LimitOf(new, f) \in {0, v} /\ v = desired.lim[p][f]
      BY <2>5, <1>5, <1>6
    <3>. QED
      BY <3>1, <2>1, <2>3, <2>5, <1>9
  <2>6. CASE p = x /\ f # fld
    <3>1. LimitOf(new, f) \in {0, LimitOf(cPol[p], f)}
      BY <2>6, <1>5, <1>6
    <3>2. ~Dealt(p, f + 7) => ~Dealt(p, f + 7)'
      BY <2>6, <1>1, <1>6
    <3>3. cPol'[p] = new
      BY <2>1, <2>3, <2>6, <1>9
    <3>. QED
      BY <3>1, <3>2, <3>3, <2>2
  <2>. QED
    BY <2>4, <2>5, <2>6
<1>. QED
  BY <1>7, <1>10, <1>11 DEF QInv

\* ensure_prefixes keeps every limit.
LEMMA WritePrefixQ ==
  ASSUME QInv, PInv', NEW x \in todo, NEW ok \in BOOLEAN, WritePrefix(x, ok)
  PROVE  QInv'
<1>. DEFINE new == [lim |-> cPol[x].lim, pfx |-> desired.pfx]
<1>t. KernelType /\ CacheType /\ CallType /\ TodoOK
  BY DEF QInv, PInv, TInv, TypeOK
<1>1. /\ UNCHANGED <<up, pc, desired, plan, drifted>>
      /\ Clean' => Clean
      /\ \A y, i : Dealt(y, i)' <=> (Dealt(y, i) \/ (y = x /\ pc = i))
  BY ItemQ DEF WritePrefix
<1>2. /\ pc = Prefixes
      /\ kPol' = IF ok THEN [kPol EXCEPT ![x] = new] ELSE kPol
      /\ cPol' = IF ok THEN [cPol EXCEPT ![x] = new] ELSE cPol
  BY DEF WritePrefix
<1>3. x \in PolPort /\ cPol[x] \in Policy /\ cPol[x] # None
  BY <1>2, <1>t, ScopeValues DEF TodoOK, CacheType
<1>4. new # None /\ \A f : LimitOf(new, f) = LimitOf(cPol[x], f)
  <2>1. desired.pfx \in Prefix
    BY <1>t, DesiredType DEF CallType
  <2>2. new \in Policy /\ new.lim = cPol[x].lim
    BY <2>1, <1>3 DEF Policy
  <2>. QED
    BY <2>2, <1>3, ValueAssumption DEF LimitOf
<1>5. kPol \in [PolPort -> Policy \cup {None}] /\ cPol \in [PolPort -> Policy \cup {None}]
  BY <1>t DEF KernelType, CacheType
<1>. HIDE DEF new
<1>6. \A p \in PolPort : /\ kPol'[p] = kPol[p] \/ (p = x /\ kPol'[p] = new)
                         /\ cPol'[p] = cPol[p] \/ (p = x /\ cPol'[p] = new)
  BY <1>2, <1>5
<1>7. WlSync' /\ WlInv'
  <2>1. pc \notin {CloseTcp, CloseUdp, Sctp, Open}
    BY <1>2 DEF Prefixes, CloseTcp, CloseUdp, Sctp, Open
  <2>. QED
    BY <2>1, OtherWl DEF WritePrefix
<1>8. UdpNoTail'
  <2>1. UdpPort \subseteq PolPort
    BY DEF PolPort
  <2>. QED
    BY <2>1, <1>4, <1>6 DEF QInv, UdpNoTail
<1>9. TailInv'
  <2>1. \A p \in TcpPort : \A f : LimitOf(cPol'[p], f) = LimitOf(cPol[p], f)
    BY <1>4, <1>6 DEF PolPort
  <2>2. \A y : \A f \in TailField : Dealt(y, f + 7)' <=> Dealt(y, f + 7)
    BY <1>1, <1>2 DEF TailField, Field, HeadField, Prefixes
  <2>. QED
    BY <1>1, <2>1, <2>2 DEF QInv, TailInv
<1>. QED
  BY <1>7, <1>8, <1>9 DEF QInv

\* Conntrack, inner maps and auxiliary maps.
LEMMA OtherQ ==
  ASSUME QInv, PInv', NEW x \in todo, NEW ok \in BOOLEAN,
         DeleteFlow(x, ok) \/ SeedFlow(x, ok) \/ WriteSlot(x, ok) \/ WriteAux(x, ok)
  PROVE  QInv'
<1>1. /\ todo' = todo \ {x} /\ UNCHANGED <<callVars, envVars, kWl, cWl, kPol, cPol>>
      /\ failures' \in {failures, failures + 1}
  BY DEF DeleteFlow, SeedFlow, WriteSlot, WriteAux, Counted
<1>2. pc \in {PurgeTcp, PurgeUdp, Unseed, Seed, Outer, Trust, AclStage, RtStage, RlStage, SitStage}
  BY DEF DeleteFlow, SeedFlow, WriteSlot, WriteAux
<1>3. pc \notin {CloseTcp, CloseUdp, Sctp, Open} /\ pc \notin View
  BY <1>2 DEF PurgeTcp, PurgeUdp, Unseed, Seed, Outer, Trust, AclStage, RtStage, RlStage,
              SitStage, CloseTcp, CloseUdp, Sctp, Open, View
<1>u. \A y \in Port : y \in unread => y \in unread'
  <2>1. CASE DeleteFlow(x, ok) \/ SeedFlow(x, ok)
    BY <2>1 DEF DeleteFlow, SeedFlow
  <2>2. CASE WriteSlot(x, ok) \/ WriteAux(x, ok)
    <3>1. x \in Slot \cup Aux
      BY <2>2, ScopeValues DEF WriteSlot, WriteAux, QInv, PInv, TInv, TodoOK
    <3>2. unread' \in {unread, unread \ {x}}
      BY <2>2 DEF WriteSlot, WriteAux, Noted
    <3>. QED
      BY <3>1, <3>2, KeyAssumption
  <2>. QED
    BY <2>1, <2>2
<1>4. WlSync' /\ WlInv'
  BY <1>1, <1>3, <1>u, OtherWl
<1>5. UdpNoTail' /\ TailInv'
  BY <1>1, <1>3, OtherTail
<1>. QED
  BY <1>4, <1>5 DEF QInv

LEMMA NextQ == QInv /\ [Next]_vars => QInv'
<1>. SUFFICES ASSUME QInv, [Next]_vars PROVE QInv'
  OBVIOUS
<1>1. PInv'
  BY NextP DEF QInv
<1>2. CASE ApplyOne
  <2>. PICK x \in todo, ok \in BOOLEAN :
         \/ SetPort(x, ok)   \/ DeleteFlow(x, ok)  \/ SeedFlow(x, ok) \/ WriteView(x, ok)
         \/ WriteSlot(x, ok) \/ WritePrefix(x, ok) \/ WriteAux(x, ok)
    BY <1>2 DEF ApplyOne
  <2>. QED
    BY <1>1, SetPortQ, WriteViewQ, WritePrefixQ, OtherQ
<1>. QED
  BY <1>1, <1>2, LifeCycleQ, EnvironmentQ, ReconcileQ, AdvanceQ DEF Next

\* For any ports, limits, maps and faults: when apply_reconcile_plan comes to
\* its end and reports no failure, the desired ports are open, each with its
\* limits and inner maps, every wanted entry of the other maps is in force, and
\* nothing else is left in the kernel but what a failed read has missed.
THEOREM CleanConverges == Spec => []CleanReconcileConverges
<1>1. ASSUME QInv, pc = Open, todo = {}, failures = 0, ~drifted
      PROVE  /\ desired.wl \subseteq kWl /\ kWl \subseteq desired.wl \cup unread
             /\ \A p \in PolPort \cap desired.wl :
                  /\ Protected(p)
                  /\ \A f \in Field \ HeadField : LimitOf(kPol[p], f) \in {0, desired.lim[p][f]}
             /\ \A k \in Managed : AuxInForce(k)
  <2>1. Clean /\ up /\ PInv
    BY <1>1 DEF Clean, QInv, PInv, TInv, TodoOK, Open, Idle
  <2>2. /\ \A p \in PolPort \cap desired.wl : Protected(p) /\ cPol[p] = kPol[p]
        /\ \A k \in Managed : AuxInForce(k)
    BY <1>1, <2>1, ReadyToOpen
  <2>3. desired.wl \subseteq kWl /\ kWl \subseteq desired.wl \cup unread
    <3>1. cWl \subseteq kWl /\ kWl \subseteq cWl \cup unread
      BY <1>1, <2>1 DEF QInv, WlSync
    <3>2. \A p : Dealt(p, CloseTcp) /\ Dealt(p, CloseUdp) /\ Dealt(p, Sctp) /\ Dealt(p, Open)
      BY <1>1 DEF Dealt, CloseTcp, CloseUdp, Sctp, Open
    <3>3. /\ \A p \in PolPort : (p \in desired.wl) <=> (p \in cWl)
          /\ \A p \in SctpPort : (p \in desired.wl) <=> (p \in cWl)
      BY <1>1, <2>1, <3>2 DEF QInv, WlInv, PolPort
    <3>4. cWl \subseteq Port /\ desired.wl \subseteq Port
      BY <2>1, DesiredType DEF PInv, TInv, TypeOK, CacheType, CallType
    <3>5. cWl = desired.wl
      BY <3>3, <3>4 DEF Port, PolPort
    <3>. QED
      BY <3>1, <3>5
  <2>4. ASSUME NEW p \in PolPort \cap desired.wl, NEW f \in TailField
        PROVE  LimitOf(kPol[p], f) \in {0, desired.lim[p][f]}
    <3>1. CASE p \in TcpPort
      <4>1. Dealt(p, f + 7)
        BY <1>1 DEF Dealt, TailField, Field, HeadField, Open
      <4>2. LimitOf(cPol[p], f) \in {0, desired.lim[p][f]}
        BY <1>1, <2>1, <3>1, <4>1 DEF QInv, TailInv
      <4>. QED
        BY <2>2, <4>2
    <3>2. CASE p \in UdpPort
      BY <1>1, <3>2 DEF QInv, UdpNoTail
    <3>. QED
      BY <3>1, <3>2 DEF PolPort
  <2>. QED
    BY <2>2, <2>3, <2>4 DEF TailField
<1>2. QInv => CleanReconcileConverges
  BY <1>1 DEF CleanReconcileConverges
<1>. QED
  BY InitQ, NextQ, <1>2, PTL DEF Spec
=============================================================================
