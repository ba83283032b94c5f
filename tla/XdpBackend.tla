----------------------------- MODULE XdpBackend -----------------------------
(***************************************************************************)
(* The XDP backend of the sync daemon (auto_xdp/backends/xdp.py) with the  *)
(* BPF map wrappers it writes through (auto_xdp/bpf/maps.py).              *)
(*                                                                         *)
(* The kernel maps (k...) are pinned and outlive the daemon; each wrapper  *)
(* keeps a cache (c...) that the reconcile plan is computed from.  One     *)
(* reconcile is a long series of single map syscalls: every syscall is a   *)
(* step here, it may fail, and between two of them the packet path, an     *)
(* administrator or a crash may change the picture.  The reads that fill   *)
(* the caches may fail as well, and then miss entries of the kernel.       *)
(*                                                                         *)
(* A port stands for a (protocol, number) pair.  A policy entry is the     *)
(* struct tcp_port_policy_cfg / udp_port_policy_cfg: limits at the field   *)
(* indices of the Python tuple (0 syn or packet rate, 1 aggregate rate,    *)
(* 2 connections per source, 5 per prefix, 6 per port) and the two source  *)
(* prefix lengths (3 and 4), which always change together.                 *)
(***************************************************************************)
EXTENDS Naturals, FiniteSets

CONSTANTS
    TcpPort, UdpPort, SctpPort,  \* ports by protocol, pairwise disjoint
    Limit,                       \* limit values; 0 is "off"
    Prefix,                      \* source prefix lengths
    Family,                      \* address families of the rate outer maps
    Cap,                         \* capacities of the per-port inner maps
    Trusted, Acl, Sit4,          \* keys of the maps of the same names
    Runtime, GlobalRl,           \* the key of xdp_runtime_cfg, of udp_global_rl
    AuxVal,                      \* values of these five maps
    Flow, FlowPort,              \* tracked flows, and the local port of each
    StaleReconciles,             \* cfg.XDP_CONNTRACK_STALE_RECONCILES
    DesiredStates,               \* what policy.resolve_desired_state may return
    None,                        \* no map entry
    MaxFaults, MaxChanges        \* bounds on faults and on target changes

Port    == TcpPort \cup UdpPort \cup SctpPort
PolPort == TcpPort \cup UdpPort
Slot    == PolPort \X Family
TcpFlow == {f \in Flow : FlowPort[f] \in TcpPort}

Field     == {0, 1, 2, 5, 6}
HeadField == {0, 1, 2}           \* fields[:3]
UdpField  == {0, 1}
FieldsOf(p) == IF p \in TcpPort THEN Field ELSE UdpField

Policy == [lim : [Field -> Limit], pfx : Prefix]
Aux    == Trusted \cup Acl \cup Sit4 \cup Runtime \cup GlobalRl

DesiredState ==
    [wl  : SUBSET Port,
     lim : [PolPort -> [Field -> Limit]],
     pfx : Prefix,
     cap : [Slot -> Cap],
     aux : [Aux -> AuxVal \cup {None}],
     ct  : SUBSET TcpFlow]

ASSUME PortAssumption ==
    /\ TcpPort \cap UdpPort = {}
    /\ PolPort \cap SctpPort = {}

\* The keys of different maps are different items.
ASSUME KeyAssumption ==
    /\ Port \cap (Slot \cup Aux) = {} /\ Slot \cap Aux = {}
    /\ (Runtime \cup GlobalRl) \cap (Trusted \cup Acl \cup Sit4) = {}
    /\ Runtime \cap GlobalRl = {}

ASSUME ValueAssumption ==
    /\ Limit \subseteq Nat
    /\ 0 \in Limit
    /\ None \notin Policy
    /\ None \notin Cap
    /\ None \notin AuxVal
    /\ FlowPort \in [Flow -> PolPort]
    /\ StaleReconciles \in Nat \ {0}
    /\ MaxFaults \in Nat
    /\ MaxChanges \in Nat

ASSUME DesiredAssumption ==
    /\ DesiredStates \subseteq DesiredState
    /\ \A d \in DesiredStates, p \in UdpPort, f \in Field \ UdpField : d.lim[p][f] = 0

VARIABLES
    kWl, kPol, kSlot, kAux, kCt,   \* kernel: whitelists, policies, inner maps, other maps, conntrack
    cWl, cPol, cSlot, cAux, cCt,   \* the daemon's caches of the same maps
    stale,                         \* _conntrack_stale_rounds
    up,                            \* the backend object is open
    sitOpen,                       \* its sit4_map is not None
    pc, todo,                      \* stage of apply_reconcile_plan, and what is left of it
    desired, plan,                 \* the arguments of apply_reconcile_plan
    failures,                      \* last_apply_failures
    target,                        \* the desired state discovery would yield now
    drifted,                       \* history: kernel changed behind the caches
    unread,                        \* history: kernel entries that a failed read missed
    misses,                        \* history: reconciles in a row that missed a flow
    faults, changes                \* how much of the bounds is used

kernelVars == <<kWl, kPol, kSlot, kAux, kCt>>
cacheVars  == <<cWl, cPol, cSlot, cAux, cCt>>
vars == <<kernelVars, cacheVars, stale, up, sitOpen, pc, todo, desired, plan, failures,
          target, drifted, unread, misses, faults, changes>>

-----------------------------------------------------------------------------
(* Stages of apply_reconcile_plan, in the order of the code. *)

Idle     == 0
CloseTcp == 1
PurgeTcp == 2
Seed     == 3
Unseed   == 4
CloseUdp == 5
PurgeUdp == 6
Sctp     == 7
Trust    == 8
View     == 9..15        \* five TCP views, then two UDP views
Outer    == 16
Prefixes == 17
AclStage == 18
RtStage  == 19
RlStage  == 20
SitStage == 21
Open     == 22

\* The views: BpfPortPolicyViewMap over one field of one of the policy maps.
ViewPorts(i) == IF i < 14 THEN TcpPort ELSE UdpPort
ViewField(i) == IF i < 14 THEN (IF i < 12 THEN i - 9 ELSE i - 7) ELSE i - 14

\* The lowest stage at which port p's policy is written.
FirstView(p) == IF p \in TcpPort THEN 9 ELSE 14

AuxKeys(i) == CASE i = Trust    -> Trusted
                [] i = AclStage -> Acl
                [] i = RtStage  -> Runtime
                [] i = SitStage -> IF sitOpen THEN Sit4 ELSE {}
                [] OTHER        -> {}

\* xdp_runtime_cfg has no cache: its stage asks the kernel, and a lookup of
\* the flags that fails counts as 0 (get_cfg_flags() or 0).
SeenAux(k, blind) == IF k \in blind THEN None ELSE IF k \in Runtime THEN kAux[k] ELSE cAux[k]

-----------------------------------------------------------------------------
(* The policy map and its views. *)

LimitOf(pol, f) == IF pol = None THEN 0 ELSE pol.lim[f]

\* BpfPortPolicyViewMap.set and .delete (a delete writes 0): read the cached
\* struct, or the default one, change one field, and drop the entry when the
\* first three fields are all zero.
ViewWrite(pol, f, v, pfx) ==
    LET current == IF pol = None THEN [lim |-> [g \in Field |-> 0], pfx |-> pfx] ELSE pol
        updated == [lim |-> [current.lim EXCEPT ![f] = v], pfx |-> current.pfx]
    IN  IF \A g \in HeadField : updated.lim[g] = 0 THEN None ELSE updated

\* Mutant: a desired 0 is taken for "nothing to write".
ViewPlanSkipsZero(cache, d, f) ==
    {p \in PolPort : f \in FieldsOf(p) /\
        IF p \in d.wl THEN d.lim[p][f] # 0 /\ LimitOf(cache[p], f) # d.lim[p][f]
                      ELSE LimitOf(cache[p], f) # 0}

\* active() leaves zeros out, so a desired 0 is always in the upserts.
\* _dict_upserts and _dict_removals for the view of field f.
ViewPlan(cache, d, f) ==
    {p \in PolPort : f \in FieldsOf(p) /\
        IF p \in d.wl THEN ~(LimitOf(cache[p], f) # 0 /\ LimitOf(cache[p], f) = d.lim[p][f])
                      ELSE LimitOf(cache[p], f) # 0}

\* Mutant: the inner map is created with the rate for its capacity.
SlotOfRate(d, s) == IF s[1] \in d.wl /\ d.lim[s[1]][0] # 0 THEN d.lim[s[1]][0] ELSE None

\* The inner map a port should have: only a port whose rate is not 0 has one.
WantedSlot(d, s) == IF s[1] \in d.wl /\ d.lim[s[1]][0] # 0 THEN d.cap[s] ELSE None

\* ensure_prefixes: ports with a cached entry whose prefixes differ.
PrefixWork(d) == {p \in PolPort \cap d.wl : cPol[p] # None /\ cPol[p].pfx # d.pfx}

\* Mutant: the ports are opened whatever failed before.
OpenAnyway == (desired.wl \ cWl) \cap PolPort

\* The last stage is gated: no port is opened when anything failed before.
ToOpen == IF failures = 0 THEN (desired.wl \ cWl) \cap PolPort ELSE {}

\* What a stage has to do when it is entered; blind are the lookups that fail.
Work(i, blind) ==
    CASE i \in {PurgeTcp, PurgeUdp} ->
           {f \in cCt : FlowPort[f] \in plan.close \cap (IF i = PurgeTcp THEN TcpPort ELSE UdpPort)}
      [] i = Seed     -> plan.seed
      [] i = Unseed   -> plan.unseed
      [] i = CloseUdp -> plan.close \cap UdpPort
      [] i = Sctp     -> {p \in SctpPort : (p \in desired.wl) # (p \in cWl)}
      [] i \in View   -> plan.view[ViewField(i)] \cap ViewPorts(i)
      [] i = Outer    -> {s \in Slot : cSlot[s] # WantedSlot(desired, s)}
      [] i = Prefixes -> PrefixWork(desired)
      [] i = RlStage  -> plan.rl
      [] i = Open     -> ToOpen
      [] OTHER        -> {k \in AuxKeys(i) : SeenAux(k, blind) # desired.aux[k]}

-----------------------------------------------------------------------------
NoPlan == [close |-> {}, seed |-> {}, unseed |-> {}, view |-> [f \in Field |-> {}],
           rl |-> {}]

Init ==
    /\ kWl = {} /\ kPol = [p \in PolPort |-> None] /\ kSlot = [s \in Slot |-> None]
    /\ kAux = [k \in Aux |-> None] /\ kCt = {}
    /\ cWl = {} /\ cPol = [p \in PolPort |-> None] /\ cSlot = [s \in Slot |-> None]
    /\ cAux = [k \in Aux |-> None] /\ cCt = {}
    /\ stale = [f \in Flow |-> 0]
    /\ up = FALSE /\ sitOpen = TRUE /\ pc = Idle /\ todo = {}
    /\ desired \in DesiredStates /\ plan = NoPlan /\ failures = 0
    /\ target = desired
    /\ drifted = FALSE /\ unread = {} /\ misses = [f \in Flow |-> 0]
    /\ faults = 0 /\ changes = 0

\* A step either succeeds, or uses up one fault.
Fault(ok) == /\ ok \/ faults < MaxFaults
             /\ faults' = IF ok THEN faults ELSE faults + 1

\* _ok: count a failed update.
Counted(ok) == failures' = IF ok THEN failures ELSE failures + 1

\* A successful write brings cache and kernel together, whatever was read.
Noted(x, ok) == unread' = IF ok THEN unread \ {x} ELSE unread

envVars  == <<target, changes, drifted, misses>>
callVars == <<up, sitOpen, pc, desired, plan>>

-----------------------------------------------------------------------------
(* Life cycle of the backend object. *)

\* The kernel entries that a _read_kernel may miss without an error: every
\* failed lookup is skipped, and the walk over the keys of an LPM map ends at
\* the first error.
Missable == kWl \cup {s \in Slot : kSlot[s] # None}
                \cup {k \in Trusted \cup Acl : kAux[k] # None}

\* The policy maps that a pass has read: each comes back empty when its batch
\* lookup is refused.
PolicyReads == {PolPort, TcpPort, UdpPort, {}}

\* The caches are filled from the kernel.
Load(missed, read) ==
    /\ cWl' = kWl \ missed
    /\ cPol' = [p \in PolPort |-> IF p \in read THEN kPol[p] ELSE None]
    /\ cSlot' = [s \in Slot |-> IF s \in missed THEN None ELSE kSlot[s]]
    /\ cAux' = [k \in Aux |-> IF k \in missed THEN None ELSE kAux[k]]
    /\ unread' = missed

\* XdpBackend.__init__: every wrapper loads its cache from the kernel.  The
\* walks over the conntrack maps may end early too.  A failed walk over the
\* 6in4 endpoints raises, and sit4_map stays None for the life of the object.
BackendInit ==
    /\ ~up
    /\ \E missed \in SUBSET Missable, read \in PolicyReads, lost \in SUBSET kCt, sit \in BOOLEAN :
         /\ Fault(missed = {} /\ read = PolPort /\ lost = {} /\ sit)
         /\ Load(missed, read)
         /\ cCt' = kCt \ lost
         /\ sitOpen' = sit
    /\ up' = TRUE /\ failures' = 0
    /\ stale' = [f \in Flow |-> 0] /\ misses' = [f \in Flow |-> 0]
    /\ drifted' = FALSE
    /\ UNCHANGED <<kernelVars, pc, todo, desired, plan, target, changes>>

\* close(), or the process dies: between two reconciles or inside one.  A walk
\* over the 6in4 endpoints that fails in verify_kernel_state is such a death:
\* nothing in watch() catches its OSError.
BackendGone ==
    /\ up /\ faults < MaxFaults
    /\ up' = FALSE /\ faults' = faults + 1
    /\ pc' = Idle /\ todo' = {} /\ plan' = NoPlan
    /\ cWl' = {} /\ cPol' = [p \in PolPort |-> None] /\ cSlot' = [s \in Slot |-> None]
    /\ cAux' = [k \in Aux |-> None] /\ cCt' = {} /\ unread' = {}
    /\ UNCHANGED <<kernelVars, stale, sitOpen, desired, failures, target, changes, drifted, misses>>

\* Mutant: the verification leaves the whitelist cache alone.
VerifyForgetsWl ==
    /\ up /\ pc = Idle
    /\ cPol' = kPol /\ cSlot' = kSlot /\ cAux' = kAux
    /\ drifted' = FALSE /\ unread' = {}
    /\ UNCHANGED <<kernelVars, cWl, cCt, stale, callVars, todo, failures, target, changes, misses,
                   faults>>

\* verify_kernel_state: every cache with a verify() is reloaded; the conntrack
\* caches have none.
VerifyKernelState ==
    /\ up /\ pc = Idle
    /\ \E missed \in SUBSET Missable, read \in PolicyReads :
         /\ Fault(missed = {} /\ read = PolPort)
         /\ Load(missed, read)
    /\ drifted' = FALSE
    /\ UNCHANGED <<kernelVars, cCt, stale, callVars, todo, failures, target, changes, misses>>

\* run_ct_gc: the keys found expired in the kernel are deleted one by one.
RunCtGc ==
    /\ up /\ pc = Idle
    /\ \E expired \in SUBSET kCt :
         /\ expired # {}
         /\ kCt' = kCt \ expired
         /\ cCt' = cCt \ expired
    /\ UNCHANGED <<kWl, kPol, kSlot, kAux, cWl, cPol, cSlot, cAux, stale, callVars, todo,
                   failures, faults, unread, envVars>>

-----------------------------------------------------------------------------
(* One reconcile. *)

\* Mutant: an observed flow keeps the rounds it had collected.
RoundsKept(missed) == [f \in Flow |-> IF f \in missed THEN stale[f] + 1 ELSE stale[f]]

\* _conntrack_stale_rounds after one more reconcile that missed these flows.
Rounds(missed) == [f \in Flow |-> IF f \in missed THEN stale[f] + 1 ELSE 0]

\* get_applied_state, build_reconcile_plan and the start of
\* apply_reconcile_plan.  existing_keys asks the kernel for every desired
\* flow; a lookup that fails falls back on the cache.  udp_global_rl has no
\* cache either: the plan is made from what get() reads now, which is 0 (here
\* None, no limit) when the lookup fails.
Reconcile ==
    /\ up /\ pc = Idle
    /\ \E failed \in SUBSET target.ct, blind \in SUBSET {k \in GlobalRl : kAux[k] # None} :
         LET present  == {f \in target.ct : IF f \in failed THEN f \in cCt ELSE f \in kCt}
             toRemove == (cCt \cap TcpFlow) \ target.ct
             rounds   == Rounds(toRemove)
         IN  /\ Fault(failed = {} /\ blind = {})
             /\ unread' = (unread \ GlobalRl) \cup blind
             /\ cCt' = (cCt \ (target.ct \ failed)) \cup present
             /\ stale' = [f \in Flow |-> IF rounds[f] > StaleReconciles THEN StaleReconciles
                                                                         ELSE rounds[f]]
             /\ plan' = [close  |-> cWl \ target.wl,
                         seed   |-> target.ct \ present,
                         unseed |-> {f \in toRemove : rounds[f] >= StaleReconciles},
                         view   |-> [f \in Field |-> ViewPlan(cPol, target, f)],
                         rl     |-> {k \in GlobalRl :
                                       (IF k \in blind THEN None ELSE kAux[k]) # target.aux[k]}]
    /\ misses' = [f \in Flow |-> IF f \in target.ct THEN 0
                                 ELSE IF misses[f] < StaleReconciles THEN misses[f] + 1
                                 ELSE misses[f]]
    /\ desired' = target
    /\ failures' = 0
    /\ pc' = CloseTcp
    /\ todo' = (cWl \ target.wl) \cap TcpPort
    /\ UNCHANGED <<kernelVars, cWl, cPol, cSlot, cAux, up, sitOpen, target, changes, drifted>>

\* The current stage is finished: go to the next one, which for the runtime
\* settings starts with a lookup.
Advance ==
    /\ up /\ pc # Idle /\ todo = {}
    /\ pc' = IF pc = Open THEN Idle ELSE pc + 1
    /\ \E blind \in SUBSET {k \in Runtime : pc' = RtStage /\ kAux[k] # None} :
         /\ Fault(blind = {})
         /\ todo' = IF pc = Open THEN {} ELSE Work(pc + 1, blind)
         /\ unread' = IF pc' = RtStage THEN (unread \ Runtime) \cup blind ELSE unread
    /\ UNCHANGED <<kernelVars, cacheVars, stale, up, sitOpen, desired, plan, failures, envVars>>

\* BpfArrayMap.set on a whitelist: 0 for a port to close, 1 for one to open.
SetPort(p, ok) ==
    /\ pc \in {CloseTcp, CloseUdp, Sctp, Open}
    /\ p \in todo /\ Fault(ok) /\ Counted(ok) /\ Noted(p, ok)
    /\ todo' = todo \ {p}
    /\ LET listed(s) == IF p \in desired.wl THEN s \cup {p} ELSE s \ {p}
       IN  /\ kWl' = IF ok THEN listed(kWl) ELSE kWl
           /\ cWl' = IF ok THEN listed(cWl) ELSE cWl
    /\ UNCHANGED <<kPol, kSlot, kAux, kCt, cPol, cSlot, cAux, cCt, stale, callVars, envVars>>

\* BpfConntrackMap.delete, for a closed port (not counted) or a stale flow.
DeleteFlow(f, ok) ==
    /\ pc \in {PurgeTcp, PurgeUdp, Unseed}
    /\ f \in todo /\ Fault(ok)
    /\ todo' = todo \ {f}
    /\ kCt' = IF ok THEN kCt \ {f} ELSE kCt
    /\ cCt' = IF ok THEN cCt \ {f} ELSE cCt
    /\ IF pc = Unseed
       THEN /\ Counted(ok)
            /\ stale' = IF ok THEN [stale EXCEPT ![f] = 0] ELSE stale
       ELSE UNCHANGED <<failures, stale>>
    /\ UNCHANGED <<kWl, kPol, kSlot, kAux, cWl, cPol, cSlot, cAux, unread, callVars, envVars>>

\* BpfConntrackMap.set: seed an established flow.
SeedFlow(f, ok) ==
    /\ pc = Seed
    /\ f \in todo /\ Fault(ok) /\ Counted(ok)
    /\ todo' = todo \ {f}
    /\ kCt' = IF ok THEN kCt \cup {f} ELSE kCt
    /\ cCt' = IF ok THEN cCt \cup {f} ELSE cCt
    /\ stale' = IF ok THEN [stale EXCEPT ![f] = 0] ELSE stale
    /\ UNCHANGED <<kWl, kPol, kSlot, kAux, cWl, cPol, cSlot, cAux, unread, callVars, envVars>>

\* _apply_rate_map_delta through one view: upsert a desired port, clear another.
WriteView(p, ok) ==
    /\ pc \in View
    /\ p \in todo /\ Fault(ok) /\ Counted(ok)
    /\ todo' = todo \ {p}
    /\ LET f   == ViewField(pc)
           v   == IF p \in desired.wl THEN desired.lim[p][f] ELSE 0
           new == ViewWrite(cPol[p], f, v, desired.pfx)
       IN  /\ kPol' = IF ok THEN [kPol EXCEPT ![p] = new] ELSE kPol
           /\ cPol' = IF ok THEN [cPol EXCEPT ![p] = new] ELSE cPol
    /\ UNCHANGED <<kWl, kSlot, kAux, kCt, cWl, cSlot, cAux, cCt, stale, unread, callVars, envVars>>

\* _apply_rate_outer_delta: create and publish an inner map, or empty a slot.
WriteSlot(s, ok) ==
    /\ pc = Outer
    /\ s \in todo /\ Fault(ok) /\ Counted(ok) /\ Noted(s, ok)
    /\ todo' = todo \ {s}
    /\ kSlot' = IF ok THEN [kSlot EXCEPT ![s] = WantedSlot(desired, s)] ELSE kSlot
    /\ cSlot' = IF ok THEN [cSlot EXCEPT ![s] = WantedSlot(desired, s)] ELSE cSlot
    /\ UNCHANGED <<kWl, kPol, kAux, kCt, cWl, cPol, cAux, cCt, stale, callVars, envVars>>

\* ensure_prefixes: the result of set_fields is not looked at.
WritePrefix(p, ok) ==
    /\ pc = Prefixes
    /\ p \in todo /\ Fault(ok)
    /\ todo' = todo \ {p}
    /\ LET new == [lim |-> cPol[p].lim, pfx |-> desired.pfx]
       IN  /\ kPol' = IF ok THEN [kPol EXCEPT ![p] = new] ELSE kPol
           /\ cPol' = IF ok THEN [cPol EXCEPT ![p] = new] ELSE cPol
    /\ UNCHANGED <<kWl, kSlot, kAux, kCt, cWl, cSlot, cAux, cCt, stale, callVars, failures, unread,
                   envVars>>

\* Trusted prefixes, ACL rules, runtime settings, global rate, 6in4 endpoints.
WriteAux(k, ok) ==
    /\ pc \in {Trust, AclStage, RtStage, RlStage, SitStage}
    /\ k \in todo /\ Fault(ok) /\ Counted(ok) /\ Noted(k, ok)
    /\ todo' = todo \ {k}
    /\ kAux' = IF ok THEN [kAux EXCEPT ![k] = desired.aux[k]] ELSE kAux
    /\ cAux' = IF ok THEN [cAux EXCEPT ![k] = desired.aux[k]] ELSE cAux
    /\ UNCHANGED <<kWl, kPol, kSlot, kCt, cWl, cPol, cSlot, cCt, stale, callVars, envVars>>

ApplyOne ==
    /\ up
    /\ \E x \in todo, ok \in BOOLEAN :
         \/ SetPort(x, ok)   \/ DeleteFlow(x, ok)  \/ SeedFlow(x, ok) \/ WriteView(x, ok)
         \/ WriteSlot(x, ok) \/ WritePrefix(x, ok) \/ WriteAux(x, ok)

-----------------------------------------------------------------------------
(* The rest of the world. *)

daemonVars == <<cacheVars, stale, up, sitOpen, pc, todo, desired, plan, failures, unread, misses>>

\* A service starts or stops, or the configuration is reloaded.
ChangeTarget ==
    /\ changes < MaxChanges
    /\ \E d \in DesiredStates \ {target} : target' = d
    /\ changes' = changes + 1
    /\ UNCHANGED <<kernelVars, daemonVars, drifted, faults>>

\* The packet path and tc egress add and delete conntrack entries on their own.
PacketPath ==
    /\ \E f \in Flow : kCt' = IF f \in kCt THEN kCt \ {f} ELSE kCt \cup {f}
    /\ UNCHANGED <<kWl, kPol, kSlot, kAux, daemonVars, target, changes, drifted, faults>>

\* Another program (bpftool, a map reload) drops what the daemon had written.
Drift ==
    /\ faults < MaxFaults /\ faults' = faults + 1
    /\ drifted' = TRUE
    /\ \/ \E p \in Port : kWl' = kWl \ {p} /\ UNCHANGED <<kPol, kSlot, kAux>>
       \/ \E p \in PolPort : kPol' = [kPol EXCEPT ![p] = None] /\ UNCHANGED <<kWl, kSlot, kAux>>
       \/ \E s \in Slot : kSlot' = [kSlot EXCEPT ![s] = None] /\ UNCHANGED <<kWl, kPol, kAux>>
       \/ \E k \in Aux : kAux' = [kAux EXCEPT ![k] = None] /\ UNCHANGED <<kWl, kPol, kSlot>>
    /\ UNCHANGED <<kCt, daemonVars, target, changes>>

Next == \/ BackendInit \/ BackendGone \/ VerifyKernelState \/ RunCtGc
        \/ Reconcile \/ Advance \/ ApplyOne
        \/ ChangeTarget \/ PacketPath \/ Drift

Spec == Init /\ [][Next]_vars

\* The watch loop keeps calling reconcile, finishes the call it is in, reopens
\* a backend that is gone, and reaches its 30 s verification again and again.
Fairness == /\ WF_vars(BackendInit) /\ WF_vars(Reconcile)
            /\ WF_vars(Advance) /\ WF_vars(ApplyOne)
            /\ SF_vars(VerifyKernelState)

FairSpec == Spec /\ Fairness

-----------------------------------------------------------------------------
(* Properties. *)

KernelType ==
    /\ kWl \in SUBSET Port /\ kPol \in [PolPort -> Policy \cup {None}]
    /\ kSlot \in [Slot -> Cap \cup {None}] /\ kAux \in [Aux -> AuxVal \cup {None}]
    /\ kCt \in SUBSET Flow

CacheType ==
    /\ cWl \in SUBSET Port /\ cPol \in [PolPort -> Policy \cup {None}]
    /\ cSlot \in [Slot -> Cap \cup {None}] /\ cAux \in [Aux -> AuxVal \cup {None}]
    /\ cCt \in SUBSET Flow

PlanType == [close : SUBSET Port, seed : SUBSET Flow, unseed : SUBSET Flow,
             view : [Field -> SUBSET PolPort], rl : SUBSET GlobalRl]

CallType ==
    /\ up \in BOOLEAN /\ sitOpen \in BOOLEAN /\ pc \in Idle..Open
    /\ todo \subseteq Port \cup Flow \cup Slot \cup Aux
    /\ desired \in DesiredStates /\ plan \in PlanType /\ failures \in Nat

HistoryType ==
    /\ stale \in [Flow -> 0..StaleReconciles] /\ misses \in [Flow -> 0..StaleReconciles]
    /\ target \in DesiredStates /\ drifted \in BOOLEAN
    /\ unread \subseteq Port \cup Slot \cup Aux
    /\ faults \in 0..MaxFaults /\ changes \in 0..MaxChanges

\* Types of all variables.
TypeOK == KernelType /\ CacheType /\ CallType /\ HistoryType

\* Only an unwanted entry that a failed read missed may be left behind.
Leftover(x, wanted) == wanted = None /\ x \in unread

\* The auxiliary keys the backend looks after.
Managed == IF sitOpen THEN Aux ELSE Aux \ Sit4

AuxInForce(k) == kAux[k] = desired.aux[k] \/ Leftover(k, desired.aux[k])

SlotInForce(s) == kSlot[s] = WantedSlot(desired, s) \/ Leftover(s, WantedSlot(desired, s))

\* What the packet path enforces on port p: the three limits that decide
\* whether the entry exists, and the inner maps without which
\* syn_rate_check and udp_rate_check let everything pass.
Protected(p) ==
    /\ \A f \in HeadField : LimitOf(kPol[p], f) = desired.lim[p][f]
    /\ \A g \in Family : SlotInForce(<<p, g>>)

\* "Prepare all protection state first, then expose new TCP/UDP ports only if
\* that preparation passed" (xdp.py): whatever failed, crashed, could not be
\* read or was seeded before, a port enters a whitelist only with all its
\* limits, its inner maps and every wanted entry of the other maps in force in
\* the kernel.  What may be there besides is an inner map, CIDR, rule or rate
\* that is no longer wanted and that a failed read kept out of the cache or
\* of the plan; and the 6in4 endpoints when their map could not be opened.
NewPortProtected ==
    [][\A p \in (kWl' \ kWl) \cap PolPort :
          ~drifted => Protected(p) /\ \A k \in Managed : AuxInForce(k)]_vars

\* A reconcile that reports no failure leaves the kernel as desired: the
\* desired ports open, each protected, the wanted entries of all other maps in
\* force, and nothing else but what a failed read has missed, a port on a
\* whitelist included.  The limits outside the first three fields are the
\* desired ones or missing, never an old value.
CleanReconcileConverges ==
    (pc = Open /\ todo = {} /\ failures = 0 /\ ~drifted) =>
        /\ desired.wl \subseteq kWl /\ kWl \subseteq desired.wl \cup unread
        /\ \A p \in PolPort \cap desired.wl :
             /\ Protected(p)
             /\ \A f \in Field \ HeadField : LimitOf(kPol[p], f) \in {0, desired.lim[p][f]}
        /\ \A k \in Managed : AuxInForce(k)

\* build_reconcile_plan removes a conntrack entry as stale only after
\* StaleReconciles reconciles in a row did not observe the flow: one
\* reconcile that sees it starts the count again.
StaleNeedsMisses ==
    [][\A f \in Flow : (pc = Unseed /\ f \in todo \ todo' /\ f \in cCt \ cCt')
          => misses[f] >= StaleReconciles]_vars

\* The whole desired state is in force, and nothing else.
Converged ==
    /\ kWl = target.wl
    /\ \A p \in PolPort \cap target.wl :
         /\ \A f \in HeadField : LimitOf(kPol[p], f) = target.lim[p][f]
         /\ \A g \in Family : kSlot[<<p, g>>] = WantedSlot(target, <<p, g>>)
    /\ \A k \in Managed : kAux[k] = target.aux[k]

\* Once services, configuration and faults come to rest, repeated reconciles
\* and verifications bring the kernel to the desired state for good, from
\* whatever failed updates and reads, drift and crashes left behind: what one
\* read missed, a later verification finds.
EventuallyConverges == <>[]Converged

\* The comment's promise for every limit of the port, the per-prefix and
\* per-port connection limits included.
NewPortFullyProtected ==
    [][\A p \in (kWl' \ kWl) \cap PolPort :
          ~drifted => \A f \in FieldsOf(p) : LimitOf(kPol[p], f) = desired.lim[p][f]]_vars
=============================================================================
