------------------------------ MODULE Nftables ------------------------------
(***************************************************************************)
(* The nftables backend (auto_xdp/backends/nftables.py) under the sync     *)
(* daemon, from end to end: sockets open and close, axdp commands rewrite  *)
(* config.toml, SIGHUP reloads it, the daemon discovers and installs whole *)
(* rulesets.  Dumps, transactions, the daemon and the table itself may     *)
(* fail or go away.                                                        *)
(***************************************************************************)
EXTENDS Integers, Policy

CONSTANTS
    Socket,        \* the sockets there may be
    InitOpen,      \* those open at first
    Files,         \* versions of config.toml an editor saves
    InitFile,      \* the first one
    Admin,         \* axdp processes
    Cidr,          \* networks the commands name
    EditPort,      \* ports the commands allow and exclude
    CliTrust,      \* --trusted-ip of the daemon
    Keep,          \* permanent ports no version of the file is without
    Table,         \* names of nftables tables
    InitKernel,    \* the tables at first
    None,
    MaxChanges,    \* bound: sockets that open or close
    MaxEdits,      \* bound: changes of the file
    MaxHups,       \* bound: SIGHUPs
    MaxFaults      \* bound: errors, kills and tables removed by others

(* What the daemon may meet. *)
Port    == {s.port : s \in Socket} \cup EditPort \cup UNION {f.val.perm \cup f.val.uperm : f \in Files}
           \cup Default.perm \cup Default.uperm
Source  == Cidr \cup CliTrust \cup UNION {f.val.trust : f \in Files} \cup Default.trust
AclRule == (Cidr \X EditPort) \cup UNION {f.val.acl : f \in Files} \cup Default.acl
Rates   == {f.val.rates : f \in Files} \cup {Default.rates}
Runtime == {f.val.runtime : f \in Files} \cup {Default.runtime}

\* A configuration.
IsConfig(c) ==
    /\ DOMAIN c = Section /\ c.perm \subseteq Port /\ c.uperm \subseteq Port
    /\ c.trust \subseteq Source /\ c.acl \subseteq AclRule /\ c.rates \in Rates
    /\ c.table \in Table /\ c.runtime \in Runtime

\* A file: only numbers of the runtime section are replaced by a default; all
\* else raises.
IsFile(f) ==
    /\ DOMAIN f = {"val", "bad", "odd"} /\ IsConfig(f.val)
    /\ f.bad \subseteq Section \cup {"toml"} /\ f.odd \subseteq {"runtime"}

Limits   == UNION {[P -> Int] : P \in SUBSET Port}
RuleSet  == SUBSET (Port \X (Nat \ {0}))
Ruleset  == [schema : {1, 2}, tcp : SUBSET Port, udp : SUBSET Port, trust : SUBSET Source,
             acl : SUBSET AclRule, syn : RuleSet, conn : RuleSet, urate : RuleSet, icmp : Nat]
Desired  == [tcp : SUBSET Port, udp : SUBSET Port, trust : SUBSET Source, acl : SUBSET AclRule,
             syn : Limits, conn : Limits, urate : Limits]
Signed   == (SUBSET Port) \X (SUBSET Port) \X (SUBSET Source) \X (SUBSET AclRule)
            \X Limits \X Limits \X Limits \X Table

\* A table only holds rules for ports it admits.
RulesFit(r) ==
    /\ \A x \in r.syn \cup r.conn : x[1] \in r.tcp
    /\ \A x \in r.urate : x[1] \in r.udp

ASSUME NftAssumption ==
    /\ InitOpen \subseteq Socket /\ InitFile \in Files /\ InitFile.bad = {}
    /\ IsConfig(Default) /\ \A f \in Files : IsFile(f) /\ Keep \subseteq f.val.perm
    /\ Keep \cap EditPort = {}
    /\ InitKernel \in [Table -> Ruleset \cup {None}]
    /\ \A t \in Table : InitKernel[t] # None => RulesFit(InitKernel[t])
    /\ {MaxChanges, MaxEdits, MaxHups, MaxFaults} \subseteq Nat

\* int(v) and _coerce_positive_int.
ASSUME LimitAssumption ==
    /\ \A r \in Rates : \A t \in {r.syn, r.conn, r.udp} : \A m \in {t.proc, t.svc} :
         \A k \in DOMAIN m : m[k] \in Int
    /\ \A r \in Runtime : {r.syn, r.synStrict, r.conn, r.connStrict} \subseteq Nat \ {0}
                            /\ r.icmp \in Nat

\* The sockets of a dump come in an order.
ASSUME DumpAssumption ==
    \A S \in SUBSET Socket : S # {} => \E s \in S : \A t \in S : t.id <= s.id

ASSUME NoneAssumption == None \notin Ruleset \cup Desired \cup Signed

VARIABLES
    open,          \* listening and connected sockets
    file,          \* config.toml
    held,          \* what each axdp process has read, or None
    running,       \* the daemon's configuration
    kernel,        \* ruleset of each table, or None
    backend,       \* "down" (no daemon), "none" or "open"
    sig,           \* _policy_signature, None before the first reconcile
    pc,            \* daemon: "idle", "dump", "name" or "apply"
    listed,        \* result of the TCP dump
    want,          \* the DesiredState of the running sync_once, or None
    hup,           \* reload_requested
    blind,         \* history: running is what a start without the file gave
    icmpAt,        \* history: ICMP limit configured at the last install, None before
    changes, edits, hups, faults

vars == <<open, file, held, running, kernel, backend, sig, pc, listed, want, hup, blind, icmpAt,
          changes, edits, hups, faults>>
histVars   == <<blind, icmpAt>>
syncVars   == <<pc, listed, want>>
boundVars  == <<changes, edits, hups, faults>>
outerVars  == <<open, file, held>>

Fault == faults < MaxFaults /\ faults' = faults + 1

\* TRUSTED_SRC_IPS.update(cli_trusted_ips).
WithCli(c) == [c EXCEPT !.trust = @ \cup CliTrust]

Init ==
    /\ open = InitOpen /\ file = InitFile /\ held = [a \in Admin |-> None]
    /\ running = WithCli(Default) /\ blind = FALSE /\ icmpAt = None
    /\ kernel = InitKernel /\ backend = "down" /\ sig = None
    /\ pc = "idle" /\ listed = {} /\ want = None /\ hup = FALSE
    /\ changes = 0 /\ edits = 0 /\ hups = 0 /\ faults = 0

-----------------------------------------------------------------------------
(* What happens around the daemon. *)

\* Programs open and close sockets.
ChangeSocket(s) ==
    /\ changes < MaxChanges /\ changes' = changes + 1
    /\ open' = IF s \in open THEN open \ {s} ELSE open \cup {s}
    /\ UNCHANGED <<file, held, running, kernel, backend, sig, syncVars, hup, histVars, edits, hups, faults>>

\* What the commands make of a file: axdp trust, acl, permanent and exclude,
\* each with add and del.
TrustEdits(f) ==
    UNION {{[f EXCEPT !.val.trust = @ \cup {x}], [f EXCEPT !.val.trust = @ \ {x}]} : x \in Cidr}

AclEdits(f) ==
    LET without(x) == {r \in f.val.acl : r[1] # x}
    IN  {[f EXCEPT !.val.acl = without(x)] : x \in Cidr}
        \cup {[f EXCEPT !.val.acl = without(x) \cup {<<x, p>>}] : x \in Cidr, p \in EditPort}

PermanentEdits(f) ==
    UNION {{[f EXCEPT !.val[s] = @ \cup {p}], [f EXCEPT !.val[s] = @ \ {p}]} :
              s \in {"perm", "uperm"}, p \in EditPort}

ExcludeEdits(f) ==
    (UNION {{[f EXCEPT !.val.disc.ports = @ \cup {p}],
             [f EXCEPT !.val.disc.ports = @ \ {p}]} : p \in EditPort})
    \cup UNION {{[f EXCEPT !.val.disc.nets = @ \cup {x}],
                 [f EXCEPT !.val.disc.nets = @ \ {x}]} : x \in Cidr}

Edited(f) == TrustEdits(f) \cup AclEdits(f) \cup PermanentEdits(f) \cup ExcludeEdits(f)

\* _load_config of an axdp command; a file that is no TOML ends it.
AdminRead(a) ==
    /\ held[a] = None /\ Parses(file) /\ edits < MaxEdits
    /\ held' = [held EXCEPT ![a] = file]
    /\ UNCHANGED <<open, file, running, kernel, backend, sig, syncVars, hup, histVars, boundVars>>

\* _write_toml: a new file takes the place of the old one at once.
WriteToml(f) == file' = f

\* The command writes back what it read, with its change.
AdminWrite(a) ==
    /\ held[a] # None /\ edits < MaxEdits /\ edits' = edits + 1
    /\ \E f \in Edited(held[a]) : WriteToml(f)
    /\ held' = [held EXCEPT ![a] = None]
    /\ UNCHANGED <<open, running, kernel, backend, sig, syncVars, hup, histVars, changes, hups,
                   faults>>

\* An editor saves another version.
HandEdit(f) ==
    /\ edits < MaxEdits /\ edits' = edits + 1 /\ file' = f
    /\ UNCHANGED <<open, held, running, kernel, backend, sig, syncVars, hup, histVars, changes, hups,
                   faults>>

Sighup ==
    /\ hups < MaxHups /\ hups' = hups + 1 /\ backend # "down" /\ hup' = TRUE
    /\ UNCHANGED <<outerVars, running, kernel, backend, sig, syncVars, histVars, changes, edits, faults>>

\* Another program removes a table (nft flush ruleset).
RemoveTable(t) ==
    /\ kernel[t] # None /\ Fault
    /\ kernel' = [kernel EXCEPT ![t] = None]
    /\ UNCHANGED <<outerVars, running, backend, sig, syncVars, hup, histVars, changes, edits, hups>>

\* The daemon is killed; its tables stay.
Kill ==
    /\ backend # "down" /\ Fault
    /\ backend' = "down" /\ sig' = None /\ pc' = "idle" /\ listed' = {} /\ want' = None
    /\ hup' = FALSE
    /\ icmpAt' = None
    /\ UNCHANGED <<outerVars, running, kernel, blind, changes, edits, hups>>

\* cli.main: a file that is no TOML, or cannot be applied, keeps it from
\* starting.
Start ==
    /\ backend = "down" /\ file.bad = {}
    /\ backend' = "none" /\ blind' = FALSE
    /\ running' = WithCli(ApplyToml(Default, file))
    /\ UNCHANGED <<outerVars, kernel, sig, syncVars, hup, icmpAt, boundVars>>

\* The file is missing or cannot be read: load_toml_config, which is not strict
\* here, makes that an empty one.
StartBlind ==
    /\ backend = "down" /\ Fault
    /\ backend' = "none" /\ blind' = TRUE
    /\ running' = WithCli(Default)
    /\ UNCHANGED <<outerVars, kernel, sig, syncVars, hup, icmpAt, changes, edits, hups>>

-----------------------------------------------------------------------------
(* The backend. *)

\* Mutant: a limit of 0 makes a rule too.
RulesOfAll(f) == {<<p, f[p]>> : p \in DOMAIN f}

\* _tcp_policy_rules and _udp_policy_rules: a limit of 0 makes no rule.
Rules(f) == {<<p, f[p]>> : p \in {q \in DOMAIN f : f[q] > 0}}

\* _render_ruleset; the ICMP limit is taken from the configuration.
Render(d, c) ==
    [schema |-> 2, tcp |-> d.tcp, udp |-> d.udp, trust |-> d.trust, acl |-> d.acl,
     syn |-> Rules(d.syn), conn |-> Rules(d.conn), urate |-> Rules(d.urate),
     icmp |-> c.runtime.icmp]

NoPorts == [tcp |-> {}, udp |-> {}, trust |-> {}, acl |-> {}, syn |-> <<>>, conn |-> <<>>,
            urate |-> <<>>]

\* The first DesiredState: that of a table of the old schema keeps its ports
\* and trusted sources.
Bootstrap(t) ==
    IF kernel[t] = None THEN NoPorts
    ELSE [NoPorts EXCEPT !.tcp = kernel[t].tcp, !.udp = kernel[t].udp, !.trust = kernel[t].trust]

\* open_backend and NftablesBackend.__init__ with _ensure_ruleset; then the
\* first sync_once begins.  `nft list table` may fail on a table that is there:
\* the empty bootstrap policy is then added to it, which gives it the marker of
\* the schema and rules that come after its own.
OpenBackend ==
    /\ backend = "none" /\ pc = "idle"
    /\ LET t == running.table
           good == IF kernel[t] = None THEN FALSE ELSE kernel[t].schema = 2
       IN  \/ /\ kernel' = IF good THEN kernel
                           ELSE [kernel EXCEPT ![t] = Render(Bootstrap(t), running)]
              /\ backend' = "open" /\ sig' = None /\ pc' = "dump" /\ UNCHANGED faults
           \/ /\ kernel[t] # None /\ Fault
              /\ kernel' = [kernel EXCEPT ![t].schema = 2]
              /\ backend' = "open" /\ sig' = None /\ pc' = "dump"
           \/ ~good /\ Fault /\ UNCHANGED <<kernel, backend, sig, pc>>
    /\ UNCHANGED <<outerVars, running, listed, want, hup, histVars, changes, edits, hups>>

\* Mutant: the trusted sources are not in the signature.
SignatureShort(d, c) == <<d.tcp, d.udp, d.acl, d.syn, d.conn, d.urate, c.table>>

\* _policy_signature.
Signature(d, c) == <<d.tcp, d.udp, d.trust, d.acl, d.syn, d.conn, d.urate, c.table>>

\* Mutant: the backend is kept after an error.
DropNot == backend' = backend /\ sig' = sig

\* The watch loop closes the backend after an error, and opens it again.
DropBackend == backend' = "none" /\ sig' = None

\* An event, or the periodic reconcile: sync_once begins.
Wake ==
    /\ backend = "open" /\ pc = "idle" /\ pc' = "dump"
    /\ UNCHANGED <<outerVars, running, kernel, backend, sig, listed, want, hup, histVars, boundVars>>

\* The TCP dumps; DiscoveryError ends sync_once and the policy is kept.
DumpTcp ==
    /\ pc = "dump"
    /\ \/ listed' = ListenTcp(open, running) /\ pc' = "name" /\ UNCHANGED faults
       \/ Fault /\ pc' = "idle" /\ UNCHANGED listed
    /\ UNCHANGED <<outerVars, running, kernel, backend, sig, want, hup, histVars, changes, edits, hups>>

\* Process names, the UDP dumps, and resolve_desired_state.
DumpUdp ==
    /\ pc = "name" /\ listed' = {}
    /\ \/ want' = DesiredState(listed, open, running) /\ pc' = "apply" /\ UNCHANGED faults
       \/ Fault /\ pc' = "idle" /\ UNCHANGED want
    /\ UNCHANGED <<outerVars, running, kernel, backend, sig, hup, histVars, changes, edits, hups>>

UpToDate == sig = Signature(want, running)

\* apply_reconcile_plan with nothing to do.
ApplySkip ==
    /\ pc = "apply" /\ UpToDate
    /\ pc' = "idle" /\ want' = None
    /\ UNCHANGED <<outerVars, running, kernel, backend, sig, listed, hup, histVars, boundVars>>

\* _install_ruleset and _remember_desired: one transaction, delete table first.
ApplyInstall ==
    /\ pc = "apply" /\ ~UpToDate /\ kernel[running.table] # None
    /\ kernel' = [kernel EXCEPT ![running.table] = Render(want, running)]
    /\ sig' = Signature(want, running) /\ icmpAt' = running.runtime.icmp
    /\ pc' = "idle" /\ want' = None
    /\ UNCHANGED <<outerVars, running, backend, listed, hup, blind, boundVars>>

\* The transaction fails: always when there is no table to delete.
ApplyFails ==
    /\ pc = "apply" /\ ~UpToDate
    /\ IF kernel[running.table] = None THEN UNCHANGED faults ELSE Fault
    /\ DropBackend /\ pc' = "idle" /\ want' = None /\ icmpAt' = None
    /\ UNCHANGED <<outerVars, running, kernel, listed, hup, blind, changes, edits, hups>>

\* SIGHUP: the new configuration as a whole or not at all, a file that cannot
\* be read included; another table closes the backend.
Reload ==
    /\ hup /\ pc = "idle" /\ backend # "down" /\ hup' = FALSE
    /\ \/ /\ Parses(file) /\ file.bad \cap Section = {}
          /\ running' = WithCli(ApplyToml(running, file)) /\ blind' = FALSE /\ UNCHANGED faults
       \/ /\ Parses(file) /\ file.bad \cap Section # {}
          /\ running' = ApplyToml(running, file) /\ UNCHANGED <<blind, faults>>
       \/ ~Parses(file) /\ UNCHANGED <<running, blind, faults>>
       \/ Fault /\ UNCHANGED <<running, blind>>
    /\ IF running'.table # running.table THEN backend' = "none" /\ sig' = None /\ icmpAt' = None
                                         ELSE UNCHANGED <<backend, sig, icmpAt>>
    /\ UNCHANGED <<outerVars, kernel, syncVars, changes, edits, hups>>

DaemonStep == OpenBackend \/ DumpTcp \/ DumpUdp \/ ApplySkip \/ ApplyInstall \/ ApplyFails

Next ==
    \/ \E s \in Socket : ChangeSocket(s)
    \/ \E a \in Admin : AdminRead(a) \/ AdminWrite(a)
    \/ \E f \in Files : HandEdit(f)
    \/ \E t \in Table : RemoveTable(t)
    \/ Sighup \/ Kill \/ Start \/ StartBlind \/ Wake \/ Reload \/ DaemonStep

Spec == Init /\ [][Next]_vars

\* The daemon runs on, its service is restarted, the periodic reconcile comes.
FairSpec ==
    /\ Spec
    /\ WF_vars(DaemonStep) /\ WF_vars(Wake) /\ WF_vars(Reload) /\ WF_vars(Start)

-----------------------------------------------------------------------------
(* Properties. *)

FileType ==
    /\ IsFile(file) /\ held = [a \in Admin |-> held[a]]
    /\ \A a \in Admin : held[a] = None \/ IsFile(held[a])

ConfigType == IsConfig(running)

KernelType ==
    /\ kernel \in [Table -> Ruleset \cup {None}]
    /\ \A t \in Table : kernel[t] # None => RulesFit(kernel[t])

DaemonType ==
    /\ open \subseteq Socket /\ listed \subseteq Socket /\ hup \in BOOLEAN
    /\ backend \in {"down", "none", "open"} /\ pc \in {"idle", "dump", "name", "apply"}
    /\ backend # "open" => pc = "idle" /\ sig = None
    /\ (want # None) = (pc = "apply")
    /\ blind \in BOOLEAN /\ icmpAt \in Nat \cup {None} /\ (sig = None => icmpAt = None)

CountType ==
    /\ changes \in 0..MaxChanges /\ edits \in 0..MaxEdits /\ hups \in 0..MaxHups
    /\ faults \in 0..MaxFaults

\* Types of all variables; a table only holds rules for ports it admits.
TypeOK == FileType /\ ConfigType /\ KernelType /\ DaemonType /\ CountType

\* A permanent port that every version of the file lists is never taken out of
\* a table that admits it: not by a reload that fails half way, a command that
\* writes while another does, a migration, a failed transaction or a restart
\* that reads the file.  A daemon that starts without its file does remove it,
\* at its first sync_once and until a reload that succeeds (blind).
PermanentStaysOpen ==
    [][~blind => \A t \in Table : (kernel[t] # None /\ kernel'[t] # None) =>
          Keep \cap kernel[t].tcp \subseteq kernel'[t].tcp]_vars

\* sync_once ends without an error, and its table is there.
SyncDone ==
    pc = "apply" /\ sig' = Signature(want, running) /\ pc' = "idle" /\ kernel[running.table] # None

\* After every sync_once without an error the table is the rendering of the
\* policy that was wanted, also when the backend found nothing to do; its ICMP
\* limit, which _policy_signature leaves out, is the one that was configured at
\* the last install.
SyncInstallsPolicy ==
    [][SyncDone => kernel'[running.table] = [Render(want, running) EXCEPT !.icmp = icmpAt']]_vars

\* After a sync_once without an error the table is what the running
\* configuration asks for, the ICMP limit included: config.toml says "The
\* daemon reloads this file on SIGHUP (no restart needed)."
ReloadTakesEffect ==
    [][SyncDone => kernel'[running.table] = Render(want, running)]_vars

\* After a sync_once a TCP port is admitted without a SYN limit only where an
\* explicit value of the configuration, 0 or less, says so.
UnlimitedIsPinned ==
    [][SyncDone => \A p \in kernel'[running.table].tcp :
          \/ \E r \in kernel'[running.table].syn : r[1] = p
          \/ \E k \in DOMAIN running.rates.syn.proc : running.rates.syn.proc[k] <= 0
             /\ \E s \in Socket : s.port = p /\ s.proc = k
          \/ Service(p) \in DOMAIN running.rates.syn.svc /\ running.rates.syn.svc[Service(p)] <= 0]_vars

\* What the table should hold now.
Wanted == DesiredState(ListenTcp(open, running), open, running)

\* The daemon cannot start, or the table is gone and the policy unchanged.
Excused ==
    \/ backend = "down" /\ file.bad # {}
    \/ backend = "open" /\ kernel[running.table] = None /\ sig = Signature(Wanted, running)

\* A ruleset without the ICMP limit.
Policy(r) == [f \in DOMAIN r \ {"icmp"} |-> r[f]]

InSync ==
    /\ backend = "open" /\ kernel[running.table] # None
    /\ Policy(kernel[running.table]) = Policy(Render(Wanted, running))

\* When sockets and configuration rest, the ruleset follows them, whatever
\* failed before; the one exception is a table that others removed while the
\* policy stayed the same.
Converges == <>[](InSync \/ Excused)
=============================================================================
