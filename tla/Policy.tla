------------------------------- MODULE Policy -------------------------------
(***************************************************************************)
(* From the listening sockets and the configuration to the policy that is  *)
(* wanted: socket discovery (auto_xdp/discovery.py), the configuration     *)
(* (auto_xdp/config.py) and the resolution of the desired state            *)
(* (auto_xdp/policy.py), as operators.                                     *)
(*                                                                         *)
(* A socket is a record [id, proto, port, bind, proc, peer, busy]: id is   *)
(* its place in the dump, peer says that it is connected, busy that its    *)
(* receive queue or drop counter is not 0.  A configuration is a function  *)
(* from the sections of config.toml to their values, a file [val, bad,     *)
(* odd] its values, the sections with a value that raises, and those with  *)
(* a value that is replaced by the default.                                *)
(***************************************************************************)
EXTENDS Naturals, FiniteSets

CONSTANTS
    Service(_),    \* service_name: the name in /etc/services, "" if there is none
    Default        \* the configuration of an empty file

\* The sections, in the order in which they are applied.
SectionOrder == [perm |-> 1, uperm |-> 2, trust |-> 3, acl |-> 4, rates |-> 5, disc |-> 6,
                 table |-> 7, runtime |-> 8]
Section == DOMAIN SectionOrder

\* Tables that are emptied before the first section is read.
Cleared == {"perm", "uperm", "trust", "acl", "rates", "disc"}

-----------------------------------------------------------------------------
(* Configuration. *)

\* _apply_toml_config_in_place: up to the first section that raises, the
\* values of the file, or the default where one is coerced.
ApplyInPlace(old, f) ==
    LET read(s) == \A b \in f.bad \cap Section : SectionOrder[s] < SectionOrder[b]
    IN  [s \in Section |-> IF read(s) THEN IF s \in f.odd THEN Default[s] ELSE f.val[s]
                           ELSE IF s \in Cleared THEN Default[s] ELSE old[s]]

\* apply_toml_config: all of it, or the snapshot is restored.
ApplyToml(old, f) == IF f.bad \cap Section = {} THEN ApplyInPlace(old, f) ELSE old

\* load_toml_config of a file that can be opened: it raises unless that is TOML.
Parses(f) == "toml" \notin f.bad

-----------------------------------------------------------------------------
(* Discovery. *)

\* _bind_ip_is_exposed.
BindIsExposed(bind, c) ==
    CASE bind = "any"   -> TRUE
      [] bind = "lo"    -> ~c.disc.lo /\ bind \notin c.disc.nets
      [] bind = "local" -> FALSE           \* multicast, link-local
      [] OTHER          -> bind \notin c.disc.nets

\* The TCP sockets that count: listening, exposed, not excluded.
ListenTcp(S, c) ==
    {s \in S : s.proto = "tcp" /\ BindIsExposed(s.bind, c) /\ s.port \notin c.disc.ports}

\* _proc_name: the owner of a socket that is still open when /proc is read.
ProcName(s, open) == IF s \in open THEN s.proc ELSE ""

\* Process of a TCP port: of its last socket in the dump that has one.
TcpProcess(p, listed, open) ==
    LET named == {s \in listed : s.port = p /\ ProcName(s, open) # ""}
    IN  IF named = {} THEN ""
        ELSE (CHOOSE s \in named : \A t \in named : t.id <= s.id).proc

\* The socket udp_agg keeps for a port: the first of the dump.
FirstUdp(p, open) ==
    CHOOSE s \in open : /\ s.proto = "udp" /\ s.port = p
                        /\ \A t \in open : (t.proto = "udp" /\ t.port = p) => s.id <= t.id

\* UDP ports that count: the first socket is exposed, and one is unconnected or
\* the port shows the signs of a server.
ListenUdp(open, c) ==
    LET all(p) == {s \in open : s.proto = "udp" /\ s.port = p}
    IN  {p \in {s.port : s \in {t \in open : t.proto = "udp"}} :
            /\ BindIsExposed(FirstUdp(p, open).bind, c) /\ p \notin c.disc.ports
            /\ \/ \E s \in all(p) : ~s.peer \/ s.busy
               \/ Cardinality(all(p)) > 1}

-----------------------------------------------------------------------------
(* Policy resolution.  A limit of 0 means none. *)

\* A name that is known and has an entry.
Has(k, f) == k # "" /\ k \in DOMAIN f

\* Mutant: no entry is taken for an explicit 0.
LookupOrZero(proc, svc, t) ==
    IF Has(proc, t.proc) THEN {t.proc[proc]}
    ELSE IF Has(svc, t.svc) THEN {t.svc[svc]} ELSE {0}

\* _explicit_lookup: the operator's value, if there is one.
ExplicitLookup(proc, svc, t) ==
    IF Has(proc, t.proc) THEN {t.proc[proc]}
    ELSE IF Has(svc, t.svc) THEN {t.svc[svc]} ELSE {}

\* _is_sensitive.
IsSensitive(proc, svc, c) ==
    LET low(f, k) == Has(k, f) /\ f[k] > 0 /\ f[k] <= c.runtime.threshold
    IN  low(c.rates.syn.proc, proc) \/ low(c.rates.syn.svc, svc)

\* _port_rate_limit: SYN packets per source.
PortRateLimit(p, proc, c) ==
    LET explicit == ExplicitLookup(proc, Service(p), c.rates.syn)
    IN  IF Has(proc, c.rates.syn.proc) THEN c.rates.syn.proc[proc]
        ELSE IF IsSensitive(proc, Service(p), c) THEN c.runtime.synStrict
        ELSE IF explicit # {} THEN CHOOSE l \in explicit : TRUE ELSE c.runtime.syn

\* _syn_aggregate_rate_limit, _tcp_conn_limit, _tcp_conn_prefix_limit and
\* _tcp_conn_port_limit, which differ only in their tables and defaults.
TierLimit(p, proc, c) ==
    LET explicit == ExplicitLookup(proc, Service(p), c.rates.conn)
    IN  IF explicit # {} THEN CHOOSE l \in explicit : TRUE
        ELSE IF IsSensitive(proc, Service(p), c) THEN c.runtime.connStrict ELSE c.runtime.conn

\* _udp_port_rate_limit: no default.
UdpLimit(p, proc, c) ==
    LET explicit == ExplicitLookup(proc, Service(p), c.rates.udp)
    IN  IF explicit = {} THEN 0 ELSE CHOOSE l \in explicit : TRUE

\* resolve_desired_state: listed is the result of the TCP dump, open the
\* sockets when the names were looked up and UDP was dumped.
DesiredState(listed, open, c) ==
    LET tcp == {s.port : s \in listed} \cup c.perm
        heard == ListenUdp(open, c)
        udp == heard \cup c.uperm
        tproc(p) == TcpProcess(p, listed, open)
        uproc(p) == IF p \in heard THEN FirstUdp(p, open).proc ELSE ""
    IN  [tcp |-> tcp, udp |-> udp, trust |-> c.trust, acl |-> c.acl,
         syn   |-> [p \in tcp |-> PortRateLimit(p, tproc(p), c)],
         conn  |-> [p \in tcp |-> TierLimit(p, tproc(p), c)],
         urate |-> [p \in udp |-> UdpLimit(p, uproc(p), c)]]
=============================================================================
