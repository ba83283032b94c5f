--------------------------- MODULE NftablesProofs ---------------------------
(***************************************************************************)
(* Proofs about Nftables and the operators of Policy it is built from: for *)
(* any sockets, files, commands and tables, any number of changes, reloads *)
(* and faults, permanent ports stay open, a sync that ends well leaves the *)
(* policy that was wanted, and no TCP port is unlimited by accident.       *)
(***************************************************************************)
EXTENDS Nftables, TLAPS

-----------------------------------------------------------------------------
(* Configurations and files. *)

KeepsOpen(c) == Keep \subseteq c.perm

LEMMA Sections ==
  Section = {"perm", "uperm", "trust", "acl", "rates", "disc", "table", "runtime"}
  BY DEF Section, SectionOrder

LEMMA EditsInRange == EditPort \subseteq Port /\ Cidr \X EditPort \subseteq AclRule
  BY DEF Port, AclRule

\* One section of a configuration gets another value.
LEMMA SetSection ==
  ASSUME NEW c, IsConfig(c), NEW s \in Section \ {"rates", "table", "runtime"},
         NEW d, DOMAIN d = Section, \A r \in Section \ {s} : d[r] = c[r],
         s \in {"perm", "uperm"} => d[s] \subseteq Port,
         s = "trust" => d[s] \subseteq Source,
         s = "acl"   => d[s] \subseteq AclRule
  PROVE  IsConfig(d)
  BY Sections DEF IsConfig

\* A file gets another content.
LEMMA SetContent ==
  ASSUME NEW f, IsFile(f), NEW g, DOMAIN g = DOMAIN f, g.bad = f.bad, g.odd = f.odd,
         IsConfig(g.val)
  PROVE  IsFile(g)
  BY DEF IsFile

LEMMA EditSection ==
  ASSUME NEW f, IsFile(f), KeepsOpen(f.val), NEW s \in Section \ {"rates", "table", "runtime"},
         NEW v, NEW g, g = [f EXCEPT !.val = [f.val EXCEPT ![s] = v]],
         s \in {"perm", "uperm"} => v \subseteq Port,
         s = "perm"  => Keep \subseteq v,
         s = "trust" => v \subseteq Source,
         s = "acl"   => v \subseteq AclRule
  PROVE  IsFile(g) /\ KeepsOpen(g.val)
<1>. DEFINE c == f.val
            d == g.val
<1>1. IsConfig(c) /\ KeepsOpen(c) /\ DOMAIN c = Section
  BY DEF IsFile, IsConfig
<1>2. DOMAIN g = DOMAIN f /\ g.bad = f.bad /\ g.odd = f.odd /\ d = [c EXCEPT ![s] = v]
  BY DEF IsFile
<1>3. DOMAIN d = Section /\ d[s] = v /\ \A r \in Section \ {s} : d[r] = c[r]
  BY <1>1, <1>2
<1>. HIDE DEF c
<1>4. IsConfig(d)
  <2>. HIDE DEF d
  <2>. QED
    BY <1>1, <1>3, SetSection
<1>5. KeepsOpen(d)
  <2>1. CASE s = "perm"
    BY <2>1, <1>3 DEF KeepsOpen
  <2>2. CASE s # "perm"
    BY <2>2, <1>1, <1>3, Sections DEF KeepsOpen
  <2>. QED
    BY <2>1, <2>2
<1>6. IsFile(g)
  BY <1>2, <1>4, SetContent
<1>. QED
  BY <1>5, <1>6

\* The commands make files of files, and leave the kept ports alone.
LEMMA EditedFile ==
  ASSUME NEW f, IsFile(f), KeepsOpen(f.val), NEW g \in Edited(f)
  PROVE  IsFile(g) /\ KeepsOpen(g.val)
<1>1. IsConfig(f.val)
  BY DEF IsFile
<1>2. f.val.perm \subseteq Port /\ f.val.uperm \subseteq Port /\ f.val.trust \subseteq Source /\ f.val.acl \subseteq AclRule
      /\ Keep \subseteq f.val.perm
  BY <1>1 DEF IsConfig, KeepsOpen
<1>3. CASE g \in TrustEdits(f)
  <2>1. PICK v \in UNION {{f.val.trust \cup {x}, f.val.trust \ {x}} : x \in Cidr} :
          g = [f EXCEPT !.val = [f.val EXCEPT !["trust"] = v]]
    BY <1>3 DEF TrustEdits
  <2>2. v \subseteq Source
    BY <1>2, <2>1 DEF Source
  <2>. QED
    BY <2>1, <2>2, Sections, EditSection
<1>4. CASE g \in AclEdits(f)
  <2>1. PICK v : g = [f EXCEPT !.val = [f.val EXCEPT !["acl"] = v]] /\ v \subseteq AclRule
    <3>. DEFINE without(x) == {r \in f.val.acl : r[1] # x}
    <3>1. ASSUME NEW x \in Cidr, g = [f EXCEPT !.val.acl = without(x)]
          PROVE  \E v : g = [f EXCEPT !.val = [f.val EXCEPT !["acl"] = v]] /\ v \subseteq AclRule
      <4>1. without(x) \subseteq AclRule
        BY <1>2
      <4>. QED
        BY <3>1, <4>1
    <3>2. ASSUME NEW x \in Cidr, NEW p \in EditPort,
                 g = [f EXCEPT !.val.acl = without(x) \cup {<<x, p>>}]
          PROVE  \E v : g = [f EXCEPT !.val = [f.val EXCEPT !["acl"] = v]] /\ v \subseteq AclRule
      <4>1. <<x, p>> \in AclRule
        BY EditsInRange
      <4>2. without(x) \cup {<<x, p>>} \subseteq AclRule
        BY <1>2, <4>1
      <4>. QED
        BY <3>2, <4>2
    <3>3. \/ g \in {[f EXCEPT !.val.acl = without(x)] : x \in Cidr}
          \/ g \in {[f EXCEPT !.val.acl = without(x) \cup {<<x, p>>}] : x \in Cidr, p \in EditPort}
      BY <1>4 DEF AclEdits
    <3>. HIDE DEF without
    <3>. QED
      BY <3>1, <3>2, <3>3
  <2>. QED
    BY <2>1, Sections, EditSection
<1>5. CASE g \in PermanentEdits(f)
  <2>1. PICK s \in {"perm", "uperm"}, p \in EditPort :
          g \in {[f EXCEPT !.val[s] = @ \cup {p}], [f EXCEPT !.val[s] = @ \ {p}]}
    BY <1>5 DEF PermanentEdits
  <2>2. p \in Port /\ f.val[s] \subseteq Port /\ (s = "perm" => Keep \subseteq f.val[s])
    BY <1>2, EditsInRange
  <2>5. p \notin Keep
    <3>1. Keep \cap EditPort = {}
      BY NftAssumption
    <3>. QED
      BY <3>1
  <2>6. PICK v : /\ g = [f EXCEPT !.val = [f.val EXCEPT ![s] = v]]
                 /\ v = f.val[s] \cup {p} \/ v = f.val[s] \ {p}
    <3>1. CASE g = [f EXCEPT !.val[s] = @ \cup {p}]
      BY <3>1
    <3>2. CASE g = [f EXCEPT !.val[s] = @ \ {p}]
      BY <3>2
    <3>. QED
      BY <2>1, <3>1, <3>2
  <2>7. v \subseteq Port /\ (s = "perm" => Keep \subseteq v)
    BY <2>2, <2>5, <2>6
  <2>. QED
    BY <2>6, <2>7, Sections, EditSection
<1>6. CASE g \in ExcludeEdits(f)
  <2>1. PICK v : g = [f EXCEPT !.val = [f.val EXCEPT !["disc"] = v]]
    <3>1. ASSUME NEW p \in EditPort, g = [f EXCEPT !.val.disc.ports = @ \cup {p}]
                                     \/ g = [f EXCEPT !.val.disc.ports = @ \ {p}]
          PROVE  \E v : g = [f EXCEPT !.val = [f.val EXCEPT !["disc"] = v]]
      BY <3>1
    <3>2. ASSUME NEW x \in Cidr, g = [f EXCEPT !.val.disc.nets = @ \cup {x}]
                                 \/ g = [f EXCEPT !.val.disc.nets = @ \ {x}]
          PROVE  \E v : g = [f EXCEPT !.val = [f.val EXCEPT !["disc"] = v]]
      BY <3>2
    <3>4. \/ \E p \in EditPort : g \in {[f EXCEPT !.val.disc.ports = @ \cup {p}],
                                       [f EXCEPT !.val.disc.ports = @ \ {p}]}
          \/ \E x \in Cidr : g \in {[f EXCEPT !.val.disc.nets = @ \cup {x}],
                                   [f EXCEPT !.val.disc.nets = @ \ {x}]}
      BY <1>6 DEF ExcludeEdits
    <3>3. \/ \E p \in EditPort : g = [f EXCEPT !.val.disc.ports = @ \cup {p}]
                                  \/ g = [f EXCEPT !.val.disc.ports = @ \ {p}]
          \/ \E x \in Cidr : g = [f EXCEPT !.val.disc.nets = @ \cup {x}]
                              \/ g = [f EXCEPT !.val.disc.nets = @ \ {x}]
      BY <3>4
    <3>. QED
      BY <3>1, <3>2, <3>3
  <2>. QED
    BY <2>1, Sections, EditSection
<1>. QED
  BY <1>3, <1>4, <1>5, <1>6 DEF Edited

\* apply_toml_config with a file that does not raise.
LEMMA ApplyGood ==
  ASSUME NEW old, NEW f, IsFile(f), f.bad \cap Section = {}
  PROVE  IsConfig(ApplyToml(old, f)) /\ ApplyToml(old, f).perm = f.val.perm
<1>. DEFINE c == ApplyToml(old, f)
<1>1. c = [s \in Section |-> IF s \in f.odd THEN Default[s] ELSE f.val[s]]
  BY DEF ApplyToml, ApplyInPlace
<1>2. DOMAIN c = Section /\ \A s \in Section : c[s] = IF s \in f.odd THEN Default[s] ELSE f.val[s]
  BY <1>1
<1>. HIDE DEF c
<1>3. \A s \in Section \ {"runtime"} : c[s] = f.val[s]
  BY <1>2 DEF IsFile
<1>4. c.perm = f.val.perm /\ c.uperm = f.val.uperm /\ c.trust = f.val.trust /\ c.acl = f.val.acl /\ c.rates = f.val.rates
      /\ c.table = f.val.table /\ (c.runtime = f.val.runtime \/ c.runtime = Default.runtime)
  BY <1>2, <1>3, Sections
<1>5. IsConfig(f.val)
  BY DEF IsFile
<1>6. c.runtime \in Runtime
  BY <1>4, <1>5 DEF IsConfig, Runtime
<1>7. IsConfig(c)
  BY <1>2, <1>4, <1>5, <1>6 DEF IsConfig
<1>. QED
  BY <1>4, <1>7 DEF c

LEMMA CliConfig ==
  ASSUME NEW c, IsConfig(c)
  PROVE  IsConfig(WithCli(c)) /\ WithCli(c).perm = c.perm
<1>1. WithCli(c) = [c EXCEPT !["trust"] = c.trust \cup CliTrust]
  BY DEF WithCli
<1>2. c.trust \cup CliTrust \subseteq Source
  BY DEF IsConfig, Source
<1>. DEFINE d == WithCli(c)
            v == c.trust \cup CliTrust
<1>3. d = [c EXCEPT !["trust"] = v] /\ v \subseteq Source
  BY <1>1, <1>2
<1>. HIDE DEF d, v
<1>5. DOMAIN d = Section /\ d["trust"] = v /\ \A r \in Section \ {"trust"} : d[r] = c[r]
  BY <1>3, Sections DEF IsConfig
<1>4. IsConfig(d) /\ d.perm = c.perm
  BY <1>3, <1>5, Sections, SetSection
<1>. QED
  BY <1>4 DEF d

-----------------------------------------------------------------------------
(* Policy resolution. *)

\* The tables of the configuration and their values.
LEMMA ConfigLimits ==
  ASSUME NEW c, IsConfig(c)
  PROVE  /\ \A t \in {c.rates.syn, c.rates.conn, c.rates.udp} : \A m \in {t.proc, t.svc} :
              \A k \in DOMAIN m : m[k] \in Int
         /\ c.runtime.syn \in Nat \ {0} /\ c.runtime.synStrict \in Nat \ {0}
         /\ c.runtime.conn \in Nat \ {0} /\ c.runtime.connStrict \in Nat \ {0}
         /\ c.runtime.icmp \in Nat
<1>1. c.rates \in Rates /\ c.runtime \in Runtime
  BY DEF IsConfig
<1>. QED
  BY <1>1, LimitAssumption

LEMMA ExplicitValue ==
  ASSUME NEW proc, NEW svc, NEW t,
         \A m \in {t.proc, t.svc} : \A k \in DOMAIN m : m[k] \in Int,
         ExplicitLookup(proc, svc, t) # {}
  PROVE  LET l == CHOOSE x \in ExplicitLookup(proc, svc, t) : TRUE
         IN  /\ l \in Int
             /\ ~Has(proc, t.proc) => Has(svc, t.svc) /\ l = t.svc[svc]
<1>1. CASE Has(proc, t.proc)
  <2>1. ExplicitLookup(proc, svc, t) = {t.proc[proc]} /\ t.proc[proc] \in Int
    BY <1>1 DEF ExplicitLookup, Has
  <2>. QED
    BY <1>1, <2>1
<1>2. CASE ~Has(proc, t.proc)
  <2>1. Has(svc, t.svc) /\ ExplicitLookup(proc, svc, t) = {t.svc[svc]}
    BY <1>2 DEF ExplicitLookup
  <2>2. t.svc[svc] \in Int
    BY <2>1 DEF Has
  <2>. QED
    BY <1>2, <2>1, <2>2
<1>. QED
  BY <1>1, <1>2

\* _port_rate_limit gives no limit only where the configuration says so.
LEMMA RateLimitValue ==
  ASSUME NEW c, IsConfig(c), NEW p, NEW proc
  PROVE  /\ PortRateLimit(p, proc, c) \in Int
         /\ \/ PortRateLimit(p, proc, c) > 0
            \/ Has(proc, c.rates.syn.proc) /\ c.rates.syn.proc[proc] <= 0
            \/ Has(Service(p), c.rates.syn.svc) /\ c.rates.syn.svc[Service(p)] <= 0
<1>. DEFINE t == c.rates.syn
            explicit == ExplicitLookup(proc, Service(p), t)
            l == CHOOSE x \in explicit : TRUE
<1>1. \A m \in {t.proc, t.svc} : \A k \in DOMAIN m : m[k] \in Int
  BY ConfigLimits
<1>2. c.runtime.syn \in Nat \ {0} /\ c.runtime.synStrict \in Nat \ {0}
  BY ConfigLimits
<1>3. CASE Has(proc, t.proc)
  <2>1. PortRateLimit(p, proc, c) = t.proc[proc] /\ t.proc[proc] \in Int
    BY <1>1, <1>3 DEF PortRateLimit, Has
  <2>. QED
    BY <1>3, <2>1
<1>4. CASE ~Has(proc, t.proc) /\ IsSensitive(proc, Service(p), c)
  <2>1. PortRateLimit(p, proc, c) = c.runtime.synStrict
    BY <1>4 DEF PortRateLimit
  <2>. QED
    BY <1>2, <2>1
<1>5. CASE ~Has(proc, t.proc) /\ ~IsSensitive(proc, Service(p), c) /\ explicit # {}
  <2>1. PortRateLimit(p, proc, c) = l
    BY <1>5 DEF PortRateLimit
  <2>2. l \in Int /\ Has(Service(p), t.svc) /\ l = t.svc[Service(p)]
    BY <1>1, <1>5, ExplicitValue
  <2>. HIDE DEF l
  <2>3. l > 0 \/ l <= 0
    BY <2>2
  <2>. QED
    BY <2>1, <2>2, <2>3
<1>6. CASE ~Has(proc, t.proc) /\ ~IsSensitive(proc, Service(p), c) /\ explicit = {}
  <2>1. PortRateLimit(p, proc, c) = c.runtime.syn
    BY <1>6 DEF PortRateLimit
  <2>. QED
    BY <1>2, <2>1
<1>. QED
  BY <1>3, <1>4, <1>5, <1>6

LEMMA OtherLimits ==
  ASSUME NEW c, IsConfig(c), NEW p, NEW proc
  PROVE  TierLimit(p, proc, c) \in Int /\ UdpLimit(p, proc, c) \in Int
<1>1. TierLimit(p, proc, c) \in Int
  <2>1. \A m \in {c.rates.conn.proc, c.rates.conn.svc} : \A k \in DOMAIN m : m[k] \in Int
    BY ConfigLimits
  <2>2. c.runtime.conn \in Int /\ c.runtime.connStrict \in Int
    BY ConfigLimits
  <2>. QED
    BY <2>1, <2>2, ExplicitValue DEF TierLimit
<1>2. UdpLimit(p, proc, c) \in Int
  <2>1. \A m \in {c.rates.udp.proc, c.rates.udp.svc} : \A k \in DOMAIN m : m[k] \in Int
    BY ConfigLimits
  <2>. QED
    BY <2>1, ExplicitValue DEF UdpLimit
<1>. QED
  BY <1>1, <1>2

\* A process name comes from a socket of the port.
LEMMA ProcessOfSocket ==
  ASSUME NEW L, L \subseteq Socket, NEW O, NEW p, TcpProcess(p, L, O) # ""
  PROVE  \E s \in L : s.port = p /\ s.proc = TcpProcess(p, L, O)
<1>. DEFINE named == {s \in L : s.port = p /\ ProcName(s, O) # ""}
            last == CHOOSE s \in named : \A t \in named : t.id <= s.id
<1>1. named # {} /\ TcpProcess(p, L, O) = last.proc
  BY DEF TcpProcess
<1>2. \E s \in named : \A t \in named : t.id <= s.id
  BY <1>1, DumpAssumption
<1>3. last \in named
  BY <1>2
<1>. QED
  BY <1>1, <1>3

LEMMA LimitsIntro ==
  ASSUME NEW P \in SUBSET Port, NEW f \in [P -> Int]
  PROVE  f \in Limits
  BY DEF Limits

\* A policy with a limit for each port it opens, resolved from listed sockets L
\* and open sockets O.
Resolved(d, L, O, c) ==
  /\ d \in Desired /\ c.perm \subseteq d.tcp
  /\ DOMAIN d.syn = d.tcp /\ DOMAIN d.conn = d.tcp /\ DOMAIN d.urate = d.udp
  /\ \A p \in d.tcp : d.syn[p] = PortRateLimit(p, TcpProcess(p, L, O), c)

LEMMA DesiredType ==
  ASSUME NEW L, L \subseteq Socket, NEW O, O \subseteq Socket, NEW c, IsConfig(c)
  PROVE  Resolved(DesiredState(L, O, c), L, O, c)
<1>. DEFINE d == DesiredState(L, O, c)
            tcp == {s.port : s \in L} \cup c.perm
            heard == ListenUdp(O, c)
            udp == heard \cup c.uperm
            uproc(p) == IF p \in heard THEN FirstUdp(p, O).proc ELSE ""
            syn == [p \in tcp |-> PortRateLimit(p, TcpProcess(p, L, O), c)]
            conn == [p \in tcp |-> TierLimit(p, TcpProcess(p, L, O), c)]
            urate == [p \in udp |-> UdpLimit(p, uproc(p), c)]
<1>1. d = [tcp |-> tcp, udp |-> udp, trust |-> c.trust, acl |-> c.acl,
           syn |-> syn, conn |-> conn, urate |-> urate]
  BY Zenon DEF DesiredState
<1>2. {s.port : s \in Socket} \subseteq Port
  BY DEF Port
<1>3. tcp \subseteq Port
  BY <1>2 DEF IsConfig
<1>4. udp \subseteq Port
  <2>1. heard \subseteq {s.port : s \in O}
    BY DEF ListenUdp
  <2>2. c.uperm \subseteq Port
    BY DEF IsConfig
  <2>. HIDE DEF heard
  <2>. QED
    BY <1>2, <2>1, <2>2
<1>5. syn \in [tcp -> Int]
  <2>. HIDE DEF tcp
  <2>. QED
    BY RateLimitValue
<1>6. conn \in [tcp -> Int]
  <2>. HIDE DEF tcp
  <2>. QED
    BY OtherLimits
<1>7. urate \in [udp -> Int]
  <2>. HIDE DEF udp, uproc
  <2>. QED
    BY OtherLimits
<1>8. syn \in Limits /\ conn \in Limits /\ urate \in Limits
  <2>. HIDE DEF tcp, udp, syn, conn, urate
  <2>. QED
    BY <1>3, <1>4, <1>5, <1>6, <1>7, LimitsIntro
<1>9. c.trust \subseteq Source /\ c.acl \subseteq AclRule
  BY DEF IsConfig
<1>10. \A p \in tcp : syn[p] = PortRateLimit(p, TcpProcess(p, L, O), c)
  OBVIOUS
<1>14. c.perm \subseteq tcp
  OBVIOUS
<1>. HIDE DEF d, syn, conn, urate, udp, tcp
<1>11. d \in Desired
  BY <1>1, <1>3, <1>4, <1>8, <1>9 DEF Desired
<1>12. d.tcp = tcp /\ d.udp = udp /\ d.trust = c.trust /\ d.acl = c.acl
       /\ d.syn = syn /\ d.conn = conn /\ d.urate = urate
  BY <1>1
<1>13. DOMAIN syn = tcp /\ DOMAIN conn = tcp /\ DOMAIN urate = udp
  BY <1>5, <1>6, <1>7
<1>15. Resolved(d, L, O, c)
  BY <1>10, <1>11, <1>12, <1>13, <1>14 DEF Resolved
<1>. QED
  BY <1>15 DEF d

-----------------------------------------------------------------------------
(* Rulesets. *)

LimitsOn(f, P) == DOMAIN f \subseteq P /\ \A p \in DOMAIN f : f[p] \in Int

\* A policy that makes a ruleset.
Renderable(d) ==
  /\ d.tcp \subseteq Port /\ d.udp \subseteq Port
  /\ d.trust \subseteq Source /\ d.acl \subseteq AclRule
  /\ LimitsOn(d.syn, d.tcp) /\ LimitsOn(d.conn, d.tcp) /\ LimitsOn(d.urate, d.udp)

LEMMA RulesOfLimits ==
  ASSUME NEW f, NEW P \in SUBSET Port, LimitsOn(f, P)
  PROVE  Rules(f) \in RuleSet /\ \A x \in Rules(f) : x[1] \in P
<1>1. ASSUME NEW x \in Rules(f)
      PROVE  x \in Port \X (Nat \ {0}) /\ x[1] \in P
  <2>1. PICK p \in DOMAIN f : f[p] > 0 /\ x = <<p, f[p]>>
    BY DEF Rules
  <2>2. p \in P /\ f[p] \in Int
    BY DEF LimitsOn
  <2>3. f[p] \in Nat \ {0}
    BY <2>1, <2>2
  <2>. QED
    BY <2>1, <2>2, <2>3
<1>. QED
  BY <1>1 DEF RuleSet

\* _render_ruleset gives rules only for the ports it admits.
LEMMA RenderType ==
  ASSUME NEW d, Renderable(d), NEW c, IsConfig(c)
  PROVE  Render(d, c) \in Ruleset /\ RulesFit(Render(d, c))
<1>1. /\ Rules(d.syn) \in RuleSet /\ \A x \in Rules(d.syn) : x[1] \in d.tcp
      /\ Rules(d.conn) \in RuleSet /\ \A x \in Rules(d.conn) : x[1] \in d.tcp
      /\ Rules(d.urate) \in RuleSet /\ \A x \in Rules(d.urate) : x[1] \in d.udp
  BY RulesOfLimits DEF Renderable
<1>2. c.runtime.icmp \in Nat
  BY ConfigLimits
<1>3. Render(d, c) \in Ruleset
  BY <1>1, <1>2 DEF Render, Ruleset, Renderable
<1>4. RulesFit(Render(d, c))
  BY <1>1 DEF Render, RulesFit
<1>. QED
  BY <1>3, <1>4

LEMMA ResolvedRenderable ==
  ASSUME NEW d, NEW L, NEW O, NEW c, Resolved(d, L, O, c)
  PROVE  Renderable(d)
<1>1. d \in Desired /\ DOMAIN d.syn = d.tcp /\ DOMAIN d.conn = d.tcp /\ DOMAIN d.urate = d.udp
  BY DEF Resolved
<1>2. ASSUME NEW f \in Limits, NEW P, DOMAIN f = P
      PROVE  LimitsOn(f, P)
  BY <1>2 DEF LimitsOn, Limits
<1>3. d.syn \in Limits /\ d.conn \in Limits /\ d.urate \in Limits
  BY <1>1 DEF Desired
<1>4. LimitsOn(d.syn, d.tcp) /\ LimitsOn(d.conn, d.tcp) /\ LimitsOn(d.urate, d.udp)
  BY <1>1, <1>2, <1>3
<1>. QED
  BY <1>1, <1>4 DEF Renderable, Desired

\* _ensure_ruleset: the first policy makes a ruleset, and keeps the ports.
LEMMA BootstrapRenderable ==
  ASSUME NEW t \in Table, KernelType
  PROVE  Renderable(Bootstrap(t)) /\ (kernel[t] # None => Bootstrap(t).tcp = kernel[t].tcp)
<1>1. LimitsOn(<<>>, {}) /\ \A P : LimitsOn(<<>>, P)
  BY DEF LimitsOn
<1>2. CASE kernel[t] = None
  <2>1. Bootstrap(t) = NoPorts
    BY <1>2 DEF Bootstrap
  <2>. QED
    BY <1>1, <1>2, <2>1 DEF NoPorts, Renderable
<1>3. CASE kernel[t] # None
  <2>1. kernel[t] \in Ruleset
    BY <1>3 DEF KernelType
  <2>2. /\ Bootstrap(t).tcp = kernel[t].tcp /\ Bootstrap(t).udp = kernel[t].udp
        /\ Bootstrap(t).trust = kernel[t].trust /\ Bootstrap(t).acl = {}
        /\ Bootstrap(t).syn = <<>> /\ Bootstrap(t).conn = <<>> /\ Bootstrap(t).urate = <<>>
    BY <1>3 DEF Bootstrap, NoPorts
  <2>3. kernel[t].tcp \subseteq Port /\ kernel[t].udp \subseteq Port /\ kernel[t].trust \subseteq Source
    BY <2>1 DEF Ruleset
  <2>. QED
    BY <1>1, <2>2, <2>3 DEF Renderable
<1>. QED
  BY <1>2, <1>3

\* A table that gets the marker of the schema.
LEMMA Marked ==
  ASSUME NEW r \in Ruleset, RulesFit(r)
  PROVE  /\ [r EXCEPT !.schema = 2] \in Ruleset /\ RulesFit([r EXCEPT !.schema = 2])
         /\ [r EXCEPT !.schema = 2].tcp = r.tcp
  BY DEF Ruleset, RulesFit

-----------------------------------------------------------------------------
(* The inductive invariant. *)

\* No file that is there, was read or was applied is without the kept ports.
FileInv ==
  /\ FileType /\ KeepsOpen(file.val)
  /\ \A a \in Admin : held[a] # None => KeepsOpen(held[a].val)

ConfigInv == ConfigType /\ (backend # "down" /\ ~blind => KeepsOpen(running))

\* A table holds the policy of a signature.
Fits(r, s) ==
  /\ r.schema = 2 /\ r.tcp = s[1] /\ r.udp = s[2] /\ r.trust = s[3] /\ r.acl = s[4]
  /\ r.syn = Rules(s[5]) /\ r.conn = Rules(s[6]) /\ r.urate = Rules(s[7])

\* What the backend remembers is what its table holds, while it is there.
Remembers ==
  sig # None => (kernel[running.table] # None =>
                   Fits(kernel[running.table], sig) /\ kernel[running.table].icmp = icmpAt)

\* The policy about to be applied was resolved with the configuration that is
\* still the running one.
Wanting ==
  pc = "apply" => \E L, O : L \subseteq Socket /\ Resolved(want, L, O, running)

Inv ==
  /\ FileInv /\ ConfigInv /\ KernelType /\ DaemonType /\ CountType
  /\ Remembers /\ Wanting

\* What a step that leaves the variables alone keeps.
LEMMA FileFrame ==
  ASSUME FileInv, UNCHANGED <<file, held>>
  PROVE  FileInv'
  BY DEF FileInv, FileType

LEMMA ConfigFrame ==
  ASSUME ConfigInv, UNCHANGED <<running, backend, blind>>
  PROVE  ConfigInv'
  BY DEF ConfigInv, ConfigType

LEMMA KernelFrame ==
  ASSUME KernelType, UNCHANGED kernel
  PROVE  KernelType'
  BY DEF KernelType

LEMMA DaemonFrame ==
  ASSUME DaemonType, UNCHANGED <<open, listed, hup, backend, sig, pc, want, blind, icmpAt>>
  PROVE  DaemonType'
  BY DEF DaemonType

LEMMA CountFrame ==
  ASSUME CountType, UNCHANGED boundVars
  PROVE  CountType'
  BY DEF CountType, boundVars

LEMMA RemembersFrame ==
  ASSUME Remembers, UNCHANGED <<sig, kernel, running, icmpAt>>
  PROVE  Remembers'
  BY DEF Remembers

LEMMA WantingFrame ==
  ASSUME Wanting, UNCHANGED <<pc, want, running>>
  PROVE  Wanting'
  BY DEF Wanting

\* A counted fault stays within its bound.
LEMMA FaultCount ==
  ASSUME CountType, Fault
  PROVE  faults' \in 0..MaxFaults
  BY NftAssumption DEF CountType, Fault

LEMMA RunningTable ==
  ASSUME ConfigInv
  PROVE  running.table \in Table
  BY DEF ConfigInv, ConfigType, IsConfig

\* The initial states satisfy the invariant.
LEMMA InvInit == Init => Inv
<1>. SUFFICES ASSUME Init PROVE Inv
  OBVIOUS
<1>1. IsFile(InitFile) /\ KeepsOpen(InitFile.val) /\ InitFile.bad = {}
  BY NftAssumption DEF KeepsOpen
<1>2. FileInv
  BY <1>1 DEF Init, FileInv, FileType
<1>3. ConfigInv
  BY NftAssumption, CliConfig DEF Init, ConfigInv, ConfigType
<1>4. KernelType
  BY NftAssumption DEF Init, KernelType
<1>5. DaemonType
  BY NftAssumption DEF Init, DaemonType
<1>6. CountType
  <2>1. MaxChanges \in Nat /\ MaxEdits \in Nat /\ MaxHups \in Nat /\ MaxFaults \in Nat
    BY NftAssumption
  <2>. QED
    BY <2>1 DEF Init, CountType
<1>7. Remembers /\ Wanting
  BY DEF Init, Remembers, Wanting
<1>. QED
  BY <1>2, <1>3, <1>4, <1>5, <1>6, <1>7 DEF Inv

-----------------------------------------------------------------------------
(* One lemma per action. *)

LEMMA InvChangeSocket ==
  ASSUME Inv, NEW s \in Socket, ChangeSocket(s)
  PROVE  Inv'
<1>1. DaemonType'
  BY DEF Inv, ChangeSocket, DaemonType, syncVars, histVars
<1>2. CountType'
  BY NftAssumption DEF Inv, ChangeSocket, CountType
<1>. QED
  BY <1>1, <1>2, FileFrame, ConfigFrame, KernelFrame, RemembersFrame, WantingFrame
  DEF Inv, ChangeSocket, syncVars, histVars

LEMMA InvAdminRead ==
  ASSUME Inv, NEW a \in Admin, AdminRead(a)
  PROVE  Inv'
<1>1. FileInv'
  BY DEF Inv, AdminRead, FileInv, FileType
<1>. QED
  BY <1>1, ConfigFrame, KernelFrame, DaemonFrame, CountFrame, RemembersFrame, WantingFrame
  DEF Inv, AdminRead, syncVars, histVars

LEMMA InvAdminWrite ==
  ASSUME Inv, NEW a \in Admin, AdminWrite(a)
  PROVE  Inv'
<1>1. FileInv'
  <2>1. IsFile(held[a]) /\ KeepsOpen(held[a].val)
    BY DEF Inv, AdminWrite, FileInv, FileType
  <2>2. file' \in Edited(held[a])
    BY DEF AdminWrite, WriteToml
  <2>3. IsFile(file') /\ KeepsOpen(file'.val)
    BY <2>1, <2>2, EditedFile
  <2>. QED
    BY <2>3 DEF Inv, AdminWrite, FileInv, FileType
<1>2. CountType'
  BY NftAssumption DEF Inv, AdminWrite, CountType
<1>. QED
  BY <1>1, <1>2, ConfigFrame, KernelFrame, DaemonFrame, RemembersFrame, WantingFrame
  DEF Inv, AdminWrite, syncVars, histVars

LEMMA InvHandEdit ==
  ASSUME Inv, NEW f \in Files, HandEdit(f)
  PROVE  Inv'
<1>1. FileInv'
  <2>1. IsFile(f) /\ KeepsOpen(f.val)
    BY NftAssumption DEF KeepsOpen
  <2>. QED
    BY <2>1 DEF Inv, HandEdit, FileInv, FileType
<1>2. CountType'
  BY NftAssumption DEF Inv, HandEdit, CountType
<1>. QED
  BY <1>1, <1>2, ConfigFrame, KernelFrame, DaemonFrame, RemembersFrame, WantingFrame
  DEF Inv, HandEdit, syncVars, histVars

LEMMA InvSighup ==
  ASSUME Inv, Sighup
  PROVE  Inv'
<1>1. DaemonType'
  BY DEF Inv, Sighup, DaemonType, syncVars, outerVars, histVars
<1>2. CountType'
  BY NftAssumption DEF Inv, Sighup, CountType
<1>. QED
  BY <1>1, <1>2, FileFrame, ConfigFrame, KernelFrame, RemembersFrame, WantingFrame
  DEF Inv, Sighup, syncVars, outerVars, histVars

LEMMA InvRemoveTable ==
  ASSUME Inv, NEW t \in Table, RemoveTable(t)
  PROVE  Inv'
<1>1. KernelType'
  BY DEF Inv, RemoveTable, KernelType
<1>2. Remembers'
  <2>1. running.table \in Table
    BY RunningTable DEF Inv
  <2>2. kernel'[running.table] = None \/ kernel'[running.table] = kernel[running.table]
    BY <2>1 DEF Inv, RemoveTable, KernelType
  <2>. QED
    BY <2>2 DEF Inv, RemoveTable, Remembers, histVars
<1>3. CountType'
  BY FaultCount DEF Inv, RemoveTable, CountType
<1>. QED
  BY <1>1, <1>2, <1>3, FileFrame, ConfigFrame, DaemonFrame, WantingFrame
  DEF Inv, RemoveTable, syncVars, outerVars, histVars

LEMMA InvKill ==
  ASSUME Inv, Kill
  PROVE  Inv'
<1>1. DaemonType'
  BY DEF Inv, Kill, DaemonType, outerVars
<1>2. CountType'
  BY FaultCount DEF Inv, Kill, CountType
<1>3. Remembers' /\ Wanting'
  BY DEF Kill, Remembers, Wanting
<1>4. ConfigInv'
  BY DEF Inv, ConfigInv, ConfigType, Kill
<1>. QED
  BY <1>1, <1>2, <1>3, <1>4, FileFrame, KernelFrame DEF Inv, Kill, outerVars, histVars

LEMMA InvStart ==
  ASSUME Inv, Start \/ StartBlind
  PROVE  Inv'
<1>1. CASE Start
  <2>1. IsFile(file) /\ KeepsOpen(file.val) /\ file.bad = {}
    BY <1>1 DEF Inv, FileInv, FileType, Start
  <2>2. IsConfig(ApplyToml(Default, file)) /\ KeepsOpen(ApplyToml(Default, file))
    BY <2>1, ApplyGood DEF KeepsOpen
  <2>3. IsConfig(running') /\ KeepsOpen(running')
    BY <1>1, <2>2, CliConfig DEF Start, KeepsOpen
  <2>4. ConfigInv'
    BY <2>3 DEF ConfigInv, ConfigType
  <2>5. CountType'
    BY <1>1, CountFrame DEF Inv, Start
  <2>. QED
    BY <1>1, <2>4, <2>5, FileFrame, KernelFrame
    DEF Inv, Start, DaemonType, Remembers, Wanting, syncVars, outerVars
<1>2. CASE StartBlind
  <2>1. ConfigInv'
    BY <1>2, NftAssumption, CliConfig DEF StartBlind, ConfigInv, ConfigType
  <2>2. CountType'
    BY <1>2, FaultCount DEF Inv, StartBlind, CountType
  <2>. QED
    BY <1>2, <2>1, <2>2, FileFrame, KernelFrame
    DEF Inv, StartBlind, DaemonType, Remembers, Wanting, syncVars, outerVars
<1>. QED
  BY <1>1, <1>2

LEMMA InvWake ==
  ASSUME Inv, Wake
  PROVE  Inv'
<1>1. DaemonType' /\ Wanting'
  BY DEF Inv, Wake, DaemonType, Wanting, outerVars, histVars
<1>. QED
  BY <1>1, FileFrame, ConfigFrame, KernelFrame, CountFrame, RemembersFrame
  DEF Inv, Wake, outerVars, histVars

\* _ensure_ruleset keeps a good table, and renders the bootstrap policy else.
LEMMA InvOpenBackend ==
  ASSUME Inv, OpenBackend
  PROVE  Inv'
<1>. DEFINE t == running.table
<1>1. t \in Table
  BY RunningTable DEF Inv
<1>2. \/ kernel' = kernel \/ kernel' = [kernel EXCEPT ![t] = Render(Bootstrap(t), running)]
      \/ kernel[t] # None /\ kernel' = [kernel EXCEPT ![t] = [kernel[t] EXCEPT !.schema = 2]]
  BY DEF OpenBackend
<1>3. KernelType'
  <2>1. Render(Bootstrap(t), running) \in Ruleset /\ RulesFit(Render(Bootstrap(t), running))
    BY <1>1, BootstrapRenderable, RenderType DEF Inv, ConfigInv, ConfigType
  <2>2. kernel[t] # None =>
          [kernel[t] EXCEPT !.schema = 2] \in Ruleset /\ RulesFit([kernel[t] EXCEPT !.schema = 2])
    BY <1>1, Marked DEF Inv, KernelType
  <2>. HIDE DEF t
  <2>. QED
    BY <1>1, <1>2, <2>1, <2>2 DEF Inv, KernelType
<1>4. sig = None /\ sig' = None
  BY DEF Inv, DaemonType, OpenBackend
<1>5. DaemonType'
  BY <1>4 DEF Inv, DaemonType, OpenBackend, outerVars, histVars
<1>6. CountType'
  BY FaultCount DEF Inv, CountType, OpenBackend
<1>7. Remembers' /\ Wanting'
  BY <1>4 DEF OpenBackend, Remembers, Wanting
<1>8. ConfigInv'
  BY DEF Inv, ConfigInv, ConfigType, OpenBackend, histVars
<1>. QED
  BY <1>3, <1>5, <1>6, <1>7, <1>8, FileFrame DEF Inv, OpenBackend, outerVars, histVars

LEMMA InvDumpTcp ==
  ASSUME Inv, DumpTcp
  PROVE  Inv'
<1>1. ListenTcp(open, running) \subseteq open
  BY DEF ListenTcp
<1>2. DaemonType'
  BY <1>1 DEF Inv, DaemonType, DumpTcp, outerVars, histVars
<1>3. CountType'
  BY FaultCount DEF Inv, CountType, DumpTcp
<1>4. Wanting'
  BY DEF DumpTcp, Wanting
<1>. QED
  BY <1>2, <1>3, <1>4, FileFrame, ConfigFrame, KernelFrame, RemembersFrame
  DEF Inv, DumpTcp, outerVars, histVars

LEMMA InvDumpUdp ==
  ASSUME Inv, DumpUdp
  PROVE  Inv'
<1>1. Resolved(DesiredState(listed, open, running), listed, open, running)
  BY DesiredType DEF Inv, DaemonType, ConfigInv, ConfigType
<1>2. DesiredState(listed, open, running) # None
  BY <1>1, NoneAssumption DEF Resolved
<1>3. DaemonType'
  BY <1>2 DEF Inv, DaemonType, DumpUdp, outerVars, histVars
<1>4. CountType'
  BY FaultCount DEF Inv, CountType, DumpUdp
<1>5. Wanting'
  <2>1. CASE want' = DesiredState(listed, open, running) /\ pc' = "apply"
    <3>1. listed \subseteq Socket /\ running' = running
      BY DEF Inv, DaemonType, DumpUdp
    <3>. QED
      BY <1>1, <2>1, <3>1 DEF Wanting
  <2>2. CASE pc' = "idle"
    BY <2>2 DEF Wanting
  <2>. QED
    BY <2>1, <2>2 DEF DumpUdp
<1>. QED
  BY <1>3, <1>4, <1>5, FileFrame, ConfigFrame, KernelFrame, RemembersFrame
  DEF Inv, DumpUdp, outerVars, histVars

\* The policy about to be applied makes a ruleset and a signature.
LEMMA WantRenders ==
  ASSUME Inv, pc = "apply"
  PROVE  /\ Render(want, running) \in Ruleset /\ RulesFit(Render(want, running))
         /\ Signature(want, running) # None
         /\ Fits(Render(want, running), Signature(want, running))
         /\ ~blind => Keep \subseteq want.tcp
<1>1. PICK L, O : L \subseteq Socket /\ Resolved(want, L, O, running)
  BY DEF Inv, Wanting
<1>2. Render(want, running) \in Ruleset /\ RulesFit(Render(want, running))
  BY <1>1, ResolvedRenderable, RenderType DEF Inv, ConfigInv, ConfigType
<1>3. Signature(want, running) \in Signed
  BY <1>1, RunningTable DEF Inv, Resolved, Signature, Signed, Desired
<1>4. Fits(Render(want, running), Signature(want, running))
  BY DEF Fits, Render, Signature
<1>5. ~blind => Keep \subseteq want.tcp
  BY <1>1 DEF Resolved, Inv, ConfigInv, KeepsOpen, DaemonType
<1>. QED
  BY <1>2, <1>3, <1>4, <1>5, NoneAssumption

LEMMA InvApplySkip ==
  ASSUME Inv, ApplySkip
  PROVE  Inv'
<1>1. DaemonType' /\ Wanting'
  BY DEF Inv, ApplySkip, DaemonType, Wanting, outerVars, histVars
<1>. QED
  BY <1>1, FileFrame, ConfigFrame, KernelFrame, CountFrame, RemembersFrame
  DEF Inv, ApplySkip, outerVars, histVars

LEMMA InvApplyInstall ==
  ASSUME Inv, ApplyInstall
  PROVE  Inv'
<1>. DEFINE t == running.table
<1>1. t \in Table /\ kernel' = [kernel EXCEPT ![t] = Render(want, running)]
  BY RunningTable DEF Inv, ApplyInstall
<1>2. /\ Render(want, running) \in Ruleset /\ RulesFit(Render(want, running))
      /\ Fits(Render(want, running), Signature(want, running))
  BY WantRenders DEF ApplyInstall
<1>3. KernelType'
  <2>. HIDE DEF t
  <2>. QED
    BY <1>1, <1>2 DEF Inv, KernelType
<1>6. running.runtime.icmp \in Nat /\ Signature(want, running) # None
  BY ConfigLimits, WantRenders DEF ApplyInstall, Inv, ConfigInv, ConfigType
<1>4. DaemonType' /\ Wanting'
  BY <1>6 DEF Inv, ApplyInstall, DaemonType, Wanting, outerVars
<1>5. Remembers'
  <2>1. kernel'[t] = Render(want, running)
    BY <1>1 DEF Inv, KernelType
  <2>. QED
    BY <1>2, <2>1 DEF Remembers, ApplyInstall, Render
<1>. QED
  BY <1>3, <1>4, <1>5, FileFrame, ConfigFrame, CountFrame DEF Inv, ApplyInstall, outerVars

LEMMA InvApplyFails ==
  ASSUME Inv, ApplyFails
  PROVE  Inv'
<1>1. DaemonType' /\ Wanting' /\ Remembers'
  BY DEF Inv, ApplyFails, DropBackend, DaemonType, Wanting, Remembers, outerVars
<1>2. CountType'
  BY FaultCount DEF Inv, CountType, ApplyFails
<1>3. ConfigInv'
  BY DEF Inv, ConfigInv, ConfigType, DaemonType, ApplyFails, DropBackend
<1>. QED
  BY <1>1, <1>2, <1>3, FileFrame, KernelFrame DEF Inv, ApplyFails, outerVars

LEMMA InvReload ==
  ASSUME Inv, Reload
  PROVE  Inv'
<1>1. IsFile(file) /\ KeepsOpen(file.val) /\ IsConfig(running)
  BY DEF Inv, FileInv, FileType, ConfigInv, ConfigType
<1>2. \/ IsConfig(running') /\ KeepsOpen(running')
      \/ running' = running /\ blind' = blind
  <2>1. CASE file.bad \cap Section = {} /\ running' = WithCli(ApplyToml(running, file))
    <3>1. IsConfig(ApplyToml(running, file)) /\ ApplyToml(running, file).perm = file.val.perm
      BY <1>1, <2>1, ApplyGood
    <3>. QED
      BY <1>1, <2>1, <3>1, CliConfig DEF KeepsOpen
  <2>2. CASE file.bad \cap Section # {} /\ running' = ApplyToml(running, file) /\ blind' = blind
    BY <2>2 DEF ApplyToml
  <2>3. CASE running' = running /\ blind' = blind
    BY <2>3
  <2>. QED
    BY <2>1, <2>2, <2>3 DEF Reload
<1>3. ConfigInv'
  BY <1>2 DEF Inv, ConfigInv, ConfigType, Reload
<1>4. pc = "idle" /\ pc' = "idle" /\ want' = want /\ kernel' = kernel /\ blind' \in BOOLEAN
  BY DEF Reload, syncVars, Inv, DaemonType
<1>5. DaemonType'
  BY <1>4 DEF Inv, DaemonType, Reload, syncVars, outerVars
<1>6. Remembers' /\ Wanting'
  BY <1>4 DEF Inv, Remembers, Wanting, Reload
<1>7. CountType'
  BY FaultCount DEF Inv, CountType, Reload
<1>. QED
  BY <1>3, <1>4, <1>5, <1>6, <1>7, FileFrame, KernelFrame DEF Inv, Reload, outerVars

\* Every step keeps the invariant.
LEMMA InvNext == Inv /\ [Next]_vars => Inv'
<1>. SUFFICES ASSUME Inv, [Next]_vars PROVE Inv'
  OBVIOUS
<1>1. CASE UNCHANGED vars
  BY <1>1, FileFrame, ConfigFrame, KernelFrame, DaemonFrame, CountFrame, RemembersFrame,
     WantingFrame DEF Inv, vars, boundVars, histVars
<1>2. CASE \E s \in Socket : ChangeSocket(s)
  BY <1>2, InvChangeSocket
<1>3. CASE \E a \in Admin : AdminRead(a) \/ AdminWrite(a)
  BY <1>3, InvAdminRead, InvAdminWrite
<1>4. CASE \E f \in Files : HandEdit(f)
  BY <1>4, InvHandEdit
<1>5. CASE \E t \in Table : RemoveTable(t)
  BY <1>5, InvRemoveTable
<1>6. CASE Sighup \/ Kill \/ Start \/ StartBlind \/ Wake \/ Reload
  BY <1>6, InvSighup, InvKill, InvStart, InvWake, InvReload
<1>7. CASE DaemonStep
  BY <1>7, InvOpenBackend, InvDumpTcp, InvDumpUdp, InvApplySkip, InvApplyInstall, InvApplyFails
  DEF DaemonStep
<1>. QED
  BY <1>1, <1>2, <1>3, <1>4, <1>5, <1>6, <1>7 DEF Next

\* The variables of the model have their types, and a table never holds a rule
\* for a port it does not admit: in every state, for all constants.
THEOREM TypeCorrect == Spec => []TypeOK
<1>1. Inv => TypeOK
  BY DEF Inv, TypeOK, FileInv, ConfigInv
<1>. QED
  BY <1>1, InvInit, InvNext, PTL DEF Spec

-----------------------------------------------------------------------------
(* What the steps of the daemon do to the tables. *)

\* Every step leaves a table as it is, removes it, or gives it a ruleset that
\* admits the kept ports it had.
LEMMA KeepStep ==
  ASSUME Inv, [Next]_vars, ~blind, NEW t \in Table, kernel[t] # None, kernel'[t] # None
  PROVE  Keep \cap kernel[t].tcp \subseteq kernel'[t].tcp
<1>. DEFINE r == running.table
<1>1. r \in Table /\ kernel \in [Table -> Ruleset \cup {None}]
  BY RunningTable DEF Inv, KernelType
<1>2. CASE kernel' = kernel
  BY <1>2
<1>3. ASSUME NEW u \in Table, RemoveTable(u)
      PROVE  Keep \cap kernel[t].tcp \subseteq kernel'[t].tcp
  BY <1>1, <1>3 DEF RemoveTable
<1>4. CASE OpenBackend
  <2>1. \/ kernel' = kernel \/ kernel' = [kernel EXCEPT ![r] = Render(Bootstrap(r), running)]
        \/ kernel[r] # None /\ kernel' = [kernel EXCEPT ![r] = [kernel[r] EXCEPT !.schema = 2]]
    BY <1>4 DEF OpenBackend
  <2>3. kernel[r] # None => [kernel[r] EXCEPT !.schema = 2].tcp = kernel[r].tcp
    BY <1>1, Marked DEF Inv, KernelType
  <2>2. kernel[r] # None => Render(Bootstrap(r), running).tcp = kernel[r].tcp
    BY <1>1, BootstrapRenderable DEF Inv, Render
  <2>. HIDE DEF r
  <2>. QED
    BY <1>1, <2>1, <2>2, <2>3
<1>5. CASE ApplyInstall
  <2>1. kernel' = [kernel EXCEPT ![r] = Render(want, running)]
    BY <1>5 DEF ApplyInstall
  <2>2. Keep \subseteq Render(want, running).tcp
    BY <1>5, WantRenders DEF ApplyInstall, Render
  <2>. HIDE DEF r
  <2>. QED
    BY <1>1, <2>1, <2>2
<1>6. kernel' = kernel \/ (\E u \in Table : RemoveTable(u)) \/ OpenBackend \/ ApplyInstall
  BY DEF Next, DaemonStep, vars, ChangeSocket, AdminRead, AdminWrite, HandEdit, Sighup, Kill,
         Start, StartBlind, Wake, Reload, DumpTcp, DumpUdp, ApplySkip, ApplyFails
<1>. QED
  BY <1>2, <1>3, <1>4, <1>5, <1>6

\* A permanent port that every version of config.toml lists is never taken out
\* of a table that admits it, by a daemon that has read the file: reload, racing
\* commands, migration, install, failure and restart all keep it.
THEOREM PermanentPortsStay == Spec => PermanentStaysOpen
<1>1. Inv /\ [Next]_vars =>
        [~blind => \A t \in Table : (kernel[t] # None /\ kernel'[t] # None) =>
            Keep \cap kernel[t].tcp \subseteq kernel'[t].tcp]_vars
  BY KeepStep
<1>. QED
  BY <1>1, InvInit, InvNext, PTL DEF Spec, PermanentStaysOpen

\* A ruleset is known by the policy it fits and its ICMP limit.
LEMMA SameRuleset ==
  ASSUME NEW x \in Ruleset, NEW y \in Ruleset, NEW s, Fits(x, s), Fits(y, s)
  PROVE  x = [y EXCEPT !.icmp = x.icmp]
  BY DEF Fits, Ruleset

\* After a sync_once without an error the table has what was wanted.
LEMMA SyncedTable ==
  ASSUME Inv, [Next]_vars, SyncDone
  PROVE  /\ kernel'[running.table] = [Render(want, running) EXCEPT !.icmp = icmpAt']
         /\ Fits(kernel'[running.table], Signature(want, running))
<1>. DEFINE r == running.table
<1>1. r \in Table /\ kernel \in [Table -> Ruleset \cup {None}] /\ kernel[r] # None
  BY RunningTable DEF Inv, KernelType, SyncDone
<1>2. /\ Render(want, running) \in Ruleset
      /\ Fits(Render(want, running), Signature(want, running))
      /\ Signature(want, running) # None
  BY WantRenders DEF SyncDone
<1>3. pc = "apply" /\ pc' = "idle" /\ sig' # None
  BY <1>2 DEF SyncDone
<1>4. ApplySkip \/ ApplyInstall
  BY <1>3 DEF Next, DaemonStep, vars, ChangeSocket, AdminRead, AdminWrite, HandEdit, Sighup,
              RemoveTable, Kill, Start, StartBlind, Wake, Reload, OpenBackend, DumpTcp, DumpUdp,
              ApplyFails, DropBackend, syncVars, Inv, DaemonType
<1>5. CASE ApplySkip
  <2>1. sig = Signature(want, running) /\ kernel' = kernel /\ icmpAt' = icmpAt
    BY <1>5 DEF ApplySkip, UpToDate, histVars
  <2>2. Fits(kernel[r], sig) /\ kernel[r].icmp = icmpAt
    BY <1>1, <1>2, <2>1 DEF Inv, Remembers
  <2>3. kernel[r] = [Render(want, running) EXCEPT !.icmp = kernel[r].icmp]
    BY <1>1, <1>2, <2>1, <2>2, SameRuleset
  <2>. QED
    BY <1>1, <2>1, <2>2, <2>3
<1>6. CASE ApplyInstall
  <2>1. kernel' = [kernel EXCEPT ![r] = Render(want, running)] /\ icmpAt' = running.runtime.icmp
    BY <1>6 DEF ApplyInstall
  <2>2. kernel'[r] = Render(want, running)
    BY <1>1, <2>1
  <2>3. Render(want, running) = [Render(want, running) EXCEPT !.icmp = running.runtime.icmp]
    BY DEF Render
  <2>. QED
    BY <1>2, <2>1, <2>2, <2>3
<1>. QED
  BY <1>4, <1>5, <1>6

\* After every sync_once without an error the table of the running
\* configuration is the rendering of the policy that was wanted, with the ICMP
\* limit of the last install: the signature cache never skips another change
\* while the table is there.
THEOREM SyncIsInstalled == Spec => SyncInstallsPolicy
<1>1. Inv /\ [Next]_vars =>
        [SyncDone => kernel'[running.table]
                       = [Render(want, running) EXCEPT !.icmp = icmpAt']]_vars
  BY SyncedTable
<1>. QED
  BY <1>1, InvInit, InvNext, PTL DEF Spec, SyncInstallsPolicy

\* A TCP port without a SYN rule: an explicit value says so.
Pinned(p) ==
  \/ \E k \in DOMAIN running.rates.syn.proc : running.rates.syn.proc[k] <= 0
     /\ \E s \in Socket : s.port = p /\ s.proc = k
  \/ Service(p) \in DOMAIN running.rates.syn.svc /\ running.rates.syn.svc[Service(p)] <= 0

LEMMA LimitedOrPinned ==
  ASSUME Inv, pc = "apply", NEW p \in want.tcp
  PROVE  (\E x \in Rules(want.syn) : x[1] = p) \/ Pinned(p)
<1>1. PICK L, O : L \subseteq Socket /\ Resolved(want, L, O, running)
  BY DEF Inv, Wanting
<1>. DEFINE proc == TcpProcess(p, L, O)
            l == PortRateLimit(p, proc, running)
<1>2. want.syn[p] = l /\ p \in DOMAIN want.syn
  BY <1>1 DEF Resolved
<1>3. \/ l > 0
      \/ Has(proc, running.rates.syn.proc) /\ running.rates.syn.proc[proc] <= 0
      \/ Has(Service(p), running.rates.syn.svc) /\ running.rates.syn.svc[Service(p)] <= 0
  BY RateLimitValue DEF Inv, ConfigInv, ConfigType
<1>4. CASE l > 0
  <2>. HIDE DEF l
  <2>1. <<p, l>> \in Rules(want.syn)
    BY <1>2, <1>4 DEF Rules
  <2>. QED
    BY <2>1
<1>5. CASE Has(proc, running.rates.syn.proc) /\ running.rates.syn.proc[proc] <= 0
  <2>1. proc # "" /\ proc \in DOMAIN running.rates.syn.proc
    BY <1>5 DEF Has
  <2>2. PICK s \in L : s.port = p /\ s.proc = proc
    BY <1>1, <2>1, ProcessOfSocket
  <2>. HIDE DEF proc
  <2>. QED
    BY <1>1, <1>5, <2>1, <2>2 DEF Pinned
<1>6. CASE Has(Service(p), running.rates.syn.svc) /\ running.rates.syn.svc[Service(p)] <= 0
  BY <1>6 DEF Has, Pinned
<1>. QED
  BY <1>3, <1>4, <1>5, <1>6

\* After a sync_once every TCP port of the table has a SYN limit, unless a value
\* of 0 or less in the configuration, for its process or its service, says that
\* it has none: a socket that closes between the dump and the look-up of its
\* owner, or a missing entry, never opens a port without one.
THEOREM UnlimitedOnlyIfPinned == Spec => UnlimitedIsPinned
<1>. DEFINE Good == \A p \in kernel'[running.table].tcp :
          \/ \E r \in kernel'[running.table].syn : r[1] = p
          \/ \E k \in DOMAIN running.rates.syn.proc : running.rates.syn.proc[k] <= 0
             /\ \E s \in Socket : s.port = p /\ s.proc = k
          \/ Service(p) \in DOMAIN running.rates.syn.svc /\ running.rates.syn.svc[Service(p)] <= 0
<1>1. ASSUME Inv, [Next]_vars, SyncDone
      PROVE  Good
  <2>1. Fits(kernel'[running.table], Signature(want, running)) /\ pc = "apply"
    BY <1>1, SyncedTable DEF SyncDone
  <2>2. kernel'[running.table].tcp = want.tcp /\ kernel'[running.table].syn = Rules(want.syn)
    BY <2>1 DEF Fits, Signature
  <2>3. ASSUME NEW p \in want.tcp
        PROVE  (\E x \in Rules(want.syn) : x[1] = p) \/ Pinned(p)
    BY <1>1, <2>1, LimitedOrPinned
  <2>. QED
    BY <2>2, <2>3 DEF Pinned
<1>2. Inv /\ [Next]_vars => [SyncDone => Good]_vars
  BY <1>1
<1>. QED
  BY <1>2, InvInit, InvNext, PTL DEF Spec, UnlimitedIsPinned
=============================================================================
