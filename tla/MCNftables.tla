----------------------------- MODULE MCNftables -----------------------------
(* A small instance of Nftables for TLC. *)
EXTENDS Nftables, TLC

Sock(i, proto, port, bind, proc) ==
    [id |-> i, proto |-> proto, port |-> port, bind |-> bind, proc |-> proc, peer |-> FALSE,
     busy |-> FALSE]
Web   == Sock(1, "tcp", 80, "any", "web")
DnsLo == Sock(2, "udp", 53, "lo", "stub")
Dns   == Sock(3, "udp", 53, "any", "dns")

MCSocket == {Web, DnsLo, Dns}
MCInitOpen == {Dns}

MCService(p) == IF p = 22 THEN "ssh" ELSE ""

Empty == [x \in {} |-> 0]
NoRates == [proc |-> Empty, svc |-> Empty]
MCDefault ==
    [perm |-> {}, uperm |-> {}, trust |-> {}, acl |-> {},
     rates |-> [syn |-> NoRates, conn |-> NoRates, udp |-> NoRates],
     disc |-> [lo |-> TRUE, nets |-> {}, ports |-> {}], table |-> "t1",
     runtime |-> [threshold |-> 5, syn |-> 100, synStrict |-> 5, conn |-> 50, connStrict |-> 4,
                  icmp |-> 100]]

File(v, bad, odd) == [val |-> v, bad |-> bad, odd |-> odd]

\* Plain; with an invalid permanent port and no rate limits; with other limits
\* and another table; with an invalid ICMP limit; cut short.
Base  == [MCDefault EXCEPT !.perm = {22}, !.rates.syn.proc = "web" :> 0,
                           !.rates.syn.svc = "ssh" :> 3, !.runtime.icmp = 9]
Other == [MCDefault EXCEPT !.perm = {22}, !.rates.udp.proc = "dns" :> 7, !.table = "t2"]
MCInitFile == File(Base, {}, {})
MCFiles == {MCInitFile, File([Base EXCEPT !.rates = MCDefault.rates], {"perm"}, {}),
            File(Other, {}, {}), File(Base, {}, {"runtime"}), File(Base, {"toml"}, {})}

\* A table of the old schema that a former version left.
OldTable == [schema |-> 1, tcp |-> {22, 80}, udp |-> {}, trust |-> {}, acl |-> {}, syn |-> {},
             conn |-> {}, urate |-> {}, icmp |-> 0]
MCInitKernel == [t \in {"t1", "t2"} |-> IF t = "t1" THEN OldTable ELSE None]
=============================================================================
