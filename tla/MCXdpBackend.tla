---------------------------- MODULE MCXdpBackend ----------------------------
(* Small instances of XdpBackend for TLC. *)
EXTENDS XdpBackend, TLC

CONSTANTS t1, u1, s1, e1, a1, r1, g1, i1, v1, f1

Lim(syn, agg, conn, pfx, prt) ==
    [f \in {0, 1, 2, 5, 6} |->
        CASE f = 0 -> syn [] f = 1 -> agg [] f = 2 -> conn [] f = 5 -> pfx [] f = 6 -> prt]

\* A desired state without flows.
Want(wl, tl, ul, pfx, vals) ==
    [wl  |-> wl,
     lim |-> [p \in PolPort |-> IF p \in TcpPort THEN tl ELSE ul],
     pfx |-> pfx, cap |-> [s \in Slot |-> 64],
     aux |-> [k \in Aux |-> IF k \in vals THEN v1 ELSE None], ct |-> {}]

NoLim == Lim(0, 0, 0, 0, 0)

\* A flow of the TCP port is established.
WithFlow(d) == [d EXCEPT !.ct = {f1}]

\* Desired states: the ports come and go, limits move from one field to another,
\* the source prefix changes, entries of the other maps are wanted or not, and a
\* flow is observed or missed.
BackendStates ==
    {WithFlow(Want({}, NoLim, NoLim, 24, Runtime \cup GlobalRl)),
     Want({t1}, Lim(1, 0, 0, 1, 0), NoLim, 24, Acl \cup Sit4),
     Want({t1, s1}, Lim(0, 0, 2, 1, 0), NoLim, 24, Trusted \cup Runtime),
     WithFlow(Want({t1, u1}, Lim(0, 1, 0, 0, 1), Lim(1, 2, 0, 0, 0), 32, Trusted \cup GlobalRl))}

\* The full-limit finding: every head limit off, a connection limit per prefix on.
TailStates == {Want({}, NoLim, NoLim, 24, {}), Want({t1}, Lim(0, 0, 0, 1, 0), NoLim, 24, {})}

CtFlowPort == [f \in Flow |-> t1]
NoFlowPort == [f \in {} |-> t1]
=============================================================================
