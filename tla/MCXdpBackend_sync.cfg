SPECIFICATION FairSpec
CONSTANTS
    t1 = t1  u1 = u1  s1 = s1  e1 = e1  a1 = a1  r1 = r1  g1 = g1  i1 = i1
    v1 = v1  f1 = f1
    TcpPort = {t1}  UdpPort = {u1}  SctpPort = {s1}
    Limit = {0, 1, 2}  Prefix = {24, 32}  Family = {4}  Cap = {64}
    Trusted = {e1}  Acl = {a1}  Sit4 = {i1}  Runtime = {r1}  GlobalRl = {g1}
    AuxVal = {v1}
    Flow = {f1}  FlowPort <- CtFlowPort  StaleReconciles = 2
    DesiredStates <- BackendStates
    None = None
    MaxFaults = 1  MaxChanges = 2
INVARIANTS TypeOK CleanReconcileConverges
PROPERTIES NewPortProtected StaleNeedsMisses EventuallyConverges
