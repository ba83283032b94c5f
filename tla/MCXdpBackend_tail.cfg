SPECIFICATION Spec
CONSTANTS
    t1 = t1  u1 = u1  s1 = s1  e1 = e1  a1 = a1  r1 = r1  g1 = g1  i1 = i1
    v1 = v1  f1 = f1
    TcpPort = {t1}  UdpPort = {u1}  SctpPort = {}
    Limit = {0, 1, 2}  Prefix = {24, 32}  Family = {4}  Cap = {64}
    Trusted = {}  Acl = {}  Sit4 = {}  Runtime = {}  GlobalRl = {}
    AuxVal = {v1}
    Flow = {}  FlowPort <- NoFlowPort  StaleReconciles = 2
    DesiredStates <- TailStates
    None = None
    MaxFaults = 2  MaxChanges = 2
PROPERTY NewPortFullyProtected
