SPECIFICATION Spec
CONSTANTS
    c1 = c1  c2 = c2  f1 = f1
    Cpu = {c1, c2}  Flow = {f1}
    Kinds = {"syn", "ack", "fin", "esyn", "eack", "erst"}
    Limit = 2  TcpTimeout = 1  SynTimeout = 0  Refresh = 0
    Retries = 2  MaxCount = 3  Daemon = TRUE
    MaxLag = 1  MaxTime = 2  None = None
SYMMETRY CpuSymmetry
INVARIANTS TypeOK CountExact
PROPERTIES LimitDropJustified NoResurrection
