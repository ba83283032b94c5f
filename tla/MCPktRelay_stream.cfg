SPECIFICATION FairSpec
CONSTANTS
    Tui = tui  Daemon = daemon
    RingMax = 1  QueueMax = 1  HistMax = 2  SendMax = 1  SockMax = 1
    MaxEvent = 2  MaxFaults = 1
INVARIANTS TypeOK StreamContiguous Accounted
PROPERTIES EveryEventMoves PortChangeNoticed
CHECK_DEADLOCK FALSE
