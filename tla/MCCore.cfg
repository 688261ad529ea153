CONSTANTS
    N = 3
    Holders = {h, k}
    Threads = {t, u}
    Size = 2
    MaxLen = 3
    MaxOps = 4
    EmptyTails = FALSE
    RouterMtu = 2
    Unit = 2
    PbufSize = 2
    MaxPbufs = 4
    MaxEntries = 2
    MaxAge = 0
    MaxTicks = 1
    MaxRepeats = 1
    MaxCuts = 1
    Wrap = 16
    TcpInterval = 1
    Shots = {"ppp"}
    Delays = {1, 3}
    MaxBusy = 2
INIT MCInit
NEXT MCNext
SYMMETRY Symmetric
CHECK_DEADLOCK FALSE
INVARIANTS PacketsSound TimersSound 
