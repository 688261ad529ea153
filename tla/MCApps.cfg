CONSTANTS
    NoName = NoName
    Names = {a, b}
    Size = 2
    Retries = 2
    NumIds = 2
    SeqWrap = 4
    Lookups = 3
    Again <- MCQuiet
    RingSize = 4
    SndBuf = 2
    ReqMax = 3
    ReqTimeout = 12
    Interval = 5
    ConnTimeout = 10
    KeepAlive = 5
    ConnectLen = 2
    PingLen = 1
    AckLen = 1
    Lens = {2}
    Connects = 1
    Calls = 3
    BufLen = 9
    Base = 8
    Payloads = {0, 1, 2, 3, 4, 5, 6, 7, 8, 9, 10, 11, 12, 13}
    Count = 2
INIT MCInit
NEXT MCNext
CHECK_DEADLOCK FALSE
INVARIANTS LookupsSound RequestsTimed 
