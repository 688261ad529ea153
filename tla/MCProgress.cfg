CONSTANTS
    Callers = {a, b}
    MboxSize = 3
    NumApi = 2
    NumInpkt = 1
    MaxCalls = 2
    FirstTimeout = 1
    LaterTimeout = 3
    StepTimeout = 1
    QueueLen = 4
    BufferLen = 4
    FrameLen = 3
    MaxOwed = 6
    Names = {x, y}
    NoName = NoName
    Size = 2
    Retries = 3
    NumIds = 2
    SeqWrap = 4
    Lookups = 2
    SndBuf = 2
    BoxSize = 1
    Writes = 2
    Items = 1
    MemErrors = 1
SPECIFICATION MCSpec
CHECK_DEADLOCK FALSE
INVARIANTS EntrySound
PROPERTIES CallsReturn LinkComesUp LookupsAnswered
