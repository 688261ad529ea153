CONSTANTS
    NumSocks = 2
    Selects = {s1}
    Polls = {p1}
    SelWants <- MCBoth
    PollWants <- MCSome
    Kinds <- MCKinds
    Accepts = {1}
    WaitMod = 3
    BoxSize = 1
    SndBuf = 2
    RecvMbox = 2
    Writes = 2
    Items = 3
    MemErrors = 1
    Wnd = 4
    MaxRtx = 1
    SynMaxRtx = 1
    MaxPcbs = 1
    Late = {"c"}
INIT MCInit
NEXT MCNext
CHECK_DEADLOCK FALSE
INVARIANTS NoLostWakeup ConnectionSound ClosedMeansDelivered
