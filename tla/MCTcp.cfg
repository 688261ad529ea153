CONSTANTS
    Wrap = 32
    Base = 29
    Bytes = 4
    Wnd = 4
    Mss = 2
    FinPastWindow = FALSE
    SndBuf = 4
    QueueLen = 4
    DupThresh = 2
    CwndMax = 8
    Total = 5
    Lens = {1, 3}
    Copies = {TRUE, FALSE}
    Windows = {1, 4}
    MaxAcks = 2
    Budget = 1
    FirstWindows = {4}
SPECIFICATION MCSpec
CHECK_DEADLOCK FALSE
 
PROPERTIES EdgeKept 
