CONSTANTS
    FirstTimeout = 1
    LaterTimeout = 2
    StepTimeout = 1
    QueueLen = 3
    BufferLen = 4
    FrameLen = 3
    MaxOwed = 6
    Prompt = FALSE
    MaxConfReq = 2
    MaxTermReq = 1
    MaxNakLoops = 1
    EchoFails = 2
    AllocMayFail = TRUE
    Settings <- MCSettings
    Addrs = {"10.0.0.1"}
    SeqSpace = 5
    RecvMbox = 2
    MaxAge = 3
SPECIFICATION MCSpec
CHECK_DEADLOCK FALSE
INVARIANTS
     SessionSound AnswersThisRequest
