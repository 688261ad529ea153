CONSTANTS
    MaxConfReq = 2
    MaxTermReq = 1
    MaxNakLoops = 1
    EchoFails = 2
    AllocMayFail = FALSE
    Settings <- MCWatching
    Wnd = 4
    MaxRtx = 1
    SynMaxRtx = 1
    MaxPcbs = 1
SPECIFICATION MCSpec
CHECK_DEADLOCK FALSE
PROPERTIES  AllFreed
