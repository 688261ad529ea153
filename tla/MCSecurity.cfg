CONSTANTS
    Agreements <- MCAgreements
    Secrets = {"right", "wrong", "none"}
    MaxTransmits = 2
    AllowReq = 4
    Rechallenge = TRUE
    EapAgain = FALSE
    IdSpace = 3
    Challenges = 3
    MaxFaults = 1
    MaxSessions = 2
    Space = 16
    Flag = 4
    Keys = 17
    SanityMax = 3
    Modes = {TRUE, FALSE}
    InFlight = 2
    MaxLosses = 2
SPECIFICATION MCSpec
CHECK_DEADLOCK FALSE
PROPERTIES  InStep
