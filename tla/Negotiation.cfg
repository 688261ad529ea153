SPECIFICATION Spec
CONSTANTS
    IdSpace = 16
    MaxConfReq = 4
    MaxTermReq = 3
    MaxNakLoops = 4
    Options <- MCOptions
    DefMru = 3
    MinMru = 2
    Chars = {1, 2, 3}
    LoopbackFail = 3
    MaxSlot = 15
    FakeAddr = 9
    MaxCloses = 1
    MaxFaults = 2
PROPERTIES LinkFits LoopNoticed AddressesAgree  EncryptionAgrees
CHECK_DEADLOCK FALSE
