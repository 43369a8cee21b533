SPECIFICATION PartsSpec
CONSTANTS
    Size = 7
    Data = {d1}
    FF = ff
    Ret = d1
    Flags = d1
    NmiResumesAfterBrk = FALSE
    Chunks = {4, 35, 131}
    CommitLines = 16
    SatLines = 13
    StageLines = 3
    GuestLines = 17
    Epochs = 2
    Wires = {"one", "two", "Right"}
    Builds <- MCBuilds
    HoldLimit = 2
    Presses = 2
INVARIANTS
    TypesOK
    PopExact
    DepthRefusesTruly
    SentinelHasBridge
    PlayfieldScrolled
    BandScrolled
    SerialReadExact
    FramesExact
CHECK_DEADLOCK FALSE
