SPECIFICATION FairSpec
CONSTANTS
    Providers = {p1}
    Paths = {f1}
    v0 = v0
    v1 = v1
    b0 = b0
    b1 = b1
    empty = empty
    Values <- MCValues
    Contents <- MCContents
    Encode <- MCEncode
    Decode <- MCDecode
    Default = v0
    EmptyBytes = empty
    NoValue = NoValue
    NoFile = NoFile
    NoPath = NoPath
    Debounce = 1
    MaxCalls = 2
    MaxReload = 2
    MaxExternal = 2
    MaxFaults = 1
    FaultKinds = {"write"}
    MaxMoves = 0
INVARIANTS
    TypeOK
    SettledMatchesDisk
PROPERTIES
    EditsReachDisk
    ReloadsConsumed
