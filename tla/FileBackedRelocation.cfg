SPECIFICATION Spec
CONSTANTS
    Providers = {p1}
    Paths = {f1, f2}
    v0 = v0
    v1 = v1
    b0 = b0
    b1 = b1
    empty = empty
    Values <- MCValues
    Contents <- MCContents
    Encode <- MCEncode
    Decode <- MCDecode
    Default = v0
    EmptyBytes = empty
    NoValue = NoValue
    NoFile = NoFile
    NoPath = NoPath
    Debounce = 1
    MaxCalls = 3
    MaxReload = 0
    MaxExternal = 0
    MaxFaults = 0
    FaultKinds = {}
    MaxMoves = 1
INVARIANT
    SettledMatchesDisk
