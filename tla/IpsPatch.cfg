SPECIFICATION Spec
CONSTANTS
    Base = 2
    IPS = IPS
    IPS32 = IPS32
    Footer <- MCFooter
    Original <- MCOriginal
    Foreign <- MCForeign
    MaxEdited = 4
CHECK_DEADLOCK FALSE
INVARIANT
    TypeOK
    RoundTrip
    TruncationIsNoticed
