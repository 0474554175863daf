SPECIFICATION Spec
SYMMETRY Symmetry
CONSTANTS
    Files = {f1, f2}
    Data = {d1, d2}
    Project = Project
    NoFile = NoFile
    Foreign = Foreign
    MaxEdits = 2
    MaxFaults = 2
    MaxTries = 2
    MaxCrashes = 1
CHECK_DEADLOCK FALSE
INVARIANT
    TypeOK
    FilesFollowProject
    FailureLeavesNothing
    UnsavedIsMarked
PROPERTY
    HomeIsKept
    ForeignFilesKept
