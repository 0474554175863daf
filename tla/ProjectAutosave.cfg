SPECIFICATION Spec
CONSTANTS
    Ids = {1, 2}
    Settings = {s1, s2}
    None = None
    Loaded = {1}
    MaxEdits = 3
    MaxAccidents = 1
CHECK_DEADLOCK FALSE
INVARIANT
    TypeOK
    UnmarkedIsSaved
    MarkedIsScheduled
    ManifestIsReadable
PROPERTY
    SaveEnds
    EventuallySaved
