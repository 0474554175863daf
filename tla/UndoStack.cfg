SPECIFICATION Spec
CONSTANTS
    Bytes = {0, 1}
    Original <- MCOriginal
    Texts <- MCTexts
    MaxSize = 1
    MaxLength = 2
    MaxEdits = 3
CHECK_DEADLOCK FALSE
INVARIANT
    TypeOK
    HighlightsAreChanges
PROPERTY
    HistoryKept
