SPECIFICATION Spec
CONSTANTS
    Bytes = {0, 1}
    Original <- MCOriginal
    Texts <- MCNoTexts
    MaxSize = 1
    MaxLength = 2
    MaxEdits = 3
CHECK_DEADLOCK FALSE
INVARIANT
    UnsavedIsDirty
