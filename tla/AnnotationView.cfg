CONSTANTS
    w = w
    a = a
    Words = {w}
    Labels = {a}
    Duration = 3
    Texts <- MCTexts
    Documents <- MCDocuments
    MaxStack = 2
    MaxLayers = 3
    MaxEdits = 3
    MaxStrays = 3
    Reaches = {0, 1}
    Limit = 4
SPECIFICATION Spec
INVARIANTS TypeOK WellFormed UndoSafe
PROPERTY IsHistory
CHECK_DEADLOCK FALSE
