SPECIFICATION QSpec
CONSTANTS
    x1 = x1
    x2 = x2
    Items = {x1, x2}
    NoBlock = NoBlock
    Cap = 4
    MaxPush = 6
INVARIANTS QTypeOK SlotsApart
PROPERTIES IsFifo
CHECK_DEADLOCK FALSE
