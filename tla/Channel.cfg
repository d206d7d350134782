SPECIFICATION Spec
CONSTANTS
    t1 = t1
    t2 = t2
    t3 = t3
    a = a
    b = b
    Threads = {t1, t2, t3}
    Channels = {a, b}
    Items = {}
    Capacity <- MCCapacity
    Given <- MCGiven
    Used = {a}
    Slack = 1
    MaxSends = 4
    NoValue = NoValue
INVARIANTS CountsExact InUseAlive NoLostWakeup
PROPERTIES IsFifo
SYMMETRY MCSymmetry
CHECK_DEADLOCK FALSE
