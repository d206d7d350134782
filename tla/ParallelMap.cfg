CONSTANTS
    l = l
    s = s
    h = h
    k = k
    Null = Null
    Plain = {l}
    Shared = {s}
    Handle = h
    Const = k
    Lists <- MCLists
    MaxThreads = 3
    Hardware = {0, 1, 2}
SPECIFICATION FairSpec
INVARIANTS Sequential CountsExact Confined
PROPERTY CallReturns
CHECK_DEADLOCK FALSE
