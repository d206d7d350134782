SPECIFICATION HeapSpec
CONSTANTS
    c1 = c1
    c2 = c2
    c3 = c3
    s1 = s1
    Cells = {c1, c2}
    Acyclic = {}
    RCMax = 63
    MaxEdges = 3
    MaxHandles = 2
    StablePasses = 32
    HostRuns = FALSE
INVARIANT NoUseAfterFree
CHECK_DEADLOCK FALSE
