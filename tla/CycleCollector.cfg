SPECIFICATION HeapSpec
CONSTANTS
    c1 = c1
    c2 = c2
    c3 = c3
    s1 = s1
    Cells = {c1, c2, c3, s1}
    Acyclic = {s1}
    RCMax = 63
    MaxEdges = 3
    MaxHandles = 2
    StablePasses = 32
    HostRuns = TRUE
SYMMETRY MCSymmetry
INVARIANTS ReachableAlive CountsExact CandidatesExact GarbageEnrolled
CHECK_DEADLOCK FALSE
