SPECIFICATION PoolFairSpec
CONSTANTS
    NThreads = 2
    Callers = {c1, c2}
    c1 = c1
    c2 = c2
    Sizes <- MCSizes
    Threshold = 2
    MaxRounds = 3
    NoCaller = NoCaller
INVARIANTS TypeOK ExactlyOnce NoStaleContext
PROPERTIES SlotStable NobodyLeftAsleep
CHECK_DEADLOCK FALSE
