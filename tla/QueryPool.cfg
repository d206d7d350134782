SPECIFICATION FairSpec
CONSTANTS
    MaxWorkers = 2
    Sizes <- MCSizes
    MaxRuns = 2
    MaxResizes = 1
    ResizeAfterRun = FALSE
INVARIANTS TypeOK RunComplete BodyAlive LowestError
PROPERTIES CallsReturn
CHECK_DEADLOCK FALSE
