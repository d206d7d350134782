SPECIFICATION Spec
CONSTANTS
    MaxWorkers = 2
    Sizes <- MCOneSize
    MaxRuns = 2
    MaxResizes = 1
    ResizeAfterRun = TRUE
INVARIANT RunComplete
CHECK_DEADLOCK FALSE
