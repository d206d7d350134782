SPECIFICATION FairSpec
CONSTANTS
    b1 = b1
    b2 = b2
    b3 = b3
    Blocks = {b1, b2, b3}
    BlockFrames = 2
    Spans <- MCSpans
    MaxFrames = 9
    NoBlock = NoBlock
    Cap = 4
INVARIANTS OnePlace FramesKept PushNeverFails
PROPERTIES WriterKeepsUp
CHECK_DEADLOCK FALSE
