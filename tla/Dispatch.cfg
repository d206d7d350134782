SPECIFICATION Spec
CONSTANTS
    o = o
    t = t
    u = u
    Classes = {o, t, u}
    Supers <- MCSupers
    Signatures <- MCSigs
    Masks = {0, 1}
    Natives <- MCNatives
    ArgTuples <- MCArgs
    CallArgs <- MCCalls
    m1 = m1
    m2 = m2
    w1 = w1
    Mains = {m1, m2}
    Workers = {w1}
    MaxDefs = 3
INVARIANTS CallsLiveCode MemoSafe
PROPERTIES DefinitionKeepsOrder
SYMMETRY MCSymmetry
CHECK_DEADLOCK FALSE
