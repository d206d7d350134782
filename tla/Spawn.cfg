SPECIFICATION LiveSpec
CONSTANTS
    None = None
    Main = Main
    w1 = w1
    w2 = w2
    w3 = w3
    Workers = {w1, w2, w3}
    f = f
    Funcs = {f}
    k = k
    Consts = {k}
    Spawnable <- MCSpawnable
    Arguments <- MCArguments
    MaxOps = 2
INVARIANTS CountsExact CellsAlive Structured
PROPERTIES TeardownEnds
CHECK_DEADLOCK FALSE
