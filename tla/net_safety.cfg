SPECIFICATION Spec
CONSTANTS
    x = x
    y = y
    z = z
    g = g
    Node = {x, y, z}
    Dials <- DialsLine
    Genesis <- SharedGenesis
    Mining = {x, y}
    Answers = {y}
    NoPeer = NoPeer
    MaxHeight = 2
    MaxTx = 1
    Lossy = TRUE
INVARIANTS Isolated SameBlockSamePast
CHECK_DEADLOCK FALSE
