SPECIFICATION FairSpec
CONSTANTS
    x = x
    y = y
    z = z
    g = g
    Node = {x, y}
    Dials <- DialsSeed
    Genesis <- SharedGenesis
    Mining = {y}
    Answers = {}
    NoPeer = NoPeer
    MaxHeight = 2
    MaxTx = 1
    Lossy = FALSE
PROPERTIES SyncsWithSeed
CHECK_DEADLOCK FALSE
