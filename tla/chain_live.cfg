SPECIFICATION FairSpec
CONSTANTS
    a = a
    b = b
    m = m
    Addr <- MCAddr
    Txs <- MCTxsLive
    Alloc <- MCAllocTwo
    NoMiner = NoMiner
    NoBlock = NoBlock
    NoTx = NoTx
    Miner = m
    PeerMiner = b
    Faucet = m
    Drip = 3
    Reward = 5
    Word = 1000
    MaxPending = 2
    MaxHeight = 4
    MaxHash = 5
    MaxPeerTxs = 0
    PeersOn = FALSE
    FaucetOn = FALSE
    DiskFaults = FALSE
    Stops = FALSE
    Resubmit = FALSE
    EmptyBlocks = FALSE
PROPERTIES PendingIsMined
CHECK_DEADLOCK FALSE
