SPECIFICATION FairSpec
CONSTANTS
    a = a
    b = b
    m = m
    Addr <- MCAddr
    Txs <- MCTxs
    Alloc <- MCAlloc
    NoMiner = NoMiner
    NoBlock = NoBlock
    NoTx = NoTx
    Miner = m
    PeerMiner = b
    Faucet = m
    Drip = 3
    Reward = 5
    Word = 1000
    MaxPending = 100
    MaxHeight = 1
    MaxHash = 4
    MaxPeerTxs = 0
    PeersOn = FALSE
    FaucetOn = FALSE
    DiskFaults = FALSE
    Stops = TRUE
    Resubmit = FALSE
    EmptyBlocks = TRUE
PROPERTIES RestartRecovers
CHECK_DEADLOCK FALSE
