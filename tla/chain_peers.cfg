SPECIFICATION Spec
CONSTANTS
    a = a
    b = b
    m = m
    Addr <- MCAddr
    Txs <- MCTxsPeers
    Alloc <- MCAlloc
    NoMiner = NoMiner
    NoBlock = NoBlock
    NoTx = NoTx
    Miner = m
    PeerMiner = NoMiner
    Faucet = m
    Drip = 3
    Reward = 5
    Word = 1000
    MaxPending = 100
    MaxHeight = 2
    MaxHash = 3
    MaxPeerTxs = 2
    PeersOn = TRUE
    FaucetOn = FALSE
    DiskFaults = FALSE
    Stops = FALSE
    Resubmit = TRUE
    EmptyBlocks = TRUE
INVARIANTS NoReplay  PoolRefusedOnlyIfStale
PROPERTIES StallIsPermanent
CHECK_DEADLOCK FALSE
