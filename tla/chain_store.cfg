SPECIFICATION Spec
CONSTANTS
    a = a
    b = b
    m = m
    Addr <- MCAddr
    Txs <- MCTxsMiner
    Alloc <- MCAllocNone
    NoMiner = NoMiner
    NoBlock = NoBlock
    NoTx = NoTx
    Miner = m
    PeerMiner = b
    Faucet = m
    Drip = 3
    Reward = 5
    Word = 1000
    MaxPending = 100
    MaxHeight = 2
    MaxHash = 4
    MaxPeerTxs = 1
    PeersOn = TRUE
    FaucetOn = TRUE
    DiskFaults = TRUE
    Stops = TRUE
    Resubmit = TRUE
    EmptyBlocks = TRUE
INVARIANTS PoolNeverAhead TypeOK   StateMatchesTip
PROPERTIES HistoryImmutable StaysDown
CHECK_DEADLOCK FALSE
