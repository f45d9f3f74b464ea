SPECIFICATION MCSpec
CONSTANTS
    onex = onex
    usdt = usdt
    wonex = wonex
    sonex = sonex
    welcome = welcome
    firstSwap = firstSwap
    c1 = c1
    c2 = c2
    NoAddress = NoAddress
    NoTx = NoTx
    NoJob = NoJob
    PlatformChain <- MCChain
    Id <- MCId
    Listed <- MCListed
    Suffixed = {"ABC1"}
    WrapId <- MCWrapId
    PlatformRequests <- MCPlatformRequests
    Chain = {"bsc", "eth"}
    Default = "bsc"
    Deployer = "server"
    Wallet = "wallet"
    Mirrors = {"bsc", "eth"}
    Predicted <- MCPredicted
    MaxBegun = 2
    MaxNonce = 0
    Goroutine = {c1, c2}
    Ip = {"here", "door", "there"}
    ClockFirst = {"here"}
    Limit = 2
    Window = 2
    Idle = NoRequest
    MaxTime = 4
    MaxAsked = 6
    Client = {c1, c2}
    Token = {onex, usdt, wonex, sonex}
    Onex = onex
    Pair <- MCPair
    Seeds <- MCSeeds
    Opening <- MCOpening
    Starter <- MCStarter
    EvmBalances <- MCEvm
    ChainBalance = 2
    Production = FALSE
    Loan <- MCLoan
    Stake <- MCStake
    Task = {welcome, firstSwap}
    RewardOf <- MCRewardOf
    TaskOf <- MCTaskOf
    BonusOne = 2
    AtomicPerWhole = 2
    Requests <- RaceRequests
    FeeBps = 3000
    NoPool = NoPool
    NoTask = NoTask
    NoFile = NoFile
    Broken = Broken
    NoRequest = NoRequest
    Nobody = Nobody
    MaxStarted = 2
    DiskFaults = FALSE
    Stops = TRUE
INVARIANTS MarketTypes ShareWorthKept RewardOnce  RegisteredIsDeployed LiveIsDeployed PerWindow
 
CHECK_DEADLOCK FALSE
