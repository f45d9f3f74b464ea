SPECIFICATION SettlementSpec
CONSTANTS
    ann = ann
    bob = bob
    ext = ext
    poolM1 = poolM1
    poolMint = poolMint
    poolNsb = poolNsb
    usdcV = usdcV
    ethV = ethV
    mintV = mintV
    usd = usd
    eur = eur
    usdc = usdc
    eth = eth
    stab = stab
    Client = {c1}
    Account <- MCAccount
    Asset = {usd, eur, usdc, eth, stab}
    Worth <- MCWorth
    Requests <- MCRequests
    Snapshots <- MCSnapshots
    Imports <- MCImports
    MaxLog = 2
    NoAccount = NoAccount
    NoAsset = NoAsset
    NoRequest = NoRequest
    NoRecord = NoRecord
    NoFile = NoFile
    Broken = Broken
    MaxXfers = 11
    DiskFaults = TRUE
    Stops = TRUE
    Fiat = {usd, eur}
    Usd = usd
    Usdc = usdc
    Eth = eth
    Stable = stab
    Customer = {ann, bob}
    Class <- MCClass
    ClassOf <- MCClassOf
    PoolOf <- MCPoolOf
    UsdcVault = usdcV
    EthVault = ethV
    MintVault = mintV
    Receiver = ext
    EthPercent = 40
    NoBatch = NoBatch
    MaxPlain = 3
INVARIANTS PaidIsRecorded 
PROPERTIES ValueMoves
