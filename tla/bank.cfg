SPECIFICATION MCSpec
CONSTANTS
    ann = ann
    bob = bob
    escrow = escrow
    fin = fin
    usd = usd
    eur = eur
    k1 = k1
    k2 = k2
    c1 = c1
    c2 = c2
    visa = visa
    master = master
    NoCode = NoCode
    Code = {k1, k2}
    Escrow = escrow
    DefaultCurrency = usd
    CashRequests <- MCCashRequests
    ClockRuns = TRUE
    Brand = {visa, master}
    BrandOf <- MCBrandOf
    DefaultLimit = 1
    CardRequests <- MCCardRequests
    Production = TRUE
    NoBrand = NoBrand
    NoMirror = NoMirror
    NoCard = NoCard
    Client = {c1, c2}
    Account <- MCAccount
    Currency = {usd, eur}
    Seeded <- MCSeeded
    CoreAccounts = {fin}
    CoreOpening <- MCCoreOpening
    CoreCurrency = usd
    Requests <- MCRequests
    Provider = TRUE
    Outside = Outside
    Federated = Federated
    NoAccount = NoAccount
    NoRequest = NoRequest
    NoFile = NoFile
    Broken = Broken
    MaxStarted = 2
    DiskFaults = TRUE
    Stops = TRUE
    CoreFaults = TRUE
INVARIANTS Types Reconciled  CoreFollowed KnownIsFunded PaidIsFunded   
PROPERTIES  ConvertMoves
CHECK_DEADLOCK FALSE
