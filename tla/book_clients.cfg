SPECIFICATION Spec
CONSTANTS
    ann = ann
    bob = bob
    ext = ext
    usd = usd
    eur = eur
    Client = {c1, c2}
    Account <- MCAccount
    Asset = {usd, eur}
    Worth <- MCWorth
    Requests <- MCRequestsOut
    Snapshots <- MCSnapshots
    Imports <- MCImports
    MaxLog = 2
    NoAccount = NoAccount
    NoAsset = NoAsset
    NoRequest = NoRequest
    NoRecord = NoRecord
    NoFile = NoFile
    Broken = Broken
    MaxXfers = 2
    DiskFaults = TRUE
    Stops = TRUE
INVARIANTS TypeOK SavedWhenQuiet 
SYMMETRY Clients
