SPECIFICATION Spec
CONSTANTS
    ann = ann
    bob = bob
    ext = ext
    usd = usd
    eur = eur
    Client = {c1}
    Account <- MCAccount
    Asset = {usd, eur}
    Worth <- MCWorth
    Requests <- MCRequestsOut
    Snapshots <- MCSnapshots
    Imports <- MCImportsNone
    MaxLog = 2
    NoAccount = NoAccount
    NoAsset = NoAsset
    NoRequest = NoRequest
    NoRecord = NoRecord
    NoFile = NoFile
    Broken = Broken
    MaxXfers = 2
    DiskFaults = FALSE
    Stops = FALSE
PROPERTIES KeepsTransferredOut
