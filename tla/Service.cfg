CONSTANTS
    c1 = c1
    c2 = c2
    old = old
    new = new
    mainnet = mainnet
    devnet = devnet
    Nothing = Nothing
    Client = {c1, c2}
    Version = {old, new}
    Network = {mainnet, devnet}
    Baked <- BakedOverTime
    Example <- Seeded
    Edited <- Operators
SPECIFICATION FairSpec
INVARIANTS
    TypeOK
    NoStaleBinary
    RunsOnlyIfEnabled
    InstalledIsConfigured
PROPERTIES
    ComesBack
