CONSTANTS
    gateway = gateway
    elsewhere = elsewhere
    Address = {gateway, elsewhere}
    Gateway = gateway
    PayloadSpan = 4
    IdSpan = 4
    HashTail = 2
    BaseFeeFloor = 1
    Fallback = 3
    Bids = {0, 1, 62}
    Txs <- SmallTxs
SPECIFICATION Spec
INVARIANTS
    FitsWord
    TobOutranksGroups
    TargetAboveItsBids
    GroupsDoNotInterleave
    BidsOrderedByWorth
    ScalarIsWorth
