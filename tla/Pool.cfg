CONSTANTS
    v = v
    w = w
    a = a
    b = b
    c = c
    x = x
    g = g
    Vanilla = {v}
    Tob = {}
    Backrun = {a, b, c}
    Invalid = {}
    Target <- BidOnBid
    ZeroScore = {}
    TTL = 1
    MaxCacheEntries = 2
    MaxPendingEntries = 2
    QueueBound = 4
SPECIFICATION Spec
INVARIANTS
    TypeOK
    CountMatches
    CapacityHeld
    NoMissedPair
    ArrivalOrderIrrelevant
    StreamedAreCached
    QueuesCoverEntries
PROPERTIES
    BidsFollowTarget
    OpportunityOnce
    BidsLeaveForAReason
    ImplementsPairing
    NewcomerIsCached
    BidsAccounted
