CONSTANTS
    v = v
    a = a
    b = b
    x = x
    y = y
    Vanilla = {v}
    Tob = {x}
    Backrun = {a}
    Invalid = {}
    Target <- OneBid
    ZeroScore = {x}
    TTL = 1
    MaxCacheEntries = 2
    MaxPendingEntries = 1
    SentCacheMax = 3
    InboxBound = 2
    WireBound = 1
    MaxArrivals = 2
    MaxDepartures = 1
    MaxBreaks = 1
    CounterSpan = 1
SPECIFICATION FairSpec
PROPERTIES
    ImplementsStoppable
    Reconnects
    ReinjectionsSettle
    TobIsReinjected
