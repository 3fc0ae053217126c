CONSTANTS
    v = v
    a = a
    b = b
    x = x
    y = y
    Vanilla = {v}
    Tob = {x}
    Backrun = {a}
    Invalid = {}
    Target <- OneBid
    ZeroScore = {}
    TTL = 1
    MaxCacheEntries = 3
    MaxPendingEntries = 2
    SentCacheMax = 3
    InboxBound = 2
    WireBound = 1
    MaxArrivals = 3
    MaxDepartures = 2
    MaxBreaks = 1
    CounterSpan = 1
SPECIFICATION Spec
PROPERTIES
    OnlyEchoesSkipped
