CONSTANTS
    v = v
    a = a
    b = b
    x = x
    y = y
    Vanilla = {v}
    Tob = {}
    Backrun = {a}
    Invalid = {}
    Target <- OneBid
    ZeroScore = {}
    TTL = 1
    MaxCacheEntries = 2
    MaxPendingEntries = 2
    SentCacheMax = 2
    InboxBound = 2
    WireBound = 1
    MaxArrivals = 5
    MaxDepartures = 3
    MaxBreaks = 1
    CounterSpan = 1
SPECIFICATION Spec
INVARIANTS
    TypeOK
    MetricsTell
    NothingOutlivesItsTx
PROPERTIES
    SkippedAreEchoes
