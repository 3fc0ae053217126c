CONSTANTS
    v = v
    a = a
    b = b
    x = x
    y = y
    Vanilla = {v}
    Tob = {}
    Backrun = {a, b}
    Invalid = {y}
    Target <- TwoBids
    ZeroScore = {}
    TTL = 1
    MaxCacheEntries = 3
    MaxPendingEntries = 1
    SentCacheMax = 1
    InboxBound = 1
    WireBound = 1
    MaxArrivals = 3
    MaxDepartures = 1
    MaxBreaks = 1
    CounterSpan = 3
SPECIFICATION Spec
INVARIANTS
    MetricsAddUp
    GaugesNeverUnderstate
PROPERTIES
    BidBehindTarget
