CONSTANTS
    v = v
    w = w
    a = a
    b = b
    c = c
    x = x
    g = g
    Vanilla = {v, w}
    Tob = {}
    Backrun = {a, c}
    Invalid = {}
    Target <- OneEach
    ZeroScore = {}
    TTL = 1
    MaxCacheEntries = 2
    MaxPendingEntries = 2
    QueueBound = 5
SPECIFICATION Spec
PROPERTIES
    ForgottenEverywhere
