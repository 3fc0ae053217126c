CONSTANTS
    h1 = h1
    h2 = h2
    h3 = h3
    h4 = h4
    h5 = h5
    SentHash = {h1, h2, h3, h4, h5}
    SentCacheMax = 2
    OrderBound = 7
SYMMETRY AnyHash
SPECIFICATION Spec
INVARIANTS
    OrderBounded
