SPECIFICATION MCSpec
CONSTANTS
    Caller = {c1, c2}
    None = None
    TTL = 2
    Timeout = 1
    MaxVersion = 2
    MaxTime = 6
    k = k
    w = w
    v = v
    p = p
    Input = {k, w, v, p}
    Permitted = {w}
    method <- MCMethod
    Tiers <- MCTiers
INVARIANTS
    BoundedStaleness
    FirstInOrder
