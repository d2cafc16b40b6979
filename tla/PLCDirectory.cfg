SPECIFICATION MCSpec
CONSTANTS
    c1 = c1
    c2 = c2
    k1 = k1
    k2 = k2
    n = n
    p = p
    w = w
    Client = {c1, c2}
    Founder = c1
    Key = {k1, k2}
    KeyOf <- MCKeyOf
    Changes <- MCChanges
    MaxLog = 3
    MaxTries = 4
    Unset = Unset
    Caller = {c1, c2}
    DID = {p, w}
    PLC = {p}
    Subject = p
    None = None
    Failed = Failed
    MaxVersion = 3
    HasCache = TRUE
INVARIANTS
    NothingUndone
    AlwaysControlled
    PublishedOnce
    FollowsTheLog
    ResolvesPublished
PROPERTIES
    NeverStale
CHECK_DEADLOCK FALSE
