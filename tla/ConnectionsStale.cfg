SPECIFICATION FairSpec
CONSTANTS
    Workers = {w1, w2}
    w1 = w1
    w2 = w2
    Operations = {o1}
    o1 = o1
    Agents = {a1}
    a1 = a1
    OpKinds = {"connect", "revoke"}
    Rotating = TRUE
    MaxGrants = 1
    MaxRefreshes = 1
    None = None
PROPERTY LockFreed
PROPERTY StaleTokenPasses
PROPERTY StaleListPasses
