SPECIFICATION Spec
CONSTANTS
    Workers = {w1, w2}
    w1 = w1
    w2 = w2
    Operations = {o1}
    o1 = o1
    Agents = {}
    OpKinds = {"connect", "key", "cleanup"}
    Rotating = FALSE
    MaxGrants = 2
    MaxRefreshes = 2
    None = None
SYMMETRY Interchangeable
INVARIANT TypeOK
 
 
PROPERTY RemovedStaysRemoved
