SPECIFICATION WSpec
CONSTANTS
    p1 = p1
    p2 = p2
    w1 = w1
    w2 = w2
    o1 = o1
    o2 = o2
    k1 = k1
    k2 = k2
    r1 = r1
    t1 = t1
    t2 = t2
    Proc = {p1, p2}
    Worker = {w1}
    Op = {o1}
    Key = {k1}
    Epoch <- MCEpoch
    Receipt = {r1}
    Verified = {o1}
    PageBound = 2
    Retention = 1
    VerifierSlots = 1
    MaxGeneration = 2
    MaxCalls = 2
    Thread = {t1}
    RunLease = TRUE
    MaxStarts = 2
SYMMETRY FullSymmetry
INVARIANTS
    LeaseHolderCanClaim
CHECK_DEADLOCK FALSE
