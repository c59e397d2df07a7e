SPECIFICATION Spec
CONSTANTS
    m = m
    c = c
    r1 = r1
    r2 = r2
    o1 = o1
    o2 = o2
    steer = steer
    NoAgent = NoAgent
    Agent = {m, c, r1}
    Owner = {o1, o2}
    Message = {steer}
    Steer = {steer}
    OwnerOf <- MCOwnerOf
    ParentOf <- MCParentOf
    RetryOf <- MCRetryOf
    Recipient <- MCRecipient
    Stale = 0
    Grace = 0
    RetryLease = 1
    MaxPending = 1
    MaxClock = 1
INVARIANTS
    TreeCancelled
    LateResultDiscarded
    RetriedBacked
PROPERTIES
    SteerReachesActive
CHECK_DEADLOCK FALSE
