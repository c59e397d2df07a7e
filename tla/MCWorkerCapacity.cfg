SPECIFICATION Spec
CONSTANTS
    h1 = h1
    h2 = h2
    f1 = f1
    f2 = f2
    Job = {j1, j2}
    Host = {h1, h2}
    Fingerprint = {f1, f2}
    Request = {d1}
    Budget <- MCBudget
    Demand = {0, 1}
    Lease = 1
    Page = 1
    MaxClock = 2
SYMMETRY Symmetry
INVARIANTS
    TypeOK
    MemoryWithinBudget
    JobsWithinBudget
    OneMachine
    LeaseKept
    RunningAccounted
PROPERTIES
    DispatchedOnce
CHECK_DEADLOCK FALSE
