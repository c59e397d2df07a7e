SPECIFICATION AdmissionSpec
CONSTANTS
    h1 = h1
    f1 = f1
    p1 = p1
    p2 = p2
    a1 = a1
    a2 = a2
    b1 = b1
    b2 = b2
    Job = {a1, a2, b1, b2}
    Host = {h1}
    Fingerprint = {f1}
    Request = {d1}
    Budget <- MCBudget
    Demand = {1}
    Lease = 1
    Page = 1
    MaxClock = 3
    Deployment = {p1, p2}
    Ranks <- MCRanks
    Group <- MCGroup
    PlanBudget <- MCPlanBudget
    PlanDemand <- MCPlanDemand
    MaxActive = 2
    MaxRestarts = 1
INVARIANTS
    RunningAccounted
CHECK_DEADLOCK FALSE
