SPECIFICATION Spec
CONSTANTS
    p1 = p1
    p2 = p2
    w1 = w1
    w2 = w2
    o1 = o1
    o2 = o2
    k1 = k1
    k2 = k2
    r1 = r1
    Proc = {p1}
    Worker = {w1, w2}
    Op = {o1, o2}
    Key = {k1, k2}
    Epoch <- MCEpoch
    Receipt = {r1}
    Verified = {o1, o2}
    PageBound = 2
    Retention = 2
    VerifierSlots = 1
    MaxGeneration = 2
    MaxCalls = 1
SYMMETRY Symmetry
INVARIANTS
    TypeOK
    CheckpointsSettled
    UncertainFenced
    EpochsOrdered
    IdentityUnique
PROPERTIES
    TerminalImmutable
    UncertainNeedsProof
    NoAdmissionOverUncertainty
CHECK_DEADLOCK FALSE
