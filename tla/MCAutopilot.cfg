SPECIFICATION Spec
CONSTANTS
    e1 = e1
    e2 = e2
    NoExec = NoExec
    Exec = {e1, e2}
    N = 3
    Kind <- MCKind
INVARIANTS
    LostOutcomeKept
    CompletionSound
PROPERTIES
    CancelDiscards
    TerminalFrozen
SYMMETRY Symmetry
CHECK_DEADLOCK FALSE
