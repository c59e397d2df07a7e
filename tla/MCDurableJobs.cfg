SPECIFICATION Spec
CONSTANTS
  parent = parent
  child = child
  w1 = w1
  w2 = w2
  NoJob = NoJob
  NoWorker = NoWorker
  NoCall = NoCall
  Job <- MCJob
  ParentOf <- MCParentOf
  Worker <- MCWorker
  Key = {k1}
  Caller = {host}
  Target = {"failed", "cancelled", "interrupted"}
  MaxAttempts <- MCMaxAttempts
  Lease = 1
  MaxClock = 1
  MaxRevision <- MCMaxRevision
  MaxDescendants = 1
  Page = 1
SYMMETRY MCSymmetry
INVARIANT
  SnapshotExact
PROPERTIES
  KeepsContract
  StaleTokenRefused
CHECK_DEADLOCK FALSE
