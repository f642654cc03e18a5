CONSTANTS
  Sessions = {s1, s2, s3}
  SessionKeys = {k1}
  Jobs = {j1, j2, j3}
  Leases = {l1, l2}
  MaxConcurrency = 2
  FrontOptions = {FALSE}
  NoJob = NoJob
  NoSession = NoSession
SPECIFICATION Spec
SYMMETRY Symmetry
INVARIANTS
  ReadyIsExact
  DeletionsAreFenced
PROPERTIES
  FifoPerSession
  AcceptedStopEndsTheTurn
  ImplementsTurnDispatch
CHECK_DEADLOCK FALSE
