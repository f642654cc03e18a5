CONSTANTS
  Callers = {c1, c2, c3}
  Operations = {"start", "stop", "restart"}
  Internals = {i1, i2}
  Jobs = {j1}
  MaxFaults = 2
  MaxChildren = 8
  MaxRestarts = 2
SPECIFICATION FairSpec
INVARIANTS
  NothingLeftBehind
  ReadyIsTruthful
  StopIsFinal
PROPERTIES
  RecoversOrGivesUp
CHECK_DEADLOCK FALSE
