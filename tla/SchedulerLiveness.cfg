CONSTANTS
  Sessions = {s1, s2}
  SessionKeys = {}
  Jobs = {j1, j2, j3}
  Leases = {}
  MaxConcurrency = 1
  FrontOptions = {FALSE}
  NoJob = NoJob
  NoSession = NoSession
SPECIFICATION FairSpec
PROPERTIES
  NoStarvation
CHECK_DEADLOCK FALSE
