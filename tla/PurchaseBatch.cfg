SPECIFICATION Spec
CONSTANTS
  None = None
  Blank = Blank
  Sps <- MCSps
  Contents <- MCContents
  Downloads <- MCDownloads
  Master <- MCMaster
  TemplateSuppliers = {"X", "Y"}
  Entries <- MCEntries
  FaultyServer = TRUE
  MaxDownloads = 1
  MaxMoves = 1
  MaxBatches = 2
  MaxCommands = 4
INVARIANTS
  ConsentPrecedesCommit
  CommitsOnTheAskedRoute
  SuccessHoldsThePlan
  ContractsAreTheBatch
  RetryIsRecognised
CHECK_DEADLOCK FALSE
