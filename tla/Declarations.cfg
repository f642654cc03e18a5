SPECIFICATION Spec
CONSTANTS
  None = None
  Blank = Blank
  BlockRows = 3
  KeptBlocks = 2
  KeptRows = 5
  Books <- MCBooks
  PlannedCsv <- MCPlannedCsv
  PackedCsv <- MCPackedCsv
  Lists <- MCLists
  Joint <- MCJoint
  Template <- MCTemplate
  MaxRows = 6
  MaxCommands = 3
INVARIANTS
  CustomsMatchesInvoice
  TotalsAreConserved
  StockIsDeclaredFirst
  FormulasFollowTheirRows
  OnlyThePlanItselfIsRefused
CHECK_DEADLOCK FALSE
