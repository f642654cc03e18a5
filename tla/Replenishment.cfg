SPECIFICATION Spec
CONSTANTS
  None = None
  Blank = Blank
  TrendGroups <- MCTrendGroups
  TiesUp = {1000005}
  Store = "S"
  Downloads <- MCDownloads
  Combos <- MCCombos
  Stocks <- MCStocks
  RawShipments <- MCRawShipments
  AmazonFiles <- MCAmazonFiles
  MaxTime = 1
  MaxSnapshots = 1
  Schemes <- MCSchemes
  PerDay = 1
  MaxDownloads = 2
INVARIANTS
  ReportJoinsOneDownload
  ShipsWhatIsMissing
  EveryUnitIsCountedOnce
  MoreUnderWayNeverShipsMore
CHECK_DEADLOCK FALSE
