SPECIFICATION Spec
CONSTANTS
  Aliases <- SiteAliases
  Marketplace <- SiteOfLabel
  Shipments <- TwoShipments
  Boxes <- BoxesOf
  MaxWeight = 23
  Tasks <- ThreeTasks
  Layouts = {"legacy", "3_1", "3_2", "ca"}
  Regions = {"Italy", "United Kingdom"}
  MaxFaults = 2
  MaxLoginClicks = 2
  MaxRuns = 7
  MaxTurns = 3
INVARIANTS AcceptedShipmentIsTheOneAsked UndisturbedStagesSucceed FinishedMeansShipped
