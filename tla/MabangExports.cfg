SPECIFICATION Spec
CONSTANTS
  None = None
  Session = Session
  p1 = p1
  p2 = p2
  Procs = {p1, p2}
  Kinds <- TwoCommands
  DomainPlace <- PlaceAsText
  Skew = 1
  Lifetimes = {2}
  Horizon = 1
  MaxLogins = 2
  PrivateHost <- PrivateDomain
  PrivateAmzHost <- PrivateAmzDomain
  WmsHost <- WmsDomain
  DingtalkDomain <- Dingtalk
  SessionName = "PHPSESSID"
  MemcacheName = "MEMBERINFO_LOGIN_COOKIE"
  RequiredNames = {"PHPSESSID", "MEMBERINFO_LOGIN_COOKIE"}
  Statuses = 2
  Batches <- TwoBatches
  BoxLimit = 2
  WmsAttempts = 2
  MaxPolls = 2
  Parts = {1, 2}
  DeliveryLines <- DeliveryOfTwo
  DetailFile <- DetailOfThree
  StockFile <- TwoStockFiles
  StoreQuery <- Query
  StoreList <- Listed
  BoxRows <- SixBoxes
INVARIANTS StateIsOneLogin ResultIsOneAttempt
PROPERTIES GoodLoginIsKept EveryCommandEnds
