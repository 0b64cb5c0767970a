CONSTANTS
  Clients = {"a", "b"}
  TTL = 2
  MaxAcquires = 2
  MaxNow = 4
  Requests = {"r1", "r2", "r3"}
  Limit = 1
  Window = 2
  Horizon = 5
  Outages = 4
  MaxErrors = 3
  Runners = {"r1", "r2"}
  Migrations = {1, 2, 3}
  Seeds = {1}
  Length = 2
  MaxRuns = 3
  Prices = {10, 11}
  Sizes = {1, 2}
  MaxSeq = 3
  MaxWire = 2
  Domains = {"risk", "liquidity"}
  Feed = {"liquidity"}
  Fields = {"a", "b"}
  Default = "off"
  Overlays <- SmallOverlays
  Updates = {"r1", "r2"}
  UpdateFaults = 1
  AccountRequests = {"r1", "r2", "r3"}
  RequestKinds = {"connect", "upsert", "status", "test", "sync", "remove"}
  Private = TRUE
  Passphrases = {TRUE}
  MaxIds = 2
  NoRequest = "none"
  QueryLimit = 2
  Burst = 2
  MaxRows = 3
  MaxCount = 0
  MaxConnects = 2
  MaxStops = 0
  Subscriptions <- TwoStreams
  Coinstore = FALSE
  SendsPrevious = TRUE
  MaxUpdates = 6
  MaxMessages = 3
  FeedFaults = 3
  Connectors = {"c1", "c2"}
  MessageKinds = {"ticker", "orderbook", "kline"}
  PersistEvery = 2
  Rollbacks = 2
SPECIFICATION Spec
INVARIANTS
  TypeOK   MigrationsWhole DashboardCurrent
  LimitExact LoopHonest  
PROPERTIES LockHeld
