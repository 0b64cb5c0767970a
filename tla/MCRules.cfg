CONSTANTS
  Keys = {buy1, sell1}
  NoKey = NoKey
  Gens = {g1, g2}
  Prices = {1, 2, 3}
  OrderIds = {"o1", "o2", "o3"}
  MaxOrder = 3
  MaxPosition = 3
  MaxOpen = 2
  MaxLoss = 3
  CanaryOrder = 2
  MaxFills = 5
  MaxPlaced = 3
  MaxCommands = 2
  Breakers = {"exchange_errors", "market_data_stale"}
  Threshold = 2
  Cooldown = 2
  Notionals = {2, 3}
  Exposures = {0, 3}
  OpenCounts = {0, 1}
  DayResults <- Results
  OrderLimit = 2
  PositionLimit = 4
  OpenLimit = 1
  LossLimit = 5
  CanaryPosition = 2
  CanaryNotional = 2
  CanaryCount = 2
  MaxFailures = 3
  MaxDays = 1
  MaxApprovals = 1
  MaxShutdowns = 1
  BalanceTolerance = 1
  NotionalTolerance = 2
  SnapshotPairs <- RecordPairs
  Configs <- WideAndTight
  Books <- NarrowBooks
  Volatilities = {0, 4000}
  Imbalances <- SellersBuyers
  Holdings <- Portfolios
  Pressures = {100, 150}
  Levels = {1, 2}
  PriceTick = 10
  QuantityStep = 2
  MinQuantity = 4
  MinNotional = 4000
  Hour = 2
  Day = 8
  Week = 16
  Unit = 10000
  Horizon = 20
  Settings <- VolumeSettings
  Externals = {0, 10}
  MaxTrades = 2
  Accounts = {"a", "b"}
  LevelPrices = {1, 2}
  OrderWindow = 1
  CancelWindow = 2
  FillWindow = 1
  MaxPerWindow = 1
  Cluster = 2
  ClientIds = {1, 2, 3}
  MaxExecutions = 2
  MaxNow = 3
SPECIFICATION RulesSpec
INVARIANTS
  PartTypeOK OneOrderPerLevel OutsideLadderGone QuotesSound PushedWhenBehind
  CanaryBounded  MismatchesExact
PROPERTIES
    AlertsExact
