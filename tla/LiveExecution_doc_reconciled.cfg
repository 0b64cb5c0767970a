SPECIFICATION FairSpec
CONSTANTS
    BalanceTolerance = 0
    NotionalTolerance = 0
    o1 = o1
    Orders = {o1}
    Side <- OneSide
    Price <- OnePrice
    Size = 1
    BalanceRows = FALSE
    Deduplicates = FALSE
    MaxLost = 0
    MaxDrops = 1
    MaxFailures = 0
    Reconciles = TRUE
    MaxRestarts = 0
PROPERTIES
    MatchesEventuallyRecorded
