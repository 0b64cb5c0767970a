SPECIFICATION ExecutionSpec
CONSTANTS
  BalanceTolerance = 0
  NotionalTolerance = 0
  o1 = o1
  Orders = {o1}
  Side <- OneSide
  Price <- OnePrice
  Size = 1
  BalanceRows = TRUE
  Deduplicates = FALSE
  MaxLost = 3
  MaxDrops = 0
  MaxFailures = 1
  Reconciles = TRUE
  MaxRestarts = 1
INVARIANTS
  AcceptedOrdersKnown   
