CONSTANTS
  Clients = {market, trading}
  Capacity = 2
  Window = 3
  MaxNow = 4
  Calls = {r1, r2}
  MaxAttempts = 3
  x = x
SPECIFICATION ProgressSpec
INVARIANTS WindowBound
PROPERTIES
  ImplementsBudget BegunEnds  Reported
