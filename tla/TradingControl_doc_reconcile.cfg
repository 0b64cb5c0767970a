CONSTANTS
    Mode = "paper"
    Orders = {o1}
    NSymbols = 1
    MaxQuotes = 1
    Requests = {"KILL_ENABLE"}
    MaxRequests = 1
    MaxBus = 1
    MaxFailures = 0
    MaxRestarts = 0
    RedisFails = FALSE
SPECIFICATION FairSpec
PROPERTY ReconciliationContinues
