CONSTANTS
    Mode = "live"
    Orders = {o1, o2}
    NSymbols = 2
    MaxQuotes = 1
    Requests = {"KILL_ENABLE", "KILL_DISABLE", "DISABLE_TRADING", "ENABLE_TRADING", "CONFIG_ON", "CLOSE_POSITIONS", "START", "PAUSE", "CANCEL_ALL_ORDERS", "RUNTIME_RESTART"}
    MaxRequests = 2
    MaxBus = 2
    MaxFailures = 1
    MaxRestarts = 1
    RedisFails = TRUE
SPECIFICATION Spec
SYMMETRY Symmetry
INVARIANTS KillSwitchBounded SwitchedOffBounded
