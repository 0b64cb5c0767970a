CONSTANTS
    Mode = "paper"
    Orders = {o1, o2}
    NSymbols = 1
    MaxQuotes = 2
    Requests = {"DISABLE_TRADING", "ENABLE_TRADING", "CONFIG_ON", "CONFIG_OFF", "STOP", "CLOSE_POSITIONS"}
    MaxRequests = 2
    MaxBus = 2
    MaxFailures = 1
    MaxRestarts = 1
    RedisFails = FALSE
SPECIFICATION Spec
SYMMETRY Symmetry
INVARIANTS TypeOK KillSwitchBounded SwitchedOffBounded KillDrains
