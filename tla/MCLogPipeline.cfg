\* Every kind of event under every combination of handlers and filters.
CONSTANTS
    Events <- AllEvents
    Configs <- AllConfigs
SPECIFICATION LogSpec
INVARIANTS LogTypeOK FileIsTerminal FilterReachesSinks DroppedEverywhere ReachesSinks
CHECK_DEADLOCK FALSE
