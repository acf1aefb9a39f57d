\* The database as the only sink.
CONSTANTS
    Events <- SqliteEvents
    Configs <- SqliteOnly
SPECIFICATION LogSpec
INVARIANTS SqliteKeepsEvents
CHECK_DEADLOCK FALSE
