SPECIFICATION CountSpec
CONSTANTS
    MaxId = 2
    PerSecond = 2
    Outgoing = {}
    IsChannel = FALSE
    MaxSkips = 0
    MaxDeletes = 0
    MaxReads = 0
    MaxRestarts = 0
INVARIANTS
    ArrivalsCovered
CHECK_DEADLOCK FALSE
