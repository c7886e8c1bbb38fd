SPECIFICATION SessionSpec
CONSTANTS
    Dc = {d1}
    NoDc = NoDc
    MaxCommands = 2
    MaxLaunches = 0
    MaxHops = 1
INVARIANTS
    EscapeIsAnswered
CHECK_DEADLOCK FALSE
