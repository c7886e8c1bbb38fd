SPECIFICATION Spec
CONSTANTS
    Dc = {d1, d2, d3}
    NoDc = NoDc
    MaxCommands = 3
    MaxLaunches = 1
    MaxHops = 2
    Account = {a, b}
    Chat = {c}
    NoAccount = NoAccount
    Missing = Missing
    MaxEdits = 2
    MaxSwitches = 1
    MaxFaults = 1
    FocusDelay = 1
    BlurTimeout = 2
    IdleTimeout = 3
    MaxQueued = 1
    MaxFailures = 1
    MaxWorkers = 2
INVARIANTS
    TypeOK
    InStep
    NoDraftIsLost
PROPERTIES
    ReadyIsWanted
    WorkSettles
CHECK_DEADLOCK FALSE
