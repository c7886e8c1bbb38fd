SPECIFICATION WorkerSpec
CONSTANTS
    Updates = 3
    NetCapacity = 1
    UiCapacity = 1
    CommandCapacity = 1
    MaxRequests = 1
    FlushSize = 2
    MaxLoads = 2
    MaxRestarts = 2
    Topic = {dialogs}
    Chat = {c1, c2}
    Pins = message_pins
    NoChat = NoChat
    Rechecked = {dialogs}
    MaxTasks = 2
    MaxChanges = 2
    MaxFailures = 1
    MaxCommands = 1
    MaxSwitches = 2
INVARIANTS
    WorkerTypeOK
    NothingIsSkipped
    SettledIsCurrent
PROPERTIES
    AllArrives
    ImplementsDurableStream
    AnswersNeverUndo
CHECK_DEADLOCK FALSE
