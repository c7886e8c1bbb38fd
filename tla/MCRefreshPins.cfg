SPECIFICATION ListsSpec
CONSTANTS
    Topic = {dialog_pins}
    Chat = {c1, c2}
    Pins = message_pins
    NoChat = NoChat
    Rechecked = {}
    MaxTasks = 2
    MaxChanges = 2
    MaxFailures = 1
    MaxCommands = 1
    MaxSwitches = 2
INVARIANTS
    PartialFailuresSettle
CHECK_DEADLOCK FALSE
