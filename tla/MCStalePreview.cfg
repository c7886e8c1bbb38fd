SPECIFICATION Spec
CONSTANTS
    Chats = {c}
    Messages = {m}
    Media = {a, b}
    Slots = 1
    MaxPending = 2
    MaxTransfers = 1
    MaxEdits = 1
    MaxReloads = 0
INVARIANTS PreviewIsItsMedia
CHECK_DEADLOCK FALSE
