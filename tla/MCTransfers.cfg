SPECIFICATION Spec
CONSTANTS
    Chats = {c, d}
    Messages = {m}
    Media = {a, b}
    Slots = 1
    MaxPending = 2
    MaxTransfers = 2
    MaxEdits = 1
    MaxReloads = 1
INVARIANTS TypeOK SentInOrder AttachmentIsItsMedia AnswersAreAsked NothingLeftUnderWay
PROPERTIES EveryTransferAnswered
CHECK_DEADLOCK FALSE
