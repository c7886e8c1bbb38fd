CONSTANTS
    MaxVersion = 2
    MaxRequests = 3
    MaxCarried = 2
    Typed = {"first", "second"}
    Link = {"one", "other"}
    Sticker = {"cat", "dog"}
    MaxThumbs = 1
    Spot = {chat, field}
    Inputs = {field}
    Owner = {o1, o2}
    MaxPastes = 2
    MaxMoves = 2
    MaxPasteSwitches = 1
SPECIFICATION Spec
INVARIANTS
    TypeOK
    EffectsAsConfirmed
    ShownIsTrue
    PastesGoWhereMeant
PROPERTIES
    ToldIsRespected
    ActsAsReviewed
    RequestsEnd
CHECK_DEADLOCK FALSE
