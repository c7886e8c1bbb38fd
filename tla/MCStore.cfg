SPECIFICATION StoreSpec
CONSTANTS
    k1 = k1
    k2 = k2
    chan = chan
    priv = priv
    r1 = r1
    r2 = r2
    r3 = r3
    r4 = r4
    Key = {k1, k2}
    Common = {priv}
    Channel = {chan}
    ChatOf <- ChannelChatOf
    IdOf <- AnyIdOf
    Req = {r1, r2}
    KindOf <- ChannelKindOf
    TargetOf <- ChannelTargetOf
    MaxVersion = 2
    MaxChat = 1
    MaxDeletions = 0
    MaxRevision = 5
    MaxEvents = 5
    Review = {r1}
    History = {r2}
    JournalLimit = 1
    Change <- SomeChanges
    MaxChanges = 2
    MaxInvalid = 1
    MaxId = 2
    PerSecond = 2
    Outgoing = {}
    IsChannel = FALSE
    MaxSkips = 1
    MaxDeletes = 1
    MaxReads = 1
    MaxRestarts = 1
INVARIANTS
    TypeOK
    SnapshotsNeverUndo
    ContentsAreCurrent
PROPERTIES
    CountIsSound
CHECK_DEADLOCK FALSE
