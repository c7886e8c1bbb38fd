SPECIFICATION Spec
CONSTANTS
    k1 = k1
    k2 = k2
    chan = chan
    priv = priv
    r1 = r1
    r2 = r2
    r3 = r3
    r4 = r4
    Key = {k1, k2}
    Common = {priv}
    Channel = {chan}
    ChatOf <- PrivateChatOf
    IdOf <- AnyIdOf
    Req = {r1, r2, r3, r4}
    KindOf <- PrivateKindOf
    TargetOf <- PrivateTargetOf
    MaxVersion = 2
    MaxChat = 1
    MaxDeletions = 1
    MaxRevision = 4
INVARIANTS
    SnapshotsNeverUndo
PROPERTIES
    DeletionsBounded
SYMMETRY SearchSymmetry
