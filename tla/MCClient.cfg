CONSTANTS
    Texts = {x, y}
    Files = {f}
    NoText = NoText
    MaxSends = 2
    MaxRetries = 1
    MaxGaps = 1
    PageSize = 1
    Capacity = 2
    MaxPosts = 3
    MaxChanges = 1
    MaxLosses = 1
    Talk = {c}
    Channel = {}
    Kind = {plain}
    Backend = "auto"
    MaxLoading = 1
    MaxGrouped = 2
    MaxJobs = 1
    MaxMessages = 2
    MaxAlertChanges = 1
    MaxAccounts = 2
    MaxResolved = 2
    Hit = {h}
    Query = {q1, q2}
    NoHit = NoHit
    MaxVersion = 1
    MaxAsked = 2
    MaxPages = 2
    MaxGapsFound = 1
    MaxPictures = 2
    MaxEnds = 2
    Updater = {u1, u2}
    MaxHeight = 3
    Attempts = 2
    MaxHarms = 1
    Interval = 2
    MaxTime = 3
    MaxNewest = 2
    MaxToggles = 2
    MaxRuns = 2
    Dialogs = 2
    Overlay = {"help", "settings"}
    Pinnable = 1
    MaxHappened = 1
    MaxActs = 2
    Configs <- UserConfigs
    MaxTyped = 3
    MaxReloads = 2
SPECIFICATION Spec
INVARIANTS
    TypeOK
    SentIsShown
    PagesFit
    AlertsHold
    SearchHolds
    PicturesExist
    ControlsHold
    UpdatesHold
PROPERTIES
    ActsOnWhatIs
    ActsAsSteered
CHECK_DEADLOCK FALSE
