SPECIFICATION StorageSpec
CONSTANTS
    None = None
    JobIds = {j1, j2, j3, j4}
    Models = {m1, m2}
    NoModel = NoModel
    Shared = m1
    Owner = owner
    Other = other
    Size = 1
    MaxFiles = 2
    MaxOps <- MCMaxOps
    Binds = {1, 2}
    MaxHandles = 4
    Capacity = 1
    MaxFaults = 2
    MaxMoves = 1
    EntryNames = {"s", "t"}
    MaxNodes = 3
    MaxCalls = 2
    Nil = Nil
    o1 = o1
    MaxPromotions = 3
    Openers = {o1}
    Exchange = {TRUE, FALSE}
    ReadableName = TRUE
    Bounds <- MCPromotionBounds
    NoValue = NoValue
    Writers = {w1, w2}
    CanLink = TRUE
    MaxPublications = 2
    MaxUserActions = 1
    MaxDeaths = 1
    RestoreAttempts = 1
    FrameNames = {f1, f2}
    Absent = Absent
    MaxRuns = 2
    MaxRewrites = 1
    MaxTroubles = 2
INVARIANTS
    BoundCorrect
    CalmKeepsCuts OpenedIsRecovered BackupsAreMarked
PROPERTIES
    ContextCorrect
    ModelStoreCorrect
    EntriesCorrect
    PublishesAtomically
    PublicationCorrect
    MigrationCorrect
SYMMETRY Processes
CHECK_DEADLOCK FALSE
