CONSTANTS
    Parts = {"hub", "lane", "searches", "database", "qbittorrent", "feed", "rules", "intake", "settings", "jobs"}
    TaskIds = {a}
    Clients = {c1}
    RingDepth = 2
    subscriberBuffer = 2
    MaxEdits = 2
    MaxHubMishaps = 0
    AcctRequests = {r1}
    Capacity = 2
    BackoffCap = 2
    MaxTime = 2
    MaxSessions = 2
    MaxFailures = 2
    MaxFaults = 0
    Callers = {c1}
    MaxProcs = 2
    MaxLines = 0
    MaxStalls = 1
    Indexers = {x1}
    NoEntry = NoEntry
    MaxHandlerRuns = 2
    MaxStoreFaults = 1
    MaxStops = 1
    IxHandlers = {h1, h2}
    IxRequests <- MCIxRequests
    BundledIDs <- MCBundledIDs
    BundledValid = {"b1", "b2"}
    UserDirs <- MCUserDirs
    Provider <- MCProvider
    BadURLs = {"bad"}
    IxBudgets <- SmallIxBudgets
    Embedded = 2
    Keep = 1
    DbBudgets <- SmallDbBudgets
    QbtHashes = {h1}
    Duplicates = {h1}
    MaxFlushAttempts = 2
    MaxChanges = 2
    MaxQbtFailures = 1
    Docs <- MCDocs
    ItemCap = 2
    MaxLevel = 1
    MaxFeedFaults = 1
    MaxRestarts = 0
    Items = {"i1", "i2"}
    NoValue = NoValue
    Catalogs <- SmallCatalogs
    Cooldowns = {0}
    Runners = {r1, r2}
    MaxPerRun = 1
    MaxRefusals = 1
    MaxCrashes = 0
    MaxRemovals = 0
    MaxTasks = 3
    Torrents = {"h", "p"}
    Hybrids = {"h"}
    NoTorrent = NoTorrent
    Submissions <- MCSubmissions
    Requests = {r1}
    IntakeBudgets <- SmallIntakeBudgets
    Names = {1, 2}
    Scanners = {"loop", "button"}
    MaxWatchFolderLoaded = 1
    WatchDir = TRUE
    CategoryNames = {"k1", "k2"}
    FolderPaths = {"/drop"}
    SavePaths = {"/data/a", "/vol/escape"}
    SpelledInside <- MCSpelledInside
    Resolves <- MCResolves
    Passwords = {"p1", "p2", "p3"}
    Grids = {"g1", "g2"}
    MaxExtractPasswords = 1
    ForeignDocs <- MCForeignDocs
    SettingsBudgets <- SmallSettingsBudgets
    Tasks = {t1}
    Workers = {w1, w2}
    MaxAttempts = 2
    AttemptBound = 4
    MaxFinishes = 2
    MaxMishaps = 1
    Setups <- SmallSetups
SPECIFICATION ProgressSpec
PROPERTIES
    ClientsFollow EnginesFollow JobsEnd RssGoesOn StoreReturns DropsLoaded
CHECK_DEADLOCK FALSE
