CONSTANTS
    Parts = {"qbittorrent", "feed", "rules", "intake", "settings", "jobs"}
    QbtHashes = {h1, h2}
    Duplicates = {h1}
    MaxFlushAttempts = 2
    MaxChanges = 3
    MaxQbtFailures = 1
    Docs <- MCDocs
    ItemCap = 2
    MaxLevel = 1
    MaxFeedFaults = 2
    MaxRestarts = 1
    Items = {"i1", "i2"}
    NoValue = NoValue
    Catalogs <- MCCatalogs
    Cooldowns = {0, 1}
    Runners = {r1, r2}
    MaxPerRun = 1
    MaxRefusals = 1
    MaxCrashes = 1
    MaxRemovals = 1
    MaxTasks = 3
    Torrents = {"h", "p"}
    Hybrids = {"h"}
    NoTorrent = NoTorrent
    Submissions <- MCSubmissions
    Requests = {r1, r2}
    IntakeBudgets <- MCIntakeBudgets
    Names = {1, 2}
    Scanners = {"loop", "button"}
    MaxWatchFolderLoaded = 1
    WatchDir = TRUE
    CategoryNames = {"k1", "k2"}
    FolderPaths = {"/drop"}
    SavePaths = {"/data/a", "/vol/escape"}
    SpelledInside <- MCSpelledInside
    Resolves <- MCResolves
    Passwords = {"p1", "p2", "p3"}
    Grids = {"g1", "g2"}
    MaxExtractPasswords = 1
    ForeignDocs <- MCForeignDocs
    SettingsBudgets <- MCSettingsBudgets
    Tasks = {t1}
    Workers = {w1, w2}
    MaxAttempts = 2
    AttemptBound = 4
    MaxFinishes = 2
    MaxMishaps = 1
    Setups <- MCSetups
SPECIFICATION ContentSpec
INVARIANTS
    QbtSafe FeedSafe GrabSafe IntakeSafe NoSelfCollision WatchSafe
    SettingsSafe ImportRestores JobsSafe PayloadSafe
CHECK_DEADLOCK FALSE
