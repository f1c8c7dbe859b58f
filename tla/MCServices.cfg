CONSTANTS
    Parts = {"hub", "accounts", "lane", "searches", "indexers", "database"}
    TaskIds = {a}
    Clients = {c1}
    RingDepth = 2
    subscriberBuffer = 2
    MaxEdits = 3
    MaxHubMishaps = 1
    AcctRequests = {r1, r2}
    Capacity = 1
    BackoffCap = 2
    MaxTime = 2
    MaxSessions = 2
    MaxFailures = 2
    MaxFaults = 1
    Callers = {c1, c2}
    MaxProcs = 2
    MaxLines = 1
    MaxStalls = 1
    Indexers = {x1, x2}
    NoEntry = NoEntry
    MaxHandlerRuns = 3
    MaxStoreFaults = 1
    MaxStops = 2
    IxHandlers = {h1, h2}
    IxRequests <- MCIxRequests
    BundledIDs <- MCBundledIDs
    BundledValid = {"b1", "b2"}
    UserDirs <- MCUserDirs
    Provider <- MCProvider
    BadURLs = {"bad"}
    IxBudgets <- MCIxBudgets
    Embedded = 2
    Keep = 1
    DbBudgets <- MCDbBudgets
SPECIFICATION ServicesSpec
INVARIANTS
    HubSafe AcctSafe LaneSafe SearchSafe IxSafe DbSafe BackupsKept
PROPERTIES
    RotationRevokes
CHECK_DEADLOCK FALSE
