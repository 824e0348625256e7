SPECIFICATION OutSpec
CONSTANTS
    r1 = r1
    r2 = r2
    r3 = r3
    k1 = k1
    k2 = k2
    k3 = k3
    a1 = a1
    a2 = a2
    a3 = a3
    h1 = h1
    h2 = h2
    Parts = {"export", "sharing", "trust", "window"}
    Drivers = {"mysql", "postgres", "sqlite"}
    MyExecutes = 2
    MyScripts <- MCScripts
    MyCatalogErrors = FALSE
    PgExecutes = 3
    PgSorts = {"write", "rows", "implicit", "begin", "commit", "rollback", "chain"}
    PgCatalogErrors = FALSE
    SqExecutes = 3
    SqSorts = {"write", "rows", "begin", "commit", "rollback"}
    SqEditCommitFails = FALSE
    XpPages = 3
    XpWidths <- MCWidths
    XpChunk = 2
    XpDeferred = {2}
    XpExports = 2
    ShRequests = {r1, r2, r3}
    ShKeys = {k1, k2, k3}
    ShListeners = {k3}
    ShSlots = {1, 2, 3}
    ShShared = {1, 2, 3}
    ShRegistry = 1
    ShPermits = 2
    ShInvalidations = 1
    ShNobody = ShNobody
    HtApprovals = {a1, a2, a3}
    HtKeys = {h1, h2}
    HtForeign = 1
    HtNobody = HtNobody
    PtQueue = 2
    PtBudget = 2
    PtNested = 1
    PtQueries = 2
    PtPages = 2
    PtAsks = 2
    PtOthers = 1
\* Every session ends when its connection is closed.
CHECK_DEADLOCK FALSE
INVARIANTS
    OutsideTypeOK
    MyInStep
    StoppedIsUndone
    XpWholeOrNothing
    ShSharedByKey
    HtSaysTheTruth
    PtEveryLeaseHasOneOwner
PROPERTIES
    SessionsKeepTheirPromise

