SPECIFICATION MCSpec
CONSTANTS
    Drivers = {"mysql"}
    MyExecutes = 2
    MyScripts <- MCScripts
    MyCatalogErrors = TRUE
    PgExecutes = 3
    PgSorts = {"write", "rows", "implicit", "begin", "commit", "rollback", "chain"}
    PgCatalogErrors = FALSE
    SqExecutes = 3
    SqSorts = {"write", "rows", "begin", "commit", "rollback"}
    SqEditCommitFails = FALSE
\* Every session ends when its connection is closed.
CHECK_DEADLOCK FALSE
PROPERTIES MyKeepsItsPromise
