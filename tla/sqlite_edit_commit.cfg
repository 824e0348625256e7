SPECIFICATION MCSpec
CONSTANTS
    Drivers = {"sqlite"}
    MyExecutes = 2
    MyScripts <- MCScripts
    MyCatalogErrors = FALSE
    PgExecutes = 3
    PgSorts = {"write", "rows", "implicit", "begin", "commit", "rollback", "chain"}
    PgCatalogErrors = FALSE
    SqExecutes = 3
    SqSorts = {"write", "rows", "begin", "commit", "rollback"}
    SqEditCommitFails = TRUE
\* Every session ends when its connection is closed.
CHECK_DEADLOCK FALSE
INVARIANTS SqStoppedIsUndone
