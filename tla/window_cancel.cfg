SPECIFICATION PtFairSpec
CONSTANTS
    PtQueue = 2
    PtBudget = 1
    PtNested = 0
    PtQueries = 1
    PtPages = 2
    PtAsks = 2
    PtOthers = 0
PROPERTIES PtCancelAcknowledged
\* Everything that the bounds let happen has happened.
CHECK_DEADLOCK FALSE
