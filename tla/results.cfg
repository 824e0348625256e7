SPECIFICATION ResultsSpec
CONSTANTS
    row1 = row1
    row2 = row2
    plain = plain
    opaque = opaque
    EsCases <- MCStatements
    GeKeys = {row1, row2}
    GeColumns = {plain, opaque}
    GeOpaque = {opaque}
    GeDrivers = {"mysql", "postgres", "sqlite"}
    GeEdits = 2
    GeWrites = 1
    VoCases <- MCValues
    VoBits = 4
    RvResults <- MCResults
    RvFilters <- MCFilters
    RvSorts = {"none", "up", "down", "json"}
    RvSizes = {1, 2}
    RvPageBytes = 2
    RvDisk = 9
    RvViews = 2
    q1 = q1
    q2 = q2
    NoQuery = NoQuery
    Queries = {q1}
    Objects = {}
    Timed = {q1}
    Ops = {"Fetch", "NextResult", "View", "ClearView", "Release", "Disconnect"}
    CommandCap = 2
    EventCap = 1
    MaxQueries = 1
    MaxPages = 2
    MaxCommands = 3
INVARIANTS ResultsTypeOK EsSaysWhatIsShown VoOrdersTruly ViewOverSettledResult ReleasedIsFreed
PROPERTIES GeAppliedAsReviewed RvShowsWhatWasAsked
CHECK_DEADLOCK FALSE
