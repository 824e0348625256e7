SPECIFICATION RecordsSpec
CONSTANTS
    d1 = d1
    d2 = d2
    DgProcesses = {d1, d2}
    DgQueue = 1
    DgDay = 2
    DgRescued = 1
    DgReports = 1
    DgRecords = 1
    DgCrashes = 1
    DgClears = 1
    q1 = q1
    q2 = q2
    NoQuery = NoQuery
    q3 = q3
    Queries = {q1, q2, q3}
    Objects = {q3}
    Timed = {q2, q3}
    Ops = {"Fetch", "SqlMode", "Inspect", "LoadValue", "LoadChunk", "NextResult", "Release", "Disconnect", "Shutdown"}
    CommandCap = 1
    EventCap = 1
    MaxQueries = 2
    MaxPages = 1
    MaxCommands = 1
INVARIANTS RecordsTypeOK TicketOwned FinishedIsRecorded SettledBeforeNextCall DgNothingVanishes
PROPERTIES CancelledNeverRuns
CHECK_DEADLOCK FALSE
SYMMETRY Processes
