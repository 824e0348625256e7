SPECIFICATION LiveSpec
CONSTANTS
    q1 = q1
    q2 = q2
    NoQuery = NoQuery
    Queries = {q1, q2}
    Objects = {q2}
    Timed = {}
    Ops = {"Fetch", "NextResult", "View", "ClearView", "SqlMode", "Inspect", "LoadValue", "LoadChunk", "Release", "Disconnect", "Shutdown"}
    CommandCap = 1
    EventCap = 1
    MaxQueries = 1
    MaxPages = 1
    MaxCommands = 2
PROPERTIES StopEnds CancelSettles
CHECK_DEADLOCK FALSE
