SPECIFICATION Spec
CONSTANTS
    q1 = q1
    q2 = q2
    NoQuery = NoQuery
    Queries = {q1}
    Objects = {}
    Timed = {}
    Ops = {"Fetch"}
    CommandCap = 1
    EventCap = 1
    MaxQueries = 2
    MaxPages = 1
    MaxCommands = 1
CHECK_DEADLOCK FALSE
INVARIANT DropOnlyAfterReturn
