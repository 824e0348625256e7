SPECIFICATION MCSpec
CONSTANTS
    Parts = {"arena", "memory", "recovery", "catalog", "helper", "updates"}
    a = a
    b = b
    Empty = Empty
    Values = {a, b}
    LastGeneration = 2
    MaxSlots = 3
    q1 = q1
    q2 = q2
    p1 = p1
    p2 = p2
    NoQuery = NoQuery
    Queries = {q1, q2}
    Global = 8
    PerResult = 6
    Transfer = 3
    Source = 2
    Kept = 1
    Page = 2
    Pages = {p1, p2}
    MaxRequests = 2
    RqRequests = 4
    RqOtherJobs = 1
    RqWaiting = 2
    RqBytes = 3
    RqJobs = 1
    RqEvents = 1
    r1 = r1
    r2 = r2
    CrReads = {r1, r2}
    CrCapacity = 1
    CrStatements = 2
    UsVersions = 2
    UsChecks = 3
\* Every part comes to rest: generations and requests run out, connections and updates end.
CHECK_DEADLOCK FALSE
INVARIANTS
    ServicesTypeOK
    ResolvesToItsOwn
    Accounted
    NoLostWakeup
    RqAnsweredInOrder
    CrNothingUncommittedSaved
    CrSavedFirst
    UhSaysTheTruth
    UsInstallsWhatWasAsked
PROPERTIES
    WaitEnds
    RqAnswered
    CrEveryReadAnswered
