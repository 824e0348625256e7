SPECIFICATION Spec
CONSTANTS
    i1 = i1
    i2 = i2
    p1 = p1
    p2 = p2
    database = database
    key = key
    s1 = s1
    s2 = s2
    direct = direct
    inline = inline
    r1 = r1
    r2 = r2
    r3 = r3
    Instances = {i1, i2}
    Ids = {p1, p2}
    Slots = {database, key}
    Secrets = {s1, s2}
    Configurations = {direct, inline}
    References = {r1, r2, r3}
    Usable <- MCUsable
    MaxProfiles = 2
    MaxJournal = 2
    Absent = Absent
    NoSecret = NoSecret
    NoReference = NoReference
    NoSlot = NoSlot
    Keep = Keep
    Clear = Clear
    NoJob = NoJob
    Free = Free
    Silent = Silent
    Succeeded = Succeeded
    Failed = Failed
SYMMETRY Symmetric
INVARIANTS TypeOK StoresAgree NothingShared
PROPERTIES CleanupIsComplete BehavesAsOneBook
