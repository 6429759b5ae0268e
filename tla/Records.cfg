SPECIFICATION AllSpec
CONSTANTS
    c1 = c1
    c2 = c2
    o1 = o1
    o2 = o2
    r1 = r1
    r2 = r2
    t1 = t1
    s1 = s1
    s2 = s2
    n1 = n1
    n2 = n2
    v1 = v1
    v2 = v2
    Writers = {o1, o2}
    Retention = 1
    Cap = 2
    MaxTime = 3
    MaxWrites = 4
    Rules = {r1, r2}
    Targets = {t1}
    MaxAge = 1
    MaxTurns = 5
    Duration <- OneTick
    Calls = {c1, c2}
    Methods <- ReadAndWrite
    MaxSaves = 2
    MaxFaults = 2
    Operators = {o1, o2}
    Tags = {TRUE}
    MaxRequests = 3
    MaxChanges = 1
    MaxSecond = 1
    MaxFailures = 1
    Systems = {s1, s2}
    Modules = {"module"}
    Instances = {"instance"}
    Readers = {r1}
    Names = {n1, n2}
    Nested = {n2}
    Versions = {v1, v2}
    MaxSaved = 2
    Word = 4
    MaxBurst = 3
    MaxUptime = 5
SYMMETRY Symmetry
INVARIANTS
    AllTypeOK
    QueryComplete
    GoneStaysGone
    BytesAccounted
    StatesNameEvents
    TokenFitsServer
PROPERTIES
    BackupHolds
    NothingLost
    ListSound
    NeverForgotten
    Debounced
CHECK_DEADLOCK FALSE
