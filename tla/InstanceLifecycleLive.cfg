SPECIFICATION UpFairSpec
CONSTANTS
    c0 = c0
    c1 = c1
    c2 = c2
    pkg = pkg
    ext = ext
    Calls = {c0, c1}
    Instances = {pkg, ext}
    External = {ext}
    Alike <- LookedUp
    Pids = {1}
    Foreign = Foreign
    Monitor = Monitor
    Late = Late
    MaxLate = 1
    PidReuse = TRUE
    Batching = FALSE
    Faulty = TRUE
PROPERTIES
    RowFollows
