SPECIFICATION StopSpec
CONSTANTS
    c0 = c0
    c1 = c1
    c2 = c2
    pkg = pkg
    ext = ext
    Calls = {c0, c1}
    Instances = {pkg}
    External = {}
    Alike <- LookedUp
    Pids = {1}
    Foreign = Foreign
    Monitor = Monitor
    Late = Late
    MaxLate = 0
    PidReuse = FALSE
    Batching = FALSE
    Faulty = FALSE
PROPERTY StopShown
