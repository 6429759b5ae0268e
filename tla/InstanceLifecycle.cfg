SPECIFICATION TwoSpec
CONSTANTS
    c0 = c0
    c1 = c1
    c2 = c2
    pkg = pkg
    ext = ext
    Calls = {c0, c1, c2}
    Instances = {pkg}
    External = {}
    Alike <- LookedUp
    Pids = {1}
    Foreign = Foreign
    Monitor = Monitor
    Late = Late
    MaxLate = 0
    PidReuse = TRUE
    Batching = TRUE
    Faulty = TRUE
SYMMETRY Symmetry
INVARIANTS
    LifecycleInv
PROPERTIES
    NoResurrection
    DestroyedIsGone
