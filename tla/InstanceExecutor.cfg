SPECIFICATION Spec
CONSTANTS
    c1 = c1
    c2 = c2
    c3 = c3
    pkg = pkg
    ext = ext
    own = own
    Calls = {c1, c2, c3}
    Instances = {pkg}
    External = {}
    Alike <- AdoptedAlike
    Pids = {1, 2}
    Foreign = Foreign
    Monitor = Monitor
    Late = Late
    MaxLate = 1
    PidReuse = TRUE
SYMMETRY Symmetry
INVARIANTS
    TypeOK
    Tracked
    NoProcessWithoutFiles
PROPERTIES
    StopStops
    ImplementsPromise
