SPECIFICATION Spec
CONSTANTS
    c1 = c1
    c2 = c2
    c3 = c3
    pkg = pkg
    ext = ext
    own = own
    Calls = {c1, c2, c3}
    Instances = {pkg, ext, own}
    External = {ext, own}
    Alike <- AdoptedAlike
    Pids = {1, 2}
    Foreign = Foreign
    Monitor = Monitor
    Late = Late
    MaxLate = 0
    PidReuse = FALSE
SYMMETRY Symmetry
INVARIANTS
    KillsFitting
