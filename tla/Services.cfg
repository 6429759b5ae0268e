SPECIFICATION AllSpec
CONSTANTS
    c1 = c1
    c2 = c2
    r1 = r1
    t1 = t1
    nodes = nodes
    p1 = p1
    p2 = p2
    Kinds = {nodes}
    Kept = {nodes}
    Aging = {nodes}
    Producers = {p1, p2}
    Topic <- Publishes
    Clients = {c1}
    MaxVersion = 2
    Calls = {c1, c2}
    Methods <- ReadAndWrite
    MaxSaves = 2
    MaxFaults = 1
    Window = 1
    Commands = {c1, c2}
    PageSize = 1
    Rules = {r1}
    Targets = {t1}
    MaxAge = 1
    MaxTurns = 4
    Duration <- OneTick
INVARIANTS
    ServicesInv
    CleanMeansSent
PROPERTIES
    Converges
    Forgotten
    HandlersReturn
    RetryHelps
    StreamEnds
    StateFollows
CHECK_DEADLOCK FALSE
