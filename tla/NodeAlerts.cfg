SPECIFICATION MCSpec
CONSTANTS
    n1 = n1
    rStatus = rStatus
    rHigh = rHigh
    rLow = rLow
    Ips = {n1}
    Threshold = 1
    MaxBeats = 2
    MaxMoves = 4
    Rules = {rStatus, rHigh, rLow}
    Metric <- MetricOf
    Duration <- OneTick
    MaxAlertAge = 1
    MaxTurns = 1
INVARIANTS
    NodesInv
PROPERTIES
    NamesKept
    ListFollows
    AlertsFollow
