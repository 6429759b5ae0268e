SPECIFICATION FairSpec
CONSTANTS
    r1 = r1
    r2 = r2
    t1 = t1
    t2 = t2
    Rules = {r1}
    Targets = {t1}
    Duration <- OneTick
    MaxAge = 1
    MaxTurns = 4
PROPERTY ActiveEnds
