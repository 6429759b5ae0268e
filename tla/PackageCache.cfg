SPECIFICATION FairSpec
CONSTANTS
    t1 = t1
    t2 = t2
    Files = {"pkg"}
    Threads = {t1, t2}
    MaxUploads = 2
    Chunks = 2
INVARIANTS
    TypeOK
    SingleDownloader
    BodyComplete
    TornOnlyByOverlap
PROPERTIES
    CacheWriteOnce
    CallReturns
