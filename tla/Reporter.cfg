SPECIFICATION FairSpec
CONSTANTS
    x1 = x1  x2 = x2  x3 = x3
    Results = {x1, x2, x3}
    FileOf <- DistinctFiles
    NoResult = NoResult
    MaxEnds = 2
INVARIANTS
    TypeOK
    LatestResultKept
    NoLostWakeup
PROPERTIES
    EveryResultIsDelivered
