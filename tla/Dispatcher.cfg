SPECIFICATION FairSpec
CONSTANTS
    k1 = k1  k2 = k2  k3 = k3
    r1 = r1  r2 = r2  r3 = r3
    w1 = w1  w2 = w2
    Keys = {k1, k2, k3}
    Runs = {r1, r2, r3}
    NoRun = NoRun
    Workers = {w1, w2}
    KeyOf <- DistinctKeys
    LimitOf <- DistinctLimits
    TimedRuns = {r1}
    MemoryBytes = 3
INVARIANTS
    TypeOK
    MemoryAccounting
    CancelHonoured
    NeverOversubscribed
PROPERTIES
    EveryStartAnswered
    CutShortRunsAreReported
    ShutdownCompletes
\* The process ends at phase "stopped".
CHECK_DEADLOCK FALSE
