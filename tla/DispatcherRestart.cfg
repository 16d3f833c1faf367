SPECIFICATION Spec
CONSTANTS
    k1 = k1  k2 = k2  k3 = k3
    r1 = r1  r2 = r2  r3 = r3
    w1 = w1  w2 = w2
    Keys = {k1, k2}
    Runs = {r1, r2, r3}
    NoRun = NoRun
    Workers = {w1, w2}
    KeyOf <- RestartedKeys
    LimitOf <- RestartedLimits
    TimedRuns = {}
    MemoryBytes = 2
SYMMETRY WorkerSymmetry
INVARIANTS
    SlotAccounting
    MemoryNeverOvercommitted
\* The process ends at phase "stopped".
CHECK_DEADLOCK FALSE
