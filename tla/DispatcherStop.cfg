SPECIFICATION Spec
CONSTANTS
    k1 = k1  k2 = k2  k3 = k3
    r1 = r1  r2 = r2  r3 = r3
    w1 = w1  w2 = w2
    Keys = {k1, k2, k3}
    Runs = {r1}
    NoRun = NoRun
    Workers = {w1}
    KeyOf <- OneRun
    LimitOf <- OneLimit
    TimedRuns = {}
    MemoryBytes = 2
INVARIANTS
    StopCutsTheRunShort
CHECK_DEADLOCK FALSE
