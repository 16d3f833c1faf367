\* Two concurrent submissions of one model; a failing publish or a crash of the control
\* plane.  When every call has ended there may be nothing left to do: no deadlock check.
CHECK_DEADLOCK FALSE
SPECIFICATION Spec
CONSTANTS
    s1 = s1
    s2 = s2
    m1 = m1
    b1 = b1
    b2 = b2
    e1 = e1
    e2 = e2
    e3 = e3
    Tasks = {s1, s2}
    Models = {m1}
    ModelOf <- OneModel
    Broken = {}
    Digests = {d1}
    NoDigest = NoDigest
    Batches = {b1, b2}
    BatchOf <- TwoBatches
    Experiments = {e1, e2, e3}
    Batch <- TwoAndOne
    BootstrapLimit = 2
    Faults = {"publish_error", "control_plane_crash"}
    MaxFaults = 1
INVARIANTS
    TypeOK
    ReadyIsBacked
    AcceptedIsQueued
    EndedBatchHasEnded
