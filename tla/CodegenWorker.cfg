\* Two requests, one of them for a model that does not build, two workers, any three faults.
\* With every request acknowledged the server has nothing to do: no deadlock check.
CHECK_DEADLOCK FALSE
SPECIFICATION FairSpec
CONSTANTS
    t1 = t1
    t2 = t2
    good = good
    bad = bad
    Tasks = {t1, t2}
    Models = {good, bad}
    ModelOf <- OneOfEach
    Broken = {bad}
    Digests = {d1, d2}
    NoDigest = NoDigest
    Workers = {w1, w2}
    NoTask = NoTask
    Faults = {"codegen_stop", "codegen_crash", "store_error", "build_timeout", "publish_error", "ack_error", "lost_delivery", "ack_wait"}
    MaxFaults = 3
INVARIANTS
    TypeOK
    TokensMatchWorkers
PROPERTIES
    KeepsContract
    EveryTaskSettles
