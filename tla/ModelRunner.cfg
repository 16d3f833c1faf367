\* Two runs that ask for the same build or two builds of one model, one fault of any kind; the program may hang,
\* so a state in which nothing more happens is not an error.
SPECIFICATION FairSpec
CHECK_DEADLOCK FALSE
CONSTANTS
    r1 = r1
    r2 = r2
    d1 = d1
    d2 = d2
    Runs = {r1, r2}
    NoRun = NoRun
    Digests = {d1, d2}
    NoDigest = NoDigest
    Builds <- SameOrAnother
    Settings <- Configurations
    Traced = {r1}
    Limited = {r1}
    Stoppable = {r1}
    PipeSize = 1
    MaxStats = 2
    Faults = {"store_error", "disk_error", "start_error", "crash", "oom", "upload_error"}
    MaxFaults = 1
INVARIANTS
    TypeOK
    FinishedMeansComplete
    OutcomeNamesItsCause
    RunsWhatWasAsked
PROPERTIES
    EveryRunEnds
