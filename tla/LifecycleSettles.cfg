SPECIFICATION FairSpec
CONSTANTS
    e1 = e1  e2 = e2
    Experiments = {e1, e2}
    BatchOrder <- TwoExperiments
    BootstrapLimit = 2
    Malformed = {}
    Nodes = {n1}
    Slots = 1
    MaxNodeFailures = 2
    NoExperiment = NoExperiment
    NoNode = NoNode
    Faults = {"lost_reply", "expiry"}
    MaxFaults = 2
INVARIANTS
    ReservationsCoverLoad
PROPERTIES
    EveryExperimentSettles
\* Once every experiment is settled and the nodes are heard from, nothing is left to do.
CHECK_DEADLOCK FALSE
