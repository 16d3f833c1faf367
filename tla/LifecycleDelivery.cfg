SPECIFICATION FairSpec
CONSTANTS
    e1 = e1  e2 = e2
    Experiments = {e1}
    BatchOrder <- OneExperiment
    BootstrapLimit = 1
    Malformed = {}
    Nodes = {n1, n2}
    Slots = 1
    MaxNodeFailures = 2
    NoExperiment = NoExperiment
    NoNode = NoNode
    Faults = {"control_plane_crash", "node_crash", "lost_call", "lost_reply", "expiry", "sql_error"}
    MaxFaults = 2
PROPERTIES
    EveryResultArrives
    LostNodesAreReconciled
\* Once every experiment is settled and the nodes are heard from, nothing is left to do.
CHECK_DEADLOCK FALSE
