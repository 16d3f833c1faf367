SPECIFICATION Spec
CONSTANTS
    Texts <- Programs
    Horizon = 6
    MetricStep = 2
    MaxDepth = 12
INVARIANTS
    TypeOK
    EntityInOnePlace
    CountersBalance
    NoLostWake
PROPERTIES
    ClockMonotone
    SampledOncePerStep
CHECK_DEADLOCK FALSE
