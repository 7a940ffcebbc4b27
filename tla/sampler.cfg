SPECIFICATION FairSpec
CONSTANTS
    CountMax = 4
    UnderflowThreshold = 1
    OverflowThreshold = 3
    PrescalerMin = 1
    PrescalerMax = 3
    MaxDepth = 3
    MaxResets = 1
INVARIANTS TypeOK Fresh OneStore Caused EarlyOverflowKept
PROPERTIES PrescalerSteps SampleScaledInWindow ImplementsMeasurement MeasurementProgress
