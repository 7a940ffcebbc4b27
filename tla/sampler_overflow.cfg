SPECIFICATION Spec
CONSTANTS
    CountMax = 3
    UnderflowThreshold = 1
    OverflowThreshold = 3
    PrescalerMin = 1
    PrescalerMax = 3
    MaxDepth = 2
    MaxResets = 0
INVARIANTS OverflowRecorded
