SPECIFICATION FairSpec
CONSTANTS
    N = 2
    Opt = Opt
    Option = Opt
    Scenarios <- MCScenarios
    FeatureLength <- MCFeatureLength
    InputIds = {0}
    BufSize = 4
    ByteMod = 4
    UintMod = 8
    Unset <- MCUnset
    Values = {0, 3}
    MaxPeriod = 2
    MaxBack = 1
    Rate = 1
    QueueMax = 2
    MaxPlugs = 2
    MaxOthers = 1
    MaxBacks = 1
INVARIANTS TypeOK FindsSensor SentIsGiven PrintedIsReport SuccessMeansDone
PROPERTIES AverageExact Progress
