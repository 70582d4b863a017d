CONSTANTS
    ServiceOrder <- MCServices
    Values = {0, 1}
    Default = 0
    MaxSaves = 2
    MaxEnds = 2
    MaxFaults = 1
SPECIFICATION FairSpec
CHECK_DEADLOCK FALSE
INVARIANTS EndsReported RestartReported RestartsWithAccepted
PROPERTIES RestartCompletes
