CONSTANTS
    Updates = {2, 3, 5, 6}
    Kind <- MCKind
    IndexCap = 1
    HistoryCap = 2
    MaxFaults = 1
    MaxRestarts = 1
    MaxRotations = 1
    MaxListChanges = 1
SPECIFICATION FairSpec
CHECK_DEADLOCK FALSE
INVARIANTS TypeOK OncePerUpdate ConfirmedIsQueued StoresAgree
PROPERTIES OrderedOnce EventuallyQueued
