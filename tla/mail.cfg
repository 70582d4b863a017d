CONSTANTS
    r1 = r1
    r2 = r2
    NoId = NoId
    Sends = {r1, r2}
    Cap = 1
    MaxMishaps = 1
SPECIFICATION FairSpec
CHECK_DEADLOCK FALSE
INVARIANTS StoreIsOutbox
PROPERTIES FinishedIsFinal EventuallyFinished
