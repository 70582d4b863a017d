CONSTANTS
    t1 = t1
    t2 = t2
    NoToken = NoToken
    Tokens = {t1, t2}
    Threshold = 2
    Chunks = 2
    FirstToken = t1
    Revocable = {t1}
    MaxRefreshes = 2
    MaxMishaps = 1
SPECIFICATION FairSpec
CHECK_DEADLOCK FALSE
PROPERTIES TokenInUse FailuresAreTold ConnectsInTheEnd
