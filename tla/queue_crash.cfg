CONSTANTS
    c1 = c1
    w1 = w1
    w2 = w2
    t1 = t1
    t2 = t2
    s1 = s1
    s2 = s2
    NoJob = NoJob
    NoConn = NoConn
    Jobs = {t1, s1}
    Conns = {}
    Priority <- MCPriority
    Owner <- MCOwner
    ChatJobs = {}
    Delayed = {s1}
    Retries <- OneRetry
    DoneCap = 1
    DeadCap = 1
    MaxFaults = 0
    MaxRestarts = 2
    MaxExpiries = 0
    MaxStops = 0
SPECIFICATION FairSpec
CHECK_DEADLOCK FALSE
INVARIANTS TypeOK NoSilentLoss CrashSafety BoundedOvertaking
PROPERTIES EventuallySettled
