CONSTANTS
    c1 = c1
    w1 = w1
    w2 = w2
    t1 = t1
    t2 = t2
    s1 = s1
    s2 = s2
    NoJob = NoJob
    NoConn = NoConn
    Jobs = {t1, t2}
    Conns = {}
    Priority <- MCPriority
    Owner <- MCOwner
    ChatJobs = {}
    Delayed = {}
    Retries <- OneRetry
    DoneCap = 2
    DeadCap = 2
    MaxFaults = 0
    MaxRestarts = 0
    MaxExpiries = 2
    MaxStops = 0
SPECIFICATION Spec
CHECK_DEADLOCK FALSE
INVARIANTS NoLossInProcess
