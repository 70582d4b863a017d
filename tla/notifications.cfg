CONSTANTS
    n1 = n1
    n2 = n2
    n3 = n3
    n4 = n4
    b1 = b1
    NoNotice = NoNotice
    Notices = {n1, n2, n3, n4}
    Exact = {n1}
    Raw <- MCRaw
    MaxText = 4
    MaxNodes = 2
    Browsers = {b1}
    Retain = 2
    Recent = 1
    Limit = 2
    MaxMishaps = 1
    MaxRequests = 2
SPECIFICATION FairSpec
CHECK_DEADLOCK FALSE
INVARIANTS QuietShowsStore
PROPERTIES ReadStaysRead PageAnswered
