SPECIFICATION Spec
CONSTANTS
    Interval = 1
    Timeout = 2
    Skew = 2
    Lifetimes = {3, 5}
    MaxFormats = 2
    MaxFetches = 2
    MaxIdle = 3
    None = None
INVARIANTS
    RequestsSpaced
    TokenNotLate
    RejectedTwiceWithNewToken
    FewRequests
CHECK_DEADLOCK FALSE
