SPECIFICATION LimitFirstSpec
CONSTANTS
    None = None
    Conns = {c1, c2}
    Names = {n1, n2}
    UUIDs = {u1}
    Callers = {}
    Limits = {1}
    AcceptErrors = FALSE
INVARIANT OnlineWithinLimit
CHECK_DEADLOCK FALSE
