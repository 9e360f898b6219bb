SPECIFICATION FairSpec
CONSTANTS
    None = None
    Conns = {c1}
    Names = {n1}
    UUIDs = {u1}
    Callers = {k1}
    Limits = {}
    AcceptErrors = TRUE
PROPERTY CallReturns
CHECK_DEADLOCK FALSE
