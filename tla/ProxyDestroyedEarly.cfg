SPECIFICATION Spec
CONSTANTS
    None = None
    Conns = {c1}
    Names = {n1}
    UUIDs = {u1}
    Callers = {}
    Limits = {}
    AcceptErrors = FALSE
INVARIANT DestroyedAfterClosed
CHECK_DEADLOCK FALSE
