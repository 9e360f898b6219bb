\* Two clients that want the same name, one caller and the destructor; accept
\* never fails.  No symmetry: liveness.
SPECIFICATION FairSpec
CONSTANTS
    None = None
    Conns = {c1, c2}
    Names = {n1}
    UUIDs = {u1}
    Callers = {k1}
    Limits = {}
    AcceptErrors = FALSE
PROPERTY ShutConnectionEnds
PROPERTY CallReturns
PROPERTY DestructorEnds
CHECK_DEADLOCK FALSE
