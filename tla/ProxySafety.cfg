SPECIFICATION Spec
CONSTANTS
    None = None
    Conns = {c1, c2}
    Names = {n1, n2}
    UUIDs = {u1}
    Callers = {k1}
    Limits = {1}
    AcceptErrors = TRUE
SYMMETRY Symmetry
INVARIANT TypeOK
INVARIANT NoDanglingUser
INVARIANT NoDanglingPointer
INVARIANT SessionRegistered
INVARIANT CallbackOrder
PROPERTY RegistrySpec
CHECK_DEADLOCK FALSE
