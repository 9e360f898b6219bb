\* Two workers, two ids, two ports, two limits, a file that may not be writable.
SPECIFICATION Spec
CONSTANTS
    Callers = {c1, c2}
    Main = main
    default = default
    lobby = lobby
    any = any
    lan = lan
    wan = wan
    p1 = p1
    p2 = p2
    none = none
    Ids = {default, lobby}
    Addrs = {any, lan, wan}
    Ports = {p1, p2}
    Limits = {0, 5}
    AnyAddr = any
    Requests <- MCMoreRequests
    Fallback <- MCFallback
    DiskErrors = TRUE
    None = none
INVARIANT TypeOK
INVARIANT TableOK
INVARIANT FileMatches
INVARIANT LoadKeepsAll
SYMMETRY Symmetry
CHECK_DEADLOCK FALSE
