\* A file that can always be written.  No symmetry: liveness.
SPECIFICATION FairSpec
CONSTANTS
    Callers = {c1, c2}
    Main = main
    default = default
    lobby = lobby
    any = any
    lan = lan
    wan = wan
    p1 = p1
    p2 = p2
    none = none
    Ids = {default, lobby}
    Addrs = {any, lan, wan}
    Ports = {p1, p2}
    Limits = {0}
    AnyAddr = any
    Requests <- MCRequests
    Fallback <- MCFallback
    DiskErrors = FALSE
    None = none
PROPERTY RequestEnds
PROPERTY StrayStops
CHECK_DEADLOCK FALSE
