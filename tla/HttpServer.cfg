\* Three connections, two workers, an accept that may fail.
SPECIFICATION FairSpec
CONSTANTS
    Connections = {c1, c2, c3}
    Workers = {w1, w2}
    Loop = loop
    None = none
INVARIANT CountersExact
INVARIANT NoUseAfterClose
PROPERTY SocketsShared
PROPERTY SocketCloses
CHECK_DEADLOCK FALSE
