\* One connection: every cut of the client's bytes into reads and of the server's
\* into writes, peers that leave, a kick, up to 3 changes of the tables.
\* Bytes carry 2 bits, VarInts have 3 bytes, numbers 5 bits.
SPECIFICATION FairSpec
CONSTANTS
    Group = 2
    MaxVarint = 3
    Width = 5
    IntWidth = 4
    PayloadSize = 1
    Reason <- MCReason
    Streams <- MCStreams
    Logins <- MCLogins
    Pings <- MCPings
    Others <- MCOthers
    Junk <- MCJunk
    Reply <- MCReply
    Default <- MCDefault
    Patterns <- MCPatterns
    Broken <- MCBrokens
    Keys <- MCKeys
    Targets <- MCTargets
    UserNames <- MCNames
    Motds <- MCMotds
    BufferSize = 2
    MaxCalls = 3
    Hosts <- MCHosts
    NoPattern = noPattern
    None = none
VIEW MCView
INVARIANT TypeOK
INVARIANT Intact
INVARIANT LastWords
INVARIANT Delivered
INVARIANT Answered
PROPERTY RoutedByTables
PROPERTY FailedCallHarmless
PROPERTY AllDelivered
CHECK_DEADLOCK FALSE
