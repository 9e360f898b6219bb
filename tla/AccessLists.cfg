\* One login, the console, one worker, two names; saves fail, the process ends
\* at any step and starts again.  No symmetry: liveness.
SPECIFICATION FairSpec
CONSTANTS
    n1 = n1
    n2 = n2
    Names = {n1}
    Logins = {c1}
    Workers = {w1}
    Main = main
    Lines <- MCTwice
    DiskErrors = TRUE
    Missing = missing
    Torn = torn
    None = none
INVARIANT TypeOK
INVARIANT OneEntry
INVARIANT FileFollows
INVARIANT BanHolds
PROPERTY OneMoment
PROPERTY JobEnds
CHECK_DEADLOCK FALSE
