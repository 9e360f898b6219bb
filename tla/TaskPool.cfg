\* Three connections and a pool that keeps one thread.  No symmetry: liveness.
SPECIFICATION FairSpec
CONSTANTS
    None = None
    Tasks = {t1, t2, t3}
    Workers = {w1, w2, w3}
    Keep = 1
INVARIANT TypeOK
INVARIANT CountersAgree
INVARIANT HandledOnce
INVARIANT JoinsSafely
INVARIANT NoUseAfterDestroy
PROPERTY TaskIsTaken
PROPERTY PoolEnds
CHECK_DEADLOCK FALSE
