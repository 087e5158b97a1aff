SPECIFICATION Spec
CONSTANTS
    Threads = {w1, w2, w3}
    Tasks = {t1, t2, t3}
    NoTask = NoTask
INVARIANTS
    ActiveTasksCounted
    NoStrandedTask
    NoMissedCompletion
    NoSleeperAtJoin
    DestroyedAfterDrain
PROPERTIES
    PoolProgresses
    ImplementsTaskPool
