SPECIFICATION FairSpec
CONSTANTS
    t1 = t1
    t2 = t2
    Commands = {1, 2}
    Group <- MCGroup
    Timers <- MCTimers
    MaxFailures = 1
    MaxAborts = 1
    MaxLosses = 1
    MaxTroubles = 2
    MaxReleases = 1
    MaxAttempts = 2
INVARIANTS StateLoads OneCycleRuns ReleasedIsDone
PROPERTY RetainedIsCarriedOut
