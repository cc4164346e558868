SPECIFICATION Spec
CONSTANTS
    t1 = t1
    t2 = t2
    Commands = {1, 2, 4}
    Group <- MCGroup
    Timers <- MCTimers
    MaxFailures = 0
    MaxAborts = 0
    MaxLosses = 0
    MaxTroubles = 0
    MaxReleases = 0
    MaxAttempts = 2
INVARIANT DeliveredIsRetained
