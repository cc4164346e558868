SPECIFICATION Spec
CONSTANTS
    t1 = t1
    t2 = t2
    Commands = {1, 2}
    Group <- MCGroup
    Timers <- OneTimer
    MaxFailures = 0
    MaxAborts = 0
    MaxLosses = 1
    MaxTroubles = 1
    MaxReleases = 0
    MaxAttempts = 2
INVARIANT NeverCompeting
