SPECIFICATION Spec
CONSTANTS
    Dispatchers = {d1, d2}
    Ceiling = 2
    Absent = Absent
    NoFence = NoFence
    Nobody = Nobody
    MayLose = TRUE
    MaxCrashes = 1
SYMMETRY DispatcherSymmetry
INVARIANT ConsumedBeforeRestart
