SPECIFICATION FairSpec
CONSTANTS
    Dispatchers = {d1, d2}
    Ceiling = 2
    Absent = Absent
    NoFence = NoFence
    Nobody = Nobody
    MayLose = TRUE
    MaxCrashes = 1
INVARIANTS
    OneRequestPerAttempt
    OneRequestOnItsWay
    OverrideIsAuthorised
PROPERTY FinalIsFinal
PROPERTY ExpiryIsRetained
