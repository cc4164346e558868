SPECIFICATION Spec
CONSTANTS
    a = a
    b = b
    r = r
    Items = {a, b}
    Imports = {a}
    Relations = {r}
    Host <- MCHost
    Needs <- MCNeedsFirst
    MaxStarts = 3
    MaxRetained = 3
    MaxAttempts = 2
    HostLimit = 2
    Interval = 1
    MaxElapsed = 3
    MaxTime = 3
    MaxCrashes = 1
    Faults = {}
INVARIANT RelationshipsAreAccounted
