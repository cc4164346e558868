SPECIFICATION FairSpec
CONSTANTS
    a = a
    b = b
    r = r
    Items = {a, b}
    Imports = {a}
    Relations = {r}
    Host <- MCHost
    Needs <- MCNeedsFirst
    MaxStarts = 2
    MaxRetained = 2
    MaxAttempts = 2
    HostLimit = 2
    Interval = 1
    MaxElapsed = 3
    MaxTime = 3
    MaxCrashes = 2
    Faults = {"verify", "stop", "admission"}
INVARIANTS TypeOK AppendsAreLegal BudgetHolds HostsArePaced
PROPERTIES NothingIsRepeated CycleIsDecided
