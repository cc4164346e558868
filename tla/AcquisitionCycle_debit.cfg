SPECIFICATION Spec
CONSTANTS
    a = a
    b = b
    r = r
    Items = {a, b}
    Imports = {}
    Relations = {}
    Host <- MCHost
    Needs <- MCNeeds
    MaxStarts = 3
    MaxRetained = 2
    MaxAttempts = 2
    HostLimit = 2
    Interval = 1
    MaxElapsed = 3
    MaxTime = 3
    MaxCrashes = 1
    Faults = {}
INVARIANT ReportChargesRequests
