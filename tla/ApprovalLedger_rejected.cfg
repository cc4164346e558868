SPECIFICATION Spec
CONSTANTS
    Proposals = {p1, p2}
    Reviewers = {r1}
    MaxStops = 1
    MaxFaults = 0
INVARIANT RestartSafe
CHECK_DEADLOCK FALSE
