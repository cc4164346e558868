SPECIFICATION Spec
CONSTANTS
    Proposals = {p1}
    Reviewers = {r1}
    MaxStops = 1
    MaxFaults = 0
INVARIANT RevokedUnconsumed
CHECK_DEADLOCK FALSE
