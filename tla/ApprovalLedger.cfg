SPECIFICATION FairSpec
CONSTANTS
    Proposals = {p1, p2}
    Reviewers = {r1, r2}
    MaxStops = 2
    MaxFaults = 1
INVARIANTS
    AcknowledgedIsKept
    TriggerIsBacked
    AnsweredIsTriggered
CHECK_DEADLOCK FALSE
PROPERTY ApprovedIsTriggered
