SPECIFICATION FairSpec
CONSTANTS
    Lineages = {"t1", "t2"}
    States <- MCStates
    Base <- MCBase
    Cand <- MCCand
    None = None
    Workers = {w1}
    NBatches = 2
    Vectors = {v1}
    Missing = Missing
    Promoted = {"t1"}
    InForce = "t1"
    MayClose = TRUE
    MaxFaults = 1
    MaxCrashes = 1
INVARIANTS
    ActiveIsBacked
PROPERTY RollbackHolds ActivatedIsEvidenced DrillRestores
CHECK_DEADLOCK FALSE
