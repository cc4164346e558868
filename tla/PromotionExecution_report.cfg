SPECIFICATION Spec
CONSTANTS
    Lineages = {"t1", "t2", "t3"}
    States <- MCStates
    Base <- MCBase
    Cand <- MCCand
    None = None
    Workers = {w1}
    NBatches = 1
    Vectors = {v1}
    Missing = Missing
    Promoted = {"t1", "t2"}
    InForce = "t2"
    MayClose = FALSE
    MaxFaults = 0
    MaxCrashes = 0
INVARIANT ReportNamesRestoredState
