SPECIFICATION Spec
CONSTANTS
    Lineages = {"t1", "t2"}
    States <- MCStates
    Base <- MCBase
    Cand <- MCCand
    None = None
    Workers = {w1, w2}
    NBatches = 1
    Vectors = {v1}
    Missing = Missing
    Promoted = {"t1"}
    InForce = "t1"
    MayClose = FALSE
    MaxFaults = 1
    MaxCrashes = 1
SYMMETRY WorkerSymmetry
INVARIANTS
    TypeOK
    ActiveIsBacked
PROPERTY RollbackHolds
