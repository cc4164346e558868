SPECIFICATION Spec
CONSTANTS
    Lineages = {"first", "next"}
    States = {"s0", "s1", "s2"}
    Genesis = "s0"
    SeedReceipt = SeedReceipt
    Base <- MCBase
    Cand <- MCCand
    Workers = {w1, w2}
    NoLineage = NoLineage
INVARIANT MismatchIsEligibleForRollback
