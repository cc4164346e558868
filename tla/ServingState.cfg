SPECIFICATION Spec
CONSTANTS
    Lineages = {"first", "again", "rival", "next"}
    States = {"s0", "s1", "s2"}
    Genesis = "s0"
    SeedReceipt = SeedReceipt
    Base <- MCBase
    Cand <- MCCand
    Workers = {w1, w2}
    NoLineage = NoLineage
INVARIANTS
    ReceiptsAreUnique
    RollbackUndoesNewest
PROPERTY ImplementsActiveState
