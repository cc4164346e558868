SPECIFICATION FairLifecycleSpec
CONSTANTS
    None = None
    m1 = m1
    Applications = {"CONTROL_PLANE", "REVIEW_APPLICATION", "PROMOTION_WORKER"}
    Submissions <- LifecycleCommands
    Proposals = {p1, p2}
    Manifests = {m1}
    ManifestOf <- SameManifest
    HkV1 = {}
    Lineages = {l1, l2}
    Workers = {w1, w2}
    Expiry = 2
    MaxTime = 1
    MaxToken = 2
CHECK_DEADLOCK FALSE
INVARIANTS
    OneTerminalEvent
    OneDecisionPerManifest
    ExecutionsAreApproved
    OneLiveClaim
    AcknowledgedUnderNewestFence
PROPERTY ApprovedWorkIsOffered
