SPECIFICATION Spec
CONSTANTS
    h1 = h1
    h2 = h2
    h3 = h3
    w1 = w1
    w2 = w2
    Intents = {1}
    Handlers = {h1, h2, h3}
    Claimants = {w1, w2}
    ClaimantOf <- SharedClaimant
    MaxToken = 2
    Disruptions = 2
INVARIANT CancelledBeforeEffect
