SPECIFICATION StickySpec
CONSTANTS
    c1 = c1  c2 = c2  c3 = c3  hello = hello
    Conversations = {c1, c2, c3}
    Models = {m1, m2}
    NoModel = NoModel
    Opening <- MixedOpening
    Opaque = Opaque
    Prelude <- MixedPrelude
    Ttl = 1
    CleanAt = 1
    MaxTurns = 3
    MaxTime = 2
    MaxCrashes = 1
SYMMETRY ModelSymmetry
INVARIANTS
    StickyTypeOK
PROPERTIES
    StickyFromThirdTurn
    SteeredForCause
CHECK_DEADLOCK FALSE
