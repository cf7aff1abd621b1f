SPECIFICATION Spec
CONSTANTS
    Attempts = {a1, a2, a3, a4}
    Durations <- TwoDurations
    Day = 3
    MaxInFlight = 2
    MaxTime = 4
    MaxFailures = 1
SYMMETRY AttemptSymmetry
INVARIANTS
    TypeOK
    BlockedForCause
    CooldownKept
CHECK_DEADLOCK FALSE
