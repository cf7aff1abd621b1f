SPECIFICATION Spec
CONSTANTS
    Attempts = {a1, a2, a3}
    PoolMax = 2
    Rpm = 1
    Rpd = NoLimit
    Tpm = 3
    Tpd = NoLimit
    NoLimit = NoLimit
    Minute = 1
    Day = 2
    Estimates = {2}
    Charges = {1}
    MaxTime = 2
    MaxFaults = 1
SYMMETRY AttemptSymmetry
INVARIANTS
    TypeOK
    RequestOvershootBounded
    SettledExactly
    ReservationAtomic
PROPERTIES
    PruneOnlyExpired
CHECK_DEADLOCK FALSE
