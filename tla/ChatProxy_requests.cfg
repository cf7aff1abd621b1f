SPECIFICATION Spec
CONSTANTS
    r1 = r1  r2 = r2  m1 = m1  m2 = m2  k1 = k1  k2 = k2  k3 = k3  k4 = k4
    Requests = {r1, r2}
    Models = {m1}
    Keys = {k1, k2}
    Preferences = {NoModel}
    KeysOf <- TwoKeys
    BadKeys = {}
    Orders <- OneModel
    NoModel = NoModel
    MaxRetries = 2
    PenaltyPer429 = 1
    MaxPenalty = 1
    PoolMax = 1
    FaultyDb = TRUE
SYMMETRY RequestAndKeySymmetry
INVARIANTS
    TypeOK
    SingleSource
    LedgerBalanced
PROPERTIES
    AnsweredOnce
CHECK_DEADLOCK FALSE
