SPECIFICATION FairSpec
CONSTANTS
    r1 = r1  r2 = r2  m1 = m1  m2 = m2  k1 = k1  k2 = k2  k3 = k3  k4 = k4
    Requests = {r1, r2}
    Models = {m1, m2}
    Keys = {k1, k2, k3, k4}
    Preferences = {m1, m2, NoModel}
    KeysOf <- TwoPlatforms
    BadKeys = {k1, k2}
    Orders <- OneOrder
    NoModel = NoModel
    MaxRetries = 1
    PenaltyPer429 = 2
    MaxPenalty = 2
    PoolMax = 2
    FaultyDb = FALSE
INVARIANTS
    PreferredServes
PROPERTIES
    EventuallyAnswered
CHECK_DEADLOCK FALSE
