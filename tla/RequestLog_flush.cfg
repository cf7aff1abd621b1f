SPECIFICATION FairSpec
CONSTANTS
    Entries = {e1, e2}
    Timers = {t1}
    Signals = {g1, g2}
    PoolMax = 1
    MaxFaults = 1
INVARIANTS
    TypeOK
PROPERTIES
    KeepsPromise
    EveryEntrySettles
    ShutdownEnds
CHECK_DEADLOCK FALSE
