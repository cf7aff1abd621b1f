SPECIFICATION FairSpec
CONSTANTS
    k1 = k1  groq = groq
    Keys = {k1}
    Platforms = {groq}
    PlatformOf <- OneKey
    Served = {groq}
    Masters = {x, y}
    Rounds = {r1}
    Singles = {s1}
    NoKey = NoKey
    Threshold = 2
    MaxEdits = 2
    MaxFaults = 1
    MaxRestarts = 1
INVARIANTS
    TypeOK
PROPERTIES
    DisabledForCause
    UnusableRetired
CHECK_DEADLOCK FALSE
