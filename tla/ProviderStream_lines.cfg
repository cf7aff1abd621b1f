SPECIFICATION FairSpec
CONSTANTS
    Lines <- LineDef
    NoId = "none"
    MaxLines = 3
INVARIANTS
    FinishSaysCalls
    CallsOnce
    TextWhole
PROPERTIES
    StreamEnds
CHECK_DEADLOCK FALSE
