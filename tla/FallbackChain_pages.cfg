SPECIFICATION FairSpec
CONSTANTS
    SeedChain <- SeedDef
    Presets <- PresetDef
    Configured = {"a", "c"}
    Pages = {"tab"}
    MaxWrites = 2
    MaxEdits = 1
    MaxRestarts = 1
    MaxVisits = 1
INVARIANTS
    WholeChain
    WriterSeesOwn
PROPERTIES
    WritesAnswered
CHECK_DEADLOCK FALSE
