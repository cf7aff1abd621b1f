SPECIFICATION Spec
CONSTANTS
    Passwords = {"p", "q"}
    Unset = "unset"
    Networks = {}
    Window = 0
    MaxAttempts = 1
    TTL = 1
    MaxGuesses = 0
    MaxKeys = 2
    MaxRestarts = 1
    MaxFaults = 1
INVARIANTS
    UnifiedKeyStored
    ShownKeyAccepted
CHECK_DEADLOCK FALSE
