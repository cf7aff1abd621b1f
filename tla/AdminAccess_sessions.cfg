SPECIFICATION FairSpec
CONSTANTS
    Passwords = {"p", "q"}
    Unset = "unset"
    Networks = {"tailscale"}
    Window = 1
    MaxAttempts = 2
    TTL = 1
    MaxGuesses = 5
    MaxKeys = 0
    MaxRestarts = 1
    MaxFaults = 1
INVARIANTS
    GuessBound
PROPERTIES
    SignsIn
CHECK_DEADLOCK FALSE
