SPECIFICATION FairSpec
CONSTANTS
    Last = 1
    Items = {"n", "m"}
    Noisy = {"n", "m"}
    Touches <- NoisyWrites
    MaxNodes = 1
    MaxFailed = 1
    Groups = {{"n", "m"}, {}}
    FailModes = {TRUE, FALSE}
    StoreFails = TRUE
    Stalls = TRUE
    Stops = TRUE
    Exits = TRUE
INVARIANTS
    IntentFirst
    CountedOnce
PROPERTIES
    StopSettles
CHECK_DEADLOCK FALSE
