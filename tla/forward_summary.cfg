SPECIFICATION Spec
CONSTANTS
    Last = 2
    Items = {"a", "n"}
    Noisy = {"n"}
    Touches <- WriteBoth
    MaxNodes = 1
    MaxFailed = 1
    Groups = {{"n"}}
    FailModes = {TRUE}
    StoreFails = TRUE
    Stalls = FALSE
    Stops = TRUE
    Exits = FALSE
INVARIANTS
    NeverDroppedSilently
CHECK_DEADLOCK FALSE
