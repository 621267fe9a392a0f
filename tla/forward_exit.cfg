SPECIFICATION Spec
CONSTANTS
    Last = 2
    Items = {"a", "n"}
    Noisy = {"n"}
    Touches <- WriteBoth
    MaxNodes = 1
    MaxFailed = 1
    Groups = {{"n"}}
    FailModes = {FALSE}
    StoreFails = FALSE
    Stalls = FALSE
    Stops = TRUE
    Exits = TRUE
INVARIANTS
    ChangesRecorded
CHECK_DEADLOCK FALSE
