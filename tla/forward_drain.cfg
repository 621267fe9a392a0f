SPECIFICATION Spec
CONSTANTS
    Last = 2
    Items = {"a"}
    Noisy = {}
    Touches <- WriteWrite
    MaxNodes = 1
    MaxFailed = 1
    Groups = {{}}
    FailModes = {FALSE}
    StoreFails = FALSE
    Stalls = FALSE
    Stops = TRUE
    Exits = FALSE
INVARIANTS
    SentInPushOrder
CHECK_DEADLOCK FALSE
