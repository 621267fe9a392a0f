SPECIFICATION Spec
CONSTANTS
    Last = 2
    Items = {"a"}
    Noisy = {}
    Touches <- WriteWrite
    MaxNodes = 1
    MaxFailed = 1
    Groups = {{}}
    FailModes = {TRUE, FALSE}
    StoreFails = FALSE
    Stalls = FALSE
    Stops = FALSE
    Exits = FALSE
INVARIANTS
    OutcomeTruthful
    OldValueTrue
    ForwardedInOrder
    ChangesRecorded
CHECK_DEADLOCK FALSE
