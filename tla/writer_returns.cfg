SPECIFICATION FairSpec
CONSTANTS
    Calls = {c1, c2}
    Capacity = 1
    MaxBatch = 2
    MaxRestarts = 1
    FailModes = {TRUE, FALSE}
    Panics = TRUE
    Cancels = TRUE
    MaxCrashes = 1
PROPERTIES CallsReturn ImplementsService
