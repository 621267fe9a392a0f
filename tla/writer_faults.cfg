SPECIFICATION Spec
CONSTANTS
    Calls = {c1, c2, c3}
    Capacity = 2
    MaxBatch = 2
    MaxRestarts = 1
    FailModes = {TRUE, FALSE}
    Panics = TRUE
    Cancels = TRUE
    MaxCrashes = 1
SYMMETRY Symmetry
INVARIANTS AckNamesRecord LossAccounted SavedLossSurvives FlushIsBarrier
