SPECIFICATION Spec
CONSTANTS
    Times = {1, 2, 3}
    Grace = 0
    MaxPrune = 2
    MaxBatch = 2
    Anchors = FALSE
    MaxTampers = 2
    MaxSeq = 6
    Attacks = {}
INVARIANTS TypeOK UntamperedVerifies
PROPERTIES PruneIsSafe ImplementsLog
