SPECIFICATION Spec
CONSTANTS
    Times = {1, 2}
    Grace = 0
    MaxPrune = 2
    MaxBatch = 1
    Anchors = TRUE
    MaxTampers = 2
    MaxSeq = 5
    Attacks = {"cut", "restore"}
INVARIANTS AnchorProvesHistory
