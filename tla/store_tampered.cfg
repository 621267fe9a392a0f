SPECIFICATION Spec
CONSTANTS
    Times = {1, 2}
    Grace = 0
    MaxPrune = 2
    MaxBatch = 2
    Anchors = FALSE
    MaxTampers = 2
    MaxSeq = 5
    Attacks = {"cut", "remove", "edit"}
INVARIANTS VerifiedIsAuthentic
PROPERTIES SeqNeverReused CutIsEvident
