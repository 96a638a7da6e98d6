SPECIFICATION Spec
CONSTANTS
    Scan = {s1, s2}
    Status = {"IN_PROGRESS", "COMPLETE", "ERROR", "STARTING"}
    MaxBatch = 4
INVARIANTS
    LoopComputesStatusesToMaps
CHECK_DEADLOCK FALSE
