SPECIFICATION Spec
CONSTANTS
    Tasks = {t1, t2, t3}
    MaxConv = 2
    MaxRounds = 1
    FullEvery = 2
    QuickEvery = 2
    DaydreamEvery = 1
    AskedScopes = {}
    Outcomes = {"completed", "failed"}
    Faults = {"restart"}
SYMMETRY TaskSymmetry
INVARIANTS SingleWriter QueueOrder
PROPERTIES WatermarkNeverSkips CadenceNeverRewinds
CHECK_DEADLOCK FALSE
