SPECIFICATION Spec
CONSTANTS
    Tasks = {t1, t2}
    MaxConv = 2
    MaxRounds = 1
    FullEvery = 3
    QuickEvery = 2
    DaydreamEvery = 1
    AskedScopes = {"quick"}
    Outcomes = {"completed", "submitted"}
    Faults = {"crash", "close", "abort"}
SYMMETRY TaskSymmetry
INVARIANTS NoLeakedGate CutIsNeverReplayed
PROPERTY GraphIsLeased
CHECK_DEADLOCK FALSE
