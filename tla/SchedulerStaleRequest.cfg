SPECIFICATION Spec
CONSTANTS
    Tasks = {t1, t2}
    MaxConv = 2
    MaxRounds = 1
    FullEvery = 3
    QuickEvery = 2
    DaydreamEvery = 1
    AskedScopes = {"quick"}
    Outcomes = {"completed"}
    Faults = {}
SYMMETRY TaskSymmetry
PROPERTY SettledIsNeverFormedAgain
CHECK_DEADLOCK FALSE
