SPECIFICATION Spec
CONSTANTS
    Callers = {a1, a2}
    Sources = {"s1", "s2"}
    Keys = {"k1", "k2"}
    Workloads <- AllWorkloads
    PredOf <- Chain
    MaxConv = 2
    MaxTries = 1
    Faults = {"crash", "refuse", "hold", "hook"}
SYMMETRY CallerSymmetry
INVARIANTS OneConversationPerKey BlockedSuccessor AvailableMeansRepaired PlanCovers
PROPERTY TerminalIsFinal
