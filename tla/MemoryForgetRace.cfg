SPECIFICATION Spec
CONSTANTS
    Callers = {a1, a2}
    Sources = {"s1"}
    Keys = {"k1", "k2"}
    Workloads <- ForgetWorkload
    PredOf <- Chain
    MaxConv = 1
    MaxTries = 1
    Faults = {}
SYMMETRY CallerSymmetry
INVARIANT ForgottenStaysForgotten
