SPECIFICATION Spec
CONSTANTS
    r1 = r1
    r2 = r2
    e1 = e1
    e2 = e2
    s1 = s1
    s2 = s2
    Records = {r1, r2}
    Evidence = {e1, e2}
    Sources = {s1, s2}
    Cites <- MCCites
    SourceOf <- MCSourceOf
    Keys = {k1, k2}
    Kinds = {"world_change", "delete"}
    Passes = {p1}
    MaxVersion = 4
    MaxEpoch = 3
    Faults = {"crash", "io", "host"}
INVARIANTS FenceIsHeld ExcludedNeverForms ConfirmedIsDone CorrectedOnce NoCopyOfErased
PROPERTY RemovesOnlyThePreviewed
SYMMETRY KeySymmetry
