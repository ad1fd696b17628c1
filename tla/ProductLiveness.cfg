SPECIFICATION FairSpec
CONSTANTS
    r1 = r1
    r2 = r2
    e1 = e1
    e2 = e2
    s1 = s1
    s2 = s2
    Records = {r1, r2}
    Evidence = {e1, e2}
    Sources = {s1, s2}
    Cites <- MCCites
    SourceOf <- MCSourceOf
    Keys = {k1, k2}
    Kinds = {"correct", "suppress", "delete"}
    Passes = {p1}
    MaxVersion = 3
    MaxEpoch = 2
    Faults = {"crash", "forget"}
PROPERTY PendingResolves
