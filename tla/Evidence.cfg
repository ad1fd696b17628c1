SPECIFICATION Spec
CONSTANTS
    NumAssertions = 3
    SettleBatch = 2
    RootsLimit = 1
    MaxSeq = 2
    NumCommitments = 0
    ReviewLimit = 1
    MaxTime = 1
    SettleFaults = {"crash", "read", "write"}
    Provisions = {p1, p2}
    Statements = {k1}
    Texts = {t1, t2}
    MaxGrants = 2
    MaxTries = 3
    EventKeys = {k}
    Bodies = {b1, b2}
    Progress = {b2}
    Original = k
    Corrections = {}
    Safety = {k}
    Lanes = {"action", "learning"}
    MaxIndex = 3
    MaxCalls = 2
    Receipts = {k1, k2}
    EdgeSources = {s1}
    PlanSize = 1
    MaxEdgeEpoch = 1
    EdgeFaults = {"crash", "abandon", "native", "scrub"}
    Workers = {w1, w2}
    ReviewBatch = 1
    MaxReviewEpoch = 1
    MaxRoots = 2
    p1 = p1
    s1 = s1
    d1 = d1
    Nothing = Nothing

INVARIANTS
    CorrectionsAreSettled
    PublishedOnce
    EvidenceCountsOnce
    WikiIsExact
PROPERTIES
    LearningIsFenced
    EdgeForgets
CHECK_DEADLOCK FALSE
