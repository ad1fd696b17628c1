SPECIFICATION Spec
CONSTANTS
    q1 = q1
    p1 = p1
    p2 = p2
    None = None

    Homes = {a}
    TextWatches = {}
    PageSize = 1
    SpacesPerTick = 2
    MaxGen = 3
    MaxRechecks = 1
    PagedWatches = 2
    PagedSlots = 1
    PagedOps = {"arm", "switch"}
    PagedFaults = {"crash", "late"}
    ChangedWatches = 1
    ChangedSlots = 2
    ChangedOps = {"arm", "switch", "recheck", "reconfigure"}
    ChangedFaults = {"crash", "native", "upgrade"}
    RecheckKeys = {k}
    Reviews = {a}
    Broken = {a}

    NumWatches = 2
    WatchesPerPass = 2
    AttemptsPerPage = 1
    MaxVersion = 2
    MaxEpoch = 1
    PassFaults = {"crash", "late", "ambiguous", "definite", "oversized"}

    Operations = {o1, o2}
    Digests = {d1, d2}
    MaxRecordVersion = 4

    Loaders = {l1, l2, l3}
    Quiet = {l2}
    AutoCreate = {l1}
    TaskSlots = 1
    MaxEntries = 3
    HostFaults = {"open", "close", "drop", "shutdown"}

    Tokens = {t1, t2}
    Names = {"n"}
    Requests = {r1}
    MaxTokens = 2
    MaxTime = 1

INVARIANTS
    WatchesAreScanned
    WatchesSpendOnce
    WalksAreExact
    BriefingIsOneSnapshot
    ServedByItsOwner
PROPERTY RecallIsWhole
CHECK_DEADLOCK FALSE
