SPECIFICATION Spec
CONSTANTS
    f1 = f1
    f2 = f2
    order = order
    NoOperation = NoOperation
    Fires = {f1, f2}
    Operation <- SharedOperation
    Idempotent = FALSE
    Lookup = TRUE
    Proposals = {"act", "silence"}
    MaxRetries = 1
    MaxDepth = 1
    MaxFence = 2
    MaxOperator = 1
    Faults = {"crash", "operator", "lease", "switch", "target"}
INVARIANTS AtMostOneEffect OneActPerOperation JournalCoversCommits
CHECK_DEADLOCK FALSE
