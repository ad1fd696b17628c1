SPECIFICATION FairSpec
CONSTANTS
    f1 = f1
    f2 = f2
    order = order
    NoOperation = NoOperation
    Fires = {f1}
    Operation <- NoOperations
    Idempotent = TRUE
    Lookup = FALSE
    Proposals = {"ask"}
    MaxRetries = 1
    MaxDepth = 2
    MaxFence = 1
    MaxOperator = 0
    Faults = {"crash", "gate", "ack"}
INVARIANT RetryBudget
PROPERTIES AnsweredIsNotAsked EveryWakeSettles
CHECK_DEADLOCK FALSE
