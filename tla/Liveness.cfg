SPECIFICATION FairSpec
CONSTANTS
    t1 = t1
    t2 = t2
    a1 = a1
    a2 = a2
    a = a
    b = b

PROPERTIES
    ConversationsSettle
    ReceiptsSettle
    BackgroundWorkCatchesUp
CHECK_DEADLOCK FALSE
