\* One thread: every reply, every failing allocation, every broken transfer.
SPECIFICATION Spec
CONSTANTS
    t1 = t1
    t2 = t2
    Thread = {t1}
    ETag = {"e1", "e2"}
    Served <- SomeReplies
\* The process may crash (CallbackWrite).
CHECK_DEADLOCK FALSE
INVARIANTS
    DeliveredWhole
    SuccessIsReported
    RequestIsFreed
PROPERTIES
    ImplementsAdapter
