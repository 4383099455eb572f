\* One thread: replies in records of every size, silence, every failure.
SPECIFICATION Spec
CONSTANTS
    t1 = t1
    Thread = {t1}
    Fd = {0, 1}
    ETag = {8, 9}
    Served <- SomeReplies
    HeaderMax = 3
    BlockSize = 2
\* The process may crash (SslConnect, LackMemory, WriteBehindLine).
CHECK_DEADLOCK FALSE
INVARIANTS
    DeliveredWhole
    AnsweredIsReported
    ConnectionIsClosed
PROPERTIES
    ClosesItsOwn
    ReadingEnds
