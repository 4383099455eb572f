\* Two threads with an application object each: the first makes every call and
\* meets every class of reply and every failure, beside the second.
SPECIFICATION BesideSpec
CONSTANTS
    t1 = t1
    t2 = t2
    a1 = a1
    a2 = a2
    Thread <- TwoThreads
    App = {a1, a2}
    AppOf <- OwnApp
    Op <- EveryFunction
    Status <- EveryStatus
INVARIANTS
    TypeOK
    NoLeak
    FailureTellsStatus
    OkIsComplete
    FailureGivesNothing
    RequestIsGuarded
    LastErrorIsOfLastCall
PROPERTIES
    ErrorHeldIsStable
