\* Two programs share an object: one creates it, the other patches it without
\* an ETag.
SPECIFICATION Spec
CONSTANTS
    t1 = t1
    t2 = t2
    Thread <- TwoThreads
    Op <- OnObject
    Status <- AcceptOrRefuse
    MaxCalls = 2
INVARIANTS
    DocPatchIsUnconditional
\* The programs stop when they have made their calls.
CHECK_DEADLOCK FALSE
