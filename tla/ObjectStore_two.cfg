\* Two programs share an object; every call and every reply; three calls.
SPECIFICATION Spec
CONSTANTS
    t1 = t1
    t2 = t2
    Thread <- TwoThreads
    Op <- OnObject
    Status <- AcceptOrRefuse
    MaxCalls = 3
INVARIANTS
    HeldIsAVersion
    NoLostUpdate
PROPERTIES
    ImplementsSharedObject
\* The programs stop when they have made their calls.
CHECK_DEADLOCK FALSE
SYMMETRY Symmetry
