\* Two threads that share nothing, against the README.
SPECIFICATION Spec
CONSTANTS
    t1 = t1
    t2 = t2
    Thread = {t1, t2}
    ETag = {"e1", "e2"}
    Served <- OneReply
\* The process may crash (CallbackWrite).
CHECK_DEADLOCK FALSE
INVARIANT
    DocUnsharedCallsAreSafe
