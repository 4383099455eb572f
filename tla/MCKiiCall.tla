----------------------------- MODULE MCKiiCall -----------------------------
(* The instance of KiiCall for TLC.                                         *)
EXTENDS KiiCall

\* Every thread has the application object of the same index.
CONSTANTS t1, t2, a1, a2
TwoThreads == {t1, t2}
OwnApp == [t \in Thread |-> IF t = t1 THEN a1 ELSE a2]

EveryFunction == ApiFunction

\* One status of each class the code tells apart.
EveryStatus == {200, 404, 409, 412, 503}

\* The first thread makes every call and gets every reply.  The second deletes,
\* and fails, is refused or succeeds: all it can do to the first is to return
\* between two of its steps.
Whole(status) == [status |-> status, header |-> "noetag", body |-> "full"]
SecondDeletes ==
    /\ call[t2].op \in {"none", "delete"}
    /\ reply[t2] \in {NoReply, Whole(200), Whole(412)}

BesideSpec == Init /\ [][Next /\ SecondDeletes']_vars
=============================================================================
