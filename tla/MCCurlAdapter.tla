--------------------------- MODULE MCCurlAdapter ---------------------------
(* Instances of CurlAdapter for TLC.                                        *)
EXTENDS CurlAdapter

CONSTANTS t1, t2

\* Replies without and with an ETag, with two, and of up to three pieces.
SomeReplies ==
    {[status |-> 200, lines |-> <<"other">>, pieces |-> 0],
     [status |-> 200, lines |-> <<"e1", "other">>, pieces |-> 3],
     [status |-> 412, lines |-> <<"e1", "e2">>, pieces |-> 2]}

OneReply == {[status |-> 200, lines |-> <<"e1">>, pieces |-> 1]}
=============================================================================
