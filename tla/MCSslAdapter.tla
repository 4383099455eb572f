---------------------------- MODULE MCSslAdapter ----------------------------
(* Instances of SslAdapter for TLC.                                         *)
EXTENDS SslAdapter

CONSTANTS t1

Line(kind, value) == Short(kind, value)
LongETag(value, bytes) == [kind |-> "etag", value |-> value, bytes |-> bytes]
Reply(lines, pieces) ==
    [interim |-> FALSE, http11 |-> TRUE, status |-> 200, lines |-> lines, pieces |-> pieces]

\* A complete reply, one after an interim one, one of another version, one with
\* two ETags, one that does not give its length, one with a line too many, and
\* ETags in lines of a block and of more than a block.
SomeReplies ==
    {Reply(<<Line("length", 2), Line("etag", 8)>>, 2),
     [Reply(<<Line("other", 0)>>, 0) EXCEPT !.interim = TRUE, !.status = 412],
     [Reply(<<>>, 0) EXCEPT !.http11 = FALSE],
     Reply(<<Line("etag", 8), Line("etag", 9)>>, 0),
     Reply(<<Line("etag", 9)>>, 1),
     Reply(<<Line("length", 1), Line("other", 0), Line("other", 0)>>, 1),
     Reply(<<LongETag(8, BlockSize), Line("length", 1)>>, 1),
     Reply(<<Line("etag", 9), LongETag(8, BlockSize + 1)>>, 0)}
=============================================================================
