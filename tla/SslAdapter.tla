----------------------------- MODULE SslAdapter -----------------------------
(***************************************************************************)
(* httpclient/kii_prv_http_execute_ssl.c: one exchange over OpenSSL.       *)
(*                                                                         *)
(* The adapter connects, sends the request, and reads the reply a byte at  *)
(* a time: before each byte it waits up to a minute for the socket to be   *)
(* readable, then asks OpenSSL for one.  OpenSSL takes a whole record off  *)
(* the socket and keeps what was not asked for.  A line of the head and a  *)
(* piece of the body stand for their bytes.  OpenSSL, the sockets and the  *)
(* server are external.  Errors of sending are ignored by the code: a      *)
(* request that was lost is a reply that never comes.                      *)
(***************************************************************************)
EXTENDS Integers, Sequences

CONSTANTS
    Thread,     \* the threads that call kii_http_execute
    Fd,         \* file descriptors
    ETag,       \* the values of an ETag header line
    Served,     \* the replies the server may send
    HeaderMax,  \* HTTP_EXCONFIG_HEADERMAXCOUNT
    BlockSize   \* HTTP_EXCONFIG_HEADERLINEBLOCKSIZE

\* A line, and how many bytes it has, or a piece of the body on the wire.
Unit == [kind : {"interim", "status", "blank", "length", "etag", "other", "piece"},
         value : Nat, bytes : Nat]

\* A reply: is it announced by "100 Continue", is it HTTP/1.1, its status, its
\* header lines and the number of pieces of its body.
ASSUME SslAssumption ==
    /\ Thread \cap {"program", "free"} = {}
    /\ Fd \subseteq Nat /\ 0 \in Fd
    /\ ETag \subseteq Nat \ {0}
    /\ Served \subseteq [interim : BOOLEAN, http11 : BOOLEAN, status : Nat \ {0},
                         lines : Seq(Unit), pieces : Nat]
    /\ \A r \in Served : \A i \in DOMAIN r.lines :
          /\ r.lines[i].kind \in {"length", "etag", "other"}
          /\ r.lines[i].kind = "length" => /\ r.lines[i].value = r.pieces
                                            /\ r.lines[i].bytes < BlockSize
          /\ r.lines[i].kind = "etag" => r.lines[i].value \in ETag
    /\ HeaderMax \in Nat \ {0} /\ BlockSize \in Nat \ {0, 1}

NoReply == [interim |-> FALSE, http11 |-> TRUE, status |-> 0, lines |-> <<>>, pieces |-> 0]

VARIABLES
    pc,               \* where each thread is in kii_http_execute
    head,             \* is its method HEAD, and
    wantsHeader,      \* is response_headers given
    served,           \* what the server sends
    conn,             \* how far it is
    sock, ssl,        \* the locals "sock", and "ctx" and "ssl" of request
    owner,            \* whose each file descriptor is
    count, bodylen,   \* the locals of ssl_recv_response
    got,              \* *status_code, *response_headers and *response_body
    retval,           \* the local "retval" of request
    http_error_code,  \* the process-wide variable it is assigned to
    ret,              \* does kii_http_execute return KII_TRUE
    crashed           \* the process has used a null or an undefined pointer

request == <<head, wantsHeader>>
parser == <<count, bodylen, got>>
result == <<http_error_code, ret>>
vars == <<pc, request, served, conn, sock, ssl, owner, parser, retval, result, crashed>>

\* What the server has sent, what of it OpenSSL has decrypted and what the
\* adapter has read, as numbers of units; the ends of the records in between.
NewConn == [sent |-> 0, records |-> <<>>, decrypted |-> 0, read |-> 0, closed |-> FALSE]
Nothing == [status |-> 0, etag |-> 0, body |-> <<>>]

\* An ETag with bytes behind it that the server has not sent.
Garbled == -1

HttpResult == {"OK", "ERROR_RESPONSEHEADER", "ERROR_RECEIVING", "ERROR_CONNECTSERVER",
               "ERROR_URLSYNTAX", "ERROR_INTERNAL", "ERROR_CONNECTSSLSERVER"}

TypeOK ==
    /\ pc \in [Thread -> {"idle", "url", "connect", "handshake", "status", "fields", "body",
                          "cleanup", "assign", "test", "returned"}]
    /\ head \in [Thread -> BOOLEAN] /\ wantsHeader \in [Thread -> BOOLEAN]
    /\ served \in [Thread -> Served \cup {NoReply}]
    /\ conn \in [Thread -> [sent : Nat, records : Seq(Nat), decrypted : Nat, read : Nat,
                            closed : BOOLEAN]]
    /\ sock \in [Thread -> Fd \cup {-1}] /\ ssl \in [Thread -> BOOLEAN]
    /\ owner \in [Fd -> Thread \cup {"program", "free"}]
    /\ count \in [Thread -> 0 .. HeaderMax]
    /\ bodylen \in [Thread -> Nat \cup {-1}]
    /\ got \in [Thread -> [status : Nat, etag : ETag \cup {0, Garbled}, body : Seq(Unit)]]
    /\ retval \in [Thread -> HttpResult] /\ http_error_code \in HttpResult
    /\ ret \in [Thread -> BOOLEAN]
    /\ crashed \in BOOLEAN

\* Descriptor 0 is the program's standard input, unless it has closed it; a
\* static variable starts as zero, which is HTTP_RESULT_OK.
Init ==
    /\ pc = [t \in Thread |-> "idle"]
    /\ head = [t \in Thread |-> FALSE] /\ wantsHeader = [t \in Thread |-> FALSE]
    /\ served = [t \in Thread |-> NoReply]
    /\ conn = [t \in Thread |-> NewConn]
    /\ sock = [t \in Thread |-> 0] /\ ssl = [t \in Thread |-> FALSE]
    /\ \E o \in {"program", "free"} : owner = [f \in Fd |-> IF f = 0 THEN o ELSE "free"]
    /\ count = [t \in Thread |-> 0] /\ bodylen = [t \in Thread |-> -1]
    /\ got = [t \in Thread |-> Nothing]
    /\ retval = [t \in Thread |-> "ERROR_INTERNAL"] /\ http_error_code = "OK"
    /\ ret = [t \in Thread |-> FALSE]
    /\ crashed = FALSE

Goto(t, step) == pc' = [pc EXCEPT ![t] = step]
EndFunc(t, r) == retval' = [retval EXCEPT ![t] = r] /\ Goto(t, "cleanup")

-----------------------------------------------------------------------------
(* From the call to the request.                                            *)

\* kii_cloud.c calls with NULL in *response_headers and *response_body.
Call(t) ==
    /\ pc[t] \in {"idle", "returned"}
    /\ \E h, w \in BOOLEAN : head' = [head EXCEPT ![t] = h]
                             /\ wantsHeader' = [wantsHeader EXCEPT ![t] = w]
    /\ served' = [served EXCEPT ![t] = NoReply]
    /\ conn' = [conn EXCEPT ![t] = NewConn]
    /\ sock' = [sock EXCEPT ![t] = 0]
    /\ count' = [count EXCEPT ![t] = 0] /\ bodylen' = [bodylen EXCEPT ![t] = -1]
    /\ got' = [got EXCEPT ![t] = Nothing]
    /\ retval' = [retval EXCEPT ![t] = "ERROR_INTERNAL"]
    /\ ret' = [ret EXCEPT ![t] = FALSE]
    /\ Goto(t, "url")
    /\ UNCHANGED <<ssl, owner, http_error_code, crashed>>

\* A URL may have another scheme, no host, or a path of 256 bytes or more.
ParseUrl(t) ==
    /\ pc[t] = "url"
    /\ \/ Goto(t, "connect") /\ UNCHANGED retval
       \/ EndFunc(t, "ERROR_URLSYNTAX")
    /\ UNCHANGED <<request, served, conn, sock, ssl, owner, parser, result, crashed>>

\* socket returns the lowest free descriptor.
FreeFd == {f \in Fd : owner[f] = "free"}

SocketConnect(t) ==
    /\ pc[t] = "connect"
    /\ \/ \E f \in FreeFd :
             /\ \A g \in FreeFd : f <= g
             /\ sock' = [sock EXCEPT ![t] = f]
             /\ owner' = [owner EXCEPT ![f] = t]
             /\ Goto(t, "handshake")
             /\ UNCHANGED retval
       \/ /\ sock' = [sock EXCEPT ![t] = -1]
          /\ EndFunc(t, "ERROR_CONNECTSERVER")
          /\ UNCHANGED owner
    /\ UNCHANGED <<request, served, conn, ssl, parser, result, crashed>>

\* ssl_connect, then the request is sent.  Where SSL_connect returns less than
\* 0 the caller frees "ssl", where it returns 0 ssl_connect does.  Without a
\* context ssl_connect frees an "ssl" it has not set.
SslConnect(t) ==
    /\ pc[t] = "handshake"
    /\ \/ /\ ssl' = [ssl EXCEPT ![t] = TRUE]
          /\ \E r \in Served : served' = [served EXCEPT ![t] = r]
          /\ Goto(t, "status")
          /\ UNCHANGED <<retval, crashed>>
       \/ /\ \E b \in BOOLEAN : ssl' = [ssl EXCEPT ![t] = b]
          /\ EndFunc(t, "ERROR_CONNECTSSLSERVER")
          /\ UNCHANGED <<served, crashed>>
       \/ /\ crashed' = TRUE
          /\ UNCHANGED <<pc, ssl, served, retval>>
    /\ UNCHANGED <<request, conn, sock, owner, parser, result>>

-----------------------------------------------------------------------------
(* The server and the connection.                                           *)

Short(kind, value) == [kind |-> kind, value |-> value, bytes |-> 1]
Pieces(n) == [i \in 1 .. n |-> Short("piece", i)]

\* The units of the reply to t, in the order of the wire.
Wire(t) ==
    LET r == served[t]
        blank == <<Short("blank", 0)>>
    IN  (IF r.interim THEN <<Short("interim", 100)>> \o blank ELSE <<>>)
        \o <<Short(IF r.http11 THEN "status" ELSE "other", r.status)>>
        \o r.lines \o blank
        \o (IF head[t] THEN <<>> ELSE Pieces(r.pieces))

Receiving(t) == pc[t] \in {"status", "fields", "body"}

\* The server sends a record, as much in it as it likes, or is silent.
Send(t) ==
    /\ Receiving(t) /\ ~conn[t].closed
    /\ \E n \in conn[t].sent + 1 .. Len(Wire(t)) :
          conn' = [conn EXCEPT ![t].sent = n, ![t].records = Append(@, n)]
    /\ UNCHANGED <<pc, request, served, sock, ssl, owner, parser, retval, result, crashed>>

\* It closes the connection after the reply, as "Connection: close" asks, or
\* before.
Close(t) ==
    /\ Receiving(t) /\ ~conn[t].closed
    /\ conn' = [conn EXCEPT ![t].closed = TRUE]
    /\ UNCHANGED <<pc, request, served, sock, ssl, owner, parser, retval, result, crashed>>

-----------------------------------------------------------------------------
(* Reading.                                                                 *)

\* Is there a byte decrypted and not read; is the socket readable; can a byte
\* be read: select must return, and SSL_read find one.
Pending(t) == conn[t].read < conn[t].decrypted
Readable(t) == conn[t].records # <<>> \/ conn[t].closed

CanReadUntilClosed(t) ==        \* mutant: a closed socket is not asked for what OpenSSL holds
    conn[t].records # <<>> \/ (Pending(t) /\ Readable(t) /\ ~conn[t].closed)

CanRead(t) == Readable(t) /\ (Pending(t) \/ conn[t].records # <<>>)

Read(t) ==
    conn' = [conn EXCEPT
                ![t].read = @ + 1,
                ![t].decrypted = IF Pending(t) THEN @ ELSE Head(conn[t].records),
                ![t].records = IF Pending(t) THEN @ ELSE Tail(@)]

NextUnit(t) == Wire(t)[conn[t].read + 1]

\* ssl_resphdr_readline grows the line's buffer by a block when it is full, and
\* writes the terminator one byte behind the text.  In between is the zero of
\* the first block's memset, or what realloc has found; and the terminator of
\* a line that fills its blocks has no room in the byte realloc adds for it.
Terminated(u) == u.bytes < BlockSize
FillsItsBlocks(u) == u.bytes > 0 /\ u.bytes % BlockSize = 0
TextsOf(u) == IF Terminated(u) THEN {u.value} ELSE {u.value, Garbled}

\* The status line: empty lines and interim replies are skipped, any other line
\* that is not a status line of HTTP/1.1 ends the call.
ReadStatus(t) ==
    /\ pc[t] = "status" /\ CanRead(t) /\ Read(t)
    /\ LET u == NextUnit(t)
       IN  \/ /\ u.kind \in {"blank", "interim"}
              /\ count' = [count EXCEPT ![t] = @ + 1]
              /\ got' = IF u.kind = "interim" THEN [got EXCEPT ![t].status = 100] ELSE got
              /\ IF count[t] + 1 = HeaderMax
                 THEN EndFunc(t, "ERROR_RESPONSEHEADER")
                 ELSE UNCHANGED <<pc, retval>>
           \/ /\ u.kind = "status"
              /\ got' = [got EXCEPT ![t].status = u.value]
              /\ count' = [count EXCEPT ![t] = 0]
              /\ Goto(t, "fields")
              /\ UNCHANGED retval
           \/ /\ u.kind \notin {"blank", "interim", "status"}
              /\ EndFunc(t, "ERROR_RESPONSEHEADER")
              /\ UNCHANGED <<count, got>>
    /\ UNCHANGED <<request, served, sock, ssl, owner, bodylen, result, crashed>>

\* A header line.  When the count of lines is used up the loop ends like after
\* the empty line.  An ETag that cannot be stored ends the call.
ReadField(t) ==
    /\ pc[t] = "fields" /\ CanRead(t) /\ Read(t)
    /\ LET u == NextUnit(t)
       IN  \/ /\ u.kind = "blank"
              /\ Goto(t, "body")
              /\ UNCHANGED <<parser, retval>>
           \/ /\ u.kind # "blank"
              /\ count' = [count EXCEPT ![t] = @ + 1]
              /\ Goto(t, IF count[t] + 1 = HeaderMax THEN "body" ELSE "fields")
              /\ bodylen' = IF u.kind = "length" THEN [bodylen EXCEPT ![t] = u.value] ELSE bodylen
              /\ IF u.kind = "etag" /\ wantsHeader[t]
                 THEN \E e \in TextsOf(u) : got' = [got EXCEPT ![t].etag = e]
                 ELSE UNCHANGED got
              /\ UNCHANGED retval
           \/ /\ u.kind = "etag" /\ wantsHeader[t]
              /\ EndFunc(t, "ERROR_RESPONSEHEADER")
              /\ UNCHANGED parser
    /\ UNCHANGED <<request, served, sock, ssl, owner, result, crashed>>

\* As much of a body as Content-Length says, for HEAD too, and none without it.
InBody(t) == pc[t] = "body" /\ Len(got[t].body) < bodylen[t]

ReadBody(t) ==
    /\ InBody(t) /\ CanRead(t) /\ Read(t)
    /\ got' = [got EXCEPT ![t].body = Append(@, NextUnit(t))]
    /\ UNCHANGED <<pc, request, served, sock, ssl, owner, count, bodylen, retval, result, crashed>>

EndBody(t) ==
    /\ pc[t] = "body" /\ ~InBody(t)
    /\ EndFunc(t, "OK")
    /\ UNCHANGED <<request, served, conn, sock, ssl, owner, parser, result, crashed>>

WaitsForByte(t) == pc[t] \in {"status", "fields"} \/ InBody(t)

TimeoutRetrying(t) ==           \* mutant: select is called again
    /\ WaitsForByte(t) /\ ~Readable(t)
    /\ UNCHANGED vars

\* select waits 60 seconds in vain.
Timeout(t) ==
    /\ WaitsForByte(t) /\ ~Readable(t)
    /\ EndFunc(t, "ERROR_RECEIVING")
    /\ UNCHANGED <<request, served, conn, sock, ssl, owner, parser, result, crashed>>

ReadFailsQuietly(t) ==          \* mutant: the end of the connection ends the body
    /\ WaitsForByte(t) /\ Readable(t) /\ ~CanRead(t)
    /\ EndFunc(t, IF InBody(t) THEN "OK" ELSE "ERROR_RECEIVING")
    /\ UNCHANGED <<request, served, conn, sock, ssl, owner, parser, result, crashed>>

\* The connection is closed and everything read.
ReadFails(t) ==
    /\ WaitsForByte(t) /\ Readable(t) /\ ~CanRead(t)
    /\ EndFunc(t, "ERROR_RECEIVING")
    /\ UNCHANGED <<request, served, conn, sock, ssl, owner, parser, result, crashed>>

\* What is behind a line's blocks may be needed by others.
WriteBehindLine(t) ==
    /\ pc[t] \in {"status", "fields"} /\ CanRead(t) /\ FillsItsBlocks(NextUnit(t))
    /\ crashed' = TRUE
    /\ UNCHANGED <<pc, request, served, conn, sock, ssl, owner, parser, retval, result>>

\* Nobody checks that there was memory for a line or for the body.
LackMemory(t) ==
    /\ WaitsForByte(t)
    /\ crashed' = TRUE
    /\ UNCHANGED <<pc, request, served, conn, sock, ssl, owner, parser, retval, result>>

-----------------------------------------------------------------------------
(* The way out.                                                             *)

CleanUpPositive(t) ==           \* mutant: 0 is taken for "no socket"
    /\ pc[t] = "cleanup"
    /\ ssl' = [ssl EXCEPT ![t] = FALSE]
    /\ owner' = IF sock[t] > 0 THEN [owner EXCEPT ![sock[t]] = "free"] ELSE owner
    /\ Goto(t, "assign")
    /\ UNCHANGED <<request, served, conn, sock, parser, retval, result, crashed>>

CleanUpAlways(t) ==             \* mutant: without a socket, 0 is closed
    /\ pc[t] = "cleanup"
    /\ ssl' = [ssl EXCEPT ![t] = FALSE]
    /\ owner' = [owner EXCEPT ![IF sock[t] >= 0 THEN sock[t] ELSE 0] = "free"]
    /\ Goto(t, "assign")
    /\ UNCHANGED <<request, served, conn, sock, parser, retval, result, crashed>>

\* END_FUNC of request.  Before socket_connect "sock" is 0, a descriptor too.
CleanUp(t) ==
    /\ pc[t] = "cleanup"
    /\ ssl' = [ssl EXCEPT ![t] = FALSE]
    /\ owner' = IF sock[t] >= 0 THEN [owner EXCEPT ![sock[t]] = "free"] ELSE owner
    /\ Goto(t, "assign")
    /\ UNCHANGED <<request, served, conn, sock, parser, retval, result, crashed>>

\* http_error_code = request(...);
Assign(t) ==
    /\ pc[t] = "assign"
    /\ http_error_code' = retval[t]
    /\ Goto(t, "test")
    /\ UNCHANGED <<request, served, conn, sock, ssl, owner, parser, retval, ret, crashed>>

\* The variable is read again, whatever thread wrote it last.
Test(t) ==
    /\ pc[t] = "test"
    /\ ret' = [ret EXCEPT ![t] = http_error_code = "OK"]
    /\ Goto(t, "returned")
    /\ UNCHANGED <<request, served, conn, sock, ssl, owner, parser, retval, http_error_code, crashed>>

\* What the thread does by itself once it has sent the request.
Continue(t) ==
    \/ ReadStatus(t) \/ ReadField(t) \/ ReadBody(t) \/ EndBody(t)
    \/ Timeout(t) \/ ReadFails(t)
    \/ CleanUp(t) \/ Assign(t) \/ Test(t)

Next ==
    /\ ~crashed
    /\ \E t \in Thread :
        \/ Call(t)
        \/ ParseUrl(t)
        \/ SocketConnect(t)
        \/ SslConnect(t)
        \/ Continue(t)
        \/ Send(t)
        \/ Close(t)
        \/ WriteBehindLine(t)
        \/ LackMemory(t)

\* A thread runs on, and a minute passes.  The server owes nothing.
Fairness == \A t \in Thread : WF_vars(~crashed /\ Continue(t))

Spec == Init /\ [][Next]_vars /\ Fairness

-----------------------------------------------------------------------------
(* What the caller gets.                                                    *)

Has(r, kind) == \E i \in DOMAIN r.lines : r.lines[i].kind = kind

\* What the last ETag line of a reply may be read as, 0 if there is none.
LastETag(r) ==
    LET at == {i \in DOMAIN r.lines : r.lines[i].kind = "etag"}
    IN  IF at = {} THEN {0} ELSE TextsOf(r.lines[CHOOSE i \in at : \A j \in at : j <= i])

\* The server's reply, and the header the caller asked for.
Answers(t) ==
    [status : {served[t].status},
     etag   : IF wantsHeader[t] THEN LastETag(served[t]) ELSE {0},
     body   : {IF head[t] THEN <<>> ELSE Pieces(served[t].pieces)}]

\* KII_TRUE means the caller holds the server's reply in full, however it was
\* cut into records and whenever it came.  The server must say how long its
\* body is, or the body is missing, send fewer header lines than the adapter
\* counts, or some of them are taken for the body, and its ETag in a line that
\* is shorter than a block, or bytes are added to it.
DeliveredWhole ==
    \A t \in Thread : pc[t] = "returned" /\ ret[t] =>
        /\ got[t].status = served[t].status
        /\ Len(served[t].lines) < HeaderMax =>
              IF Has(served[t], "length") \/ served[t].pieces = 0
              THEN got[t] \in Answers(t)
              ELSE got[t] \in {[a EXCEPT !.body = <<>>] : a \in Answers(t)}

\* A reply that was read to its end is not reported as a failed exchange, which
\* the caller would repeat; nor is the receiving of a reply given up that was
\* sent in full on a connection then closed, although the wait for the socket
\* before each byte knows nothing of the bytes OpenSSL holds.  But HEAD fails
\* when it is told the length of the body GET would have: the adapter waits for
\* that body.
Arrived(t) ==
    \/ conn[t].read = Len(Wire(t))
    \/ conn[t].sent = Len(Wire(t)) /\ conn[t].closed /\ retval[t] = "ERROR_RECEIVING"

AnsweredIsReported ==
    \A t \in Thread :
        pc[t] = "returned" /\ served[t] # NoReply /\ Arrived(t) =>
            ret[t] \/ (head[t] /\ Has(served[t], "length") /\ served[t].pieces > 0)

\* However far the call came, it leaves no socket and no OpenSSL object.
ConnectionIsClosed ==
    \A t \in Thread : pc[t] = "returned" =>
        ~ssl[t] /\ \A f \in Fd : owner[f] # t

\* A call closes no descriptor of the rest of the program, except descriptor 0
\* when it cannot use the URL: it has no socket then and takes 0 for one.
ClosesItsOwn ==
    [][\A f \in Fd : owner[f] = "program" /\ owner'[f] # "program" =>
          f = 0 /\ \E t \in Thread : pc[t] = "cleanup" /\ retval[t] = "ERROR_URLSYNTAX"]_vars

\* Once the request is sent, the call returns whatever the server does, its
\* silence included.
ReadingEnds == \A t \in Thread : Receiving(t) ~> pc[t] = "returned" \/ crashed

=============================================================================
