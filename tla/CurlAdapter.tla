---------------------------- MODULE CurlAdapter ----------------------------
(***************************************************************************)
(* httpclient/kii_prv_http_execute_curl.c: one exchange by libcurl.        *)
(*                                                                         *)
(* libcurl itself is external: it performs the exchange in the calling     *)
(* thread, hands every header line and every piece of the body to a        *)
(* callback of the adapter and fails when one of them does not take it, or *)
(* for reasons of its own.  Its result goes through a variable of the      *)
(* whole process, curl_error_code, which is written by one statement and   *)
(* tested by the next.  (adapter_error_code is written and never read; it  *)
(* is left out.  All methods kii_cloud.c passes are known to the adapter.) *)
(***************************************************************************)
EXTENDS Naturals, Sequences

CONSTANTS
    Thread,   \* the threads that call kii_http_execute
    ETag,     \* the values of an ETag header line
    Served    \* the replies the server may send

\* A reply on the wire: the status, the header lines and the pieces of the body.
ASSUME ServedAssumption ==
    /\ "other" \notin ETag /\ "none" \notin ETag
    /\ Served \subseteq [status : Nat \ {0}, lines : Seq(ETag \cup {"other"}), pieces : Nat]

NoReply == [status |-> 0, lines |-> <<>>, pieces |-> 0]

Method == {"POST", "PUT", "PATCH", "DELETE", "GET", "HEAD"}

\* Results of curl_easy_perform.
CurlCode == {"OK", "COULDNT_CONNECT", "WRITE_ERROR", "RECV_ERROR"}

VARIABLES
    pc,               \* where each thread is in kii_http_execute
    method,           \* the method and
    wantsHeader,      \* whether response_headers is given
    slist,            \* is the list of request headers allocated
    served,           \* what the server sends
    line, piece,      \* how much of it the callbacks have taken
    respHeader,       \* *response_headers: "none", "empty" or the ETag
    respBody,         \* *response_body: the pieces stored
    performed,        \* the value curl_easy_perform returns
    curl_error_code,  \* the process-wide variable it is assigned to
    http_status,      \* the local "http_status"
    ret,              \* the local "ret", an adapter_error_code_t
    crashed           \* the process has written through a null pointer

request == <<method, wantsHeader>>
transfer == <<served, line, piece, respHeader, respBody>>
outcome == <<http_status, ret>>
vars == <<pc, request, slist, transfer, performed, curl_error_code, outcome, crashed>>

Numbered(n) == [i \in 1 .. n |-> i]

TypeOK ==
    /\ pc \in [Thread -> {"idle", "convert", "setup", "connect", "transfer", "assign",
                          "test", "exit", "returned"}]
    /\ method \in [Thread -> Method]
    /\ wantsHeader \in [Thread -> BOOLEAN]
    /\ slist \in [Thread -> BOOLEAN]
    /\ served \in [Thread -> Served \cup {NoReply}]
    /\ line \in [Thread -> Nat] /\ piece \in [Thread -> Nat]
    /\ respHeader \in [Thread -> ETag \cup {"none", "empty"}]
    /\ respBody \in [Thread -> Seq(Nat)]
    /\ performed \in [Thread -> CurlCode]
    /\ curl_error_code \in CurlCode
    /\ http_status \in [Thread -> Nat]
    /\ ret \in [Thread -> {"AEC_OK", "AEC_FAIL", "AEC_CURL", "AEC_LOWMEMORY"}]
    /\ crashed \in BOOLEAN

\* A static variable starts as zero, which is CURLE_OK.
Init ==
    /\ pc = [t \in Thread |-> "idle"]
    /\ method = [t \in Thread |-> "GET"]
    /\ wantsHeader = [t \in Thread |-> FALSE]
    /\ slist = [t \in Thread |-> FALSE]
    /\ served = [t \in Thread |-> NoReply]
    /\ line = [t \in Thread |-> 0] /\ piece = [t \in Thread |-> 0]
    /\ respHeader = [t \in Thread |-> "none"]
    /\ respBody = [t \in Thread |-> <<>>]
    /\ performed = [t \in Thread |-> "COULDNT_CONNECT"]
    /\ curl_error_code = "OK"
    /\ http_status = [t \in Thread |-> 0]
    /\ ret = [t \in Thread |-> "AEC_FAIL"]
    /\ crashed = FALSE

Goto(t, step) == pc' = [pc EXCEPT ![t] = step]
Leave(t, code) == ret' = [ret EXCEPT ![t] = code] /\ Goto(t, "exit")

-----------------------------------------------------------------------------
\* kii_cloud.c calls with NULL in *response_headers and *response_body.
Call(t) ==
    /\ pc[t] \in {"idle", "returned"}
    /\ \E m \in Method, w \in BOOLEAN :
          /\ method' = [method EXCEPT ![t] = m]
          /\ wantsHeader' = [wantsHeader EXCEPT ![t] = w]
    /\ served' = [served EXCEPT ![t] = NoReply]
    /\ line' = [line EXCEPT ![t] = 0] /\ piece' = [piece EXCEPT ![t] = 0]
    /\ respHeader' = [respHeader EXCEPT ![t] = "none"]
    /\ respBody' = [respBody EXCEPT ![t] = <<>>]
    /\ performed' = [performed EXCEPT ![t] = "COULDNT_CONNECT"]
    /\ http_status' = [http_status EXCEPT ![t] = 0]
    /\ ret' = [ret EXCEPT ![t] = "AEC_FAIL"]
    /\ Goto(t, "convert")
    /\ UNCHANGED <<slist, curl_error_code, crashed>>

\* convert_request_headers releases the list it had when it cannot grow it.
ConvertRequestHeaders(t) ==
    /\ pc[t] = "convert"
    /\ \/ /\ Leave(t, "AEC_LOWMEMORY")
          /\ UNCHANGED slist
       \/ /\ slist' = [slist EXCEPT ![t] = TRUE]
          /\ Goto(t, "setup")
          /\ UNCHANGED ret
    /\ UNCHANGED <<request, transfer, performed, curl_error_code, http_status, crashed>>

\* The default result is stored, then the handle is set up; PATCH adds a header
\* to the list, which may fail.
Setup(t) ==
    /\ pc[t] = "setup"
    /\ curl_error_code' = "COULDNT_CONNECT"
    /\ \/ /\ method[t] = "PATCH"
          /\ Leave(t, "AEC_LOWMEMORY")
       \/ /\ Goto(t, "connect")
          /\ UNCHANGED ret
    /\ UNCHANGED <<request, slist, transfer, performed, http_status, crashed>>

-----------------------------------------------------------------------------
(* curl_easy_perform and the callbacks.                                     *)

Perform(t, code) ==
    /\ performed' = [performed EXCEPT ![t] = code]
    /\ Goto(t, "assign")

Pieces(t) == IF method[t] = "HEAD" THEN 0 ELSE served[t].pieces

Connect(t) ==
    /\ pc[t] = "connect"
    /\ \/ /\ \E r \in Served : served' = [served EXCEPT ![t] = r]
          /\ Goto(t, "transfer")
          /\ UNCHANGED performed
       \/ /\ Perform(t, "COULDNT_CONNECT")
          /\ UNCHANGED served
    /\ UNCHANGED <<request, slist, line, piece, respHeader, respBody, curl_error_code,
                   outcome, crashed>>

\* callback_header, where it is installed: an ETag line is stored, after the
\* first one has made the object; a callback short of memory fails the exchange.
CallbackHeader(t) ==
    /\ pc[t] = "transfer" /\ line[t] < Len(served[t].lines)
    /\ LET text == served[t].lines[line[t] + 1]
           stored == wantsHeader[t] /\ text \in ETag
       IN  \/ /\ line' = [line EXCEPT ![t] = @ + 1]
              /\ respHeader' = IF stored THEN [respHeader EXCEPT ![t] = text] ELSE respHeader
              /\ UNCHANGED <<pc, performed>>
           \/ /\ wantsHeader[t]
              /\ Perform(t, "WRITE_ERROR")
              /\ \/ UNCHANGED respHeader
                 \/ /\ stored /\ respHeader[t] = "none"
                    /\ respHeader' = [respHeader EXCEPT ![t] = "empty"]
              /\ UNCHANGED line
    /\ UNCHANGED <<request, slist, served, piece, respBody, curl_error_code, outcome, crashed>>

AtBody(t) == pc[t] = "transfer" /\ line[t] = Len(served[t].lines)

CallbackWriteSkipping(t) ==   \* mutant: a piece that finds no memory is taken
    /\ AtBody(t) /\ piece[t] < Pieces(t)
    /\ piece' = [piece EXCEPT ![t] = @ + 1]
    /\ \/ respBody' = [respBody EXCEPT ![t] = Append(@, piece[t] + 1)]
       \/ UNCHANGED respBody
    /\ UNCHANGED <<pc, request, slist, served, line, respHeader, performed,
                   curl_error_code, outcome, crashed>>

\* callbackWrite.  A block that cannot grow is left as it is and fails the
\* exchange.  The first block is checked through the wrong pointer (line 68):
\* when there is none the piece is copied to address zero.
CallbackWrite(t) ==
    /\ AtBody(t) /\ piece[t] < Pieces(t)
    /\ \/ /\ respBody' = [respBody EXCEPT ![t] = Append(@, piece[t] + 1)]
          /\ piece' = [piece EXCEPT ![t] = @ + 1]
          /\ UNCHANGED <<pc, performed, crashed>>
       \/ /\ respBody[t] # <<>>
          /\ Perform(t, "WRITE_ERROR")
          /\ UNCHANGED <<piece, respBody, crashed>>
       \/ /\ respBody[t] = <<>>
          /\ crashed' = TRUE
          /\ UNCHANGED <<pc, piece, respBody, performed>>
    /\ UNCHANGED <<request, slist, served, line, respHeader, curl_error_code, outcome>>

\* The connection breaks before the reply has arrived in full.
TransferBreaks(t) ==
    /\ pc[t] = "transfer"
    /\ Perform(t, "RECV_ERROR")
    /\ UNCHANGED <<request, slist, transfer, curl_error_code, outcome, crashed>>

TransferEnds(t) ==
    /\ AtBody(t) /\ piece[t] = Pieces(t)
    /\ Perform(t, "OK")
    /\ UNCHANGED <<request, slist, transfer, curl_error_code, outcome, crashed>>

-----------------------------------------------------------------------------
\* curl_error_code = curl_easy_perform(curl);
Assign(t) ==
    /\ pc[t] = "assign"
    /\ curl_error_code' = performed[t]
    /\ Goto(t, "test")
    /\ UNCHANGED <<request, slist, transfer, performed, outcome, crashed>>

TestAnyStatus(t) ==           \* mutant: a status is taken for a success
    /\ pc[t] = "test"
    /\ http_status' = [http_status EXCEPT ![t] = served[t].status]
    /\ Leave(t, IF served[t] = NoReply THEN "AEC_CURL" ELSE "AEC_OK")
    /\ UNCHANGED <<request, slist, transfer, performed, curl_error_code, crashed>>

TestDefault(t) ==             \* mutant: the test sees the default of the setup
    /\ pc[t] = "test"
    /\ Leave(t, "AEC_CURL")
    /\ UNCHANGED <<request, slist, transfer, performed, curl_error_code, http_status, crashed>>

\* switch (curl_error_code): the variable is read again, whatever thread wrote
\* it last.  CURLINFO_RESPONSE_CODE is 0 where no reply began.
Test(t) ==
    /\ pc[t] = "test"
    /\ \/ /\ curl_error_code = "OK"
          /\ http_status' = [http_status EXCEPT ![t] = served[t].status]
          /\ Leave(t, "AEC_OK")
       \/ /\ curl_error_code # "OK"
          /\ Leave(t, "AEC_CURL")
          /\ UNCHANGED http_status
    /\ UNCHANGED <<request, slist, transfer, performed, curl_error_code, crashed>>

ExitOnSuccess(t) ==           \* mutant: the list is freed on the way of success only
    /\ pc[t] = "exit"
    /\ slist' = [slist EXCEPT ![t] = @ /\ ret[t] # "AEC_OK"]
    /\ Goto(t, "returned")
    /\ UNCHANGED <<request, transfer, performed, curl_error_code, outcome, crashed>>

\* ON_EXIT: the list of request headers is freed, KII_TRUE returned on AEC_OK.
Exit(t) ==
    /\ pc[t] = "exit"
    /\ slist' = [slist EXCEPT ![t] = FALSE]
    /\ Goto(t, "returned")
    /\ UNCHANGED <<request, transfer, performed, curl_error_code, outcome, crashed>>

Next ==
    /\ ~crashed
    /\ \E t \in Thread :
        \/ Call(t)
        \/ ConvertRequestHeaders(t)
        \/ Setup(t)
        \/ Connect(t)
        \/ CallbackHeader(t)
        \/ CallbackWrite(t)
        \/ TransferBreaks(t)
        \/ TransferEnds(t)
        \/ Assign(t)
        \/ Test(t)
        \/ Exit(t)

Spec == Init /\ [][Next]_vars

-----------------------------------------------------------------------------
(* What the caller gets.                                                    *)

\* The last ETag of the first n header lines.
LastETag(lines, n) ==
    LET at == {i \in 1 .. n : lines[i] \in ETag}
    IN  IF at = {} THEN "none" ELSE lines[CHOOSE i \in at : \A j \in at : j <= i]

\* The answer a reply on the wire amounts to for the request of t.
AnswerTo(t, r) ==
    [status |-> r.status,
     etag   |-> IF wantsHeader[t] THEN LastETag(r.lines, Len(r.lines)) ELSE "none",
     body   |-> IF method[t] = "HEAD" THEN <<>> ELSE Numbered(r.pieces)]

GivenTo(t) == [status |-> http_status[t], etag |-> respHeader[t], body |-> respBody[t]]

Returned(t, code) == pc[t] = "returned" /\ ret[t] = code

\* KII_TRUE means the caller holds the server's reply to this request in full:
\* its status, its last ETag and every piece of the body, in order.
DeliveredWhole ==
    \A t \in Thread : Returned(t, "AEC_OK") =>
        served[t] # NoReply /\ GivenTo(t) = AnswerTo(t, served[t])

\* An exchange that succeeded is not reported as failed: the caller would
\* repeat a request that the server has already carried out.
SuccessIsReported ==
    \A t \in Thread : pc[t] = "returned" /\ performed[t] = "OK" => ret[t] = "AEC_OK"

\* The list of request headers does not outlive the call, whatever failed.
RequestIsFreed == \A t \in Thread : pc[t] = "returned" => ~slist[t]

\* The adapter is an HttpAdapter.
NoAnswer == [status |-> 0, etag |-> "none", body |-> <<>>]
Answers ==
    [status : {r.status : r \in Served}, etag : {"none"} \cup ETag,
     body   : {<<>>} \cup {Numbered(r.pieces) : r \in Served}]

ExchangeState(t) ==
    CASE pc[t] = "idle" -> "idle"
      [] Returned(t, "AEC_OK") -> "succeeded"
      [] pc[t] = "returned" /\ ret[t] # "AEC_OK" -> "failed"
      [] pc[t] \in {"assign", "test", "exit"} /\ performed[t] = "OK" -> "answered"
      [] OTHER -> "asked"
Arrived(t) == IF performed[t] = "OK" THEN AnswerTo(t, served[t]) ELSE NoAnswer
Given(t) == IF Returned(t, "AEC_OK") THEN GivenTo(t) ELSE NoAnswer

Abstract == INSTANCE HttpAdapter WITH
    Answer <- Answers,
    state  <- [t \in Thread |-> ExchangeState(t)],
    answer <- [t \in Thread |-> Arrived(t)],
    given  <- [t \in Thread |-> Given(t)]

ImplementsAdapter == Abstract!Spec

-----------------------------------------------------------------------------
(* What the repository says and the code does not do.                       *)

\* README.md:10-16, on making a thread safe program, asks no more of it than to
\* initialise alone and to share no instance.  These threads share none.
DocUnsharedCallsAreSafe == DeliveredWhole

=============================================================================
