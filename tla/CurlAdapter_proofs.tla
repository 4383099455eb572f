------------------------- MODULE CurlAdapter_proofs -------------------------
(***************************************************************************)
(* Proofs about CurlAdapter, for any replies and ETags and a program that  *)
(* uses the SDK in one thread: then the adapter is an HttpAdapter.         *)
(*                                                                         *)
(* The argument: the callbacks build up the server's reply piece by piece  *)
(* (Built), so that it is whole when libcurl reports success; and with one *)
(* thread curl_error_code still holds what was assigned to it when it is   *)
(* tested (Judged).                                                        *)
(***************************************************************************)
EXTENDS CurlAdapter, TLAPS

\* A program that calls the SDK in one thread only.
OneThread == \A s, t \in Thread : s = t

\* No reply has begun.
Fresh(t) ==
    /\ served[t] = NoReply /\ performed[t] # "OK" /\ ret[t] # "AEC_OK"
    /\ line[t] = 0 /\ piece[t] = 0
    /\ respHeader[t] = "none" /\ respBody[t] = <<>>

\* What the callbacks have stored is what they have taken of the reply.
Built(t) ==
    /\ served[t] \in Served
    /\ line[t] <= Len(served[t].lines) /\ piece[t] <= Pieces(t)
    /\ respHeader[t] = IF wantsHeader[t] THEN LastETag(served[t].lines, line[t]) ELSE "none"
    /\ respHeader[t] \in ETag \cup {"none"}
    /\ respBody[t] = Numbered(piece[t])

Whole(t) ==
    /\ Built(t)
    /\ line[t] = Len(served[t].lines) /\ piece[t] = Pieces(t)

\* The exchange, by the place the thread has reached.
Exchanged(t) ==
    /\ pc[t] \in {"convert", "setup", "connect"} => Fresh(t)
    /\ pc[t] = "transfer" => Built(t) /\ performed[t] # "OK" /\ ret[t] # "AEC_OK"
    /\ pc[t] # "transfer" /\ performed[t] = "OK" => Whole(t)
    /\ pc[t] = "idle" => performed[t] # "OK"

\* What the adapter makes of libcurl's result.
Judged(t) ==
    /\ pc[t] \in {"assign", "test"} => ret[t] # "AEC_OK"
    /\ pc[t] = "test" => curl_error_code = performed[t]
    /\ pc[t] \in {"exit", "returned"} =>
         /\ ret[t] = "AEC_OK" <=> performed[t] = "OK"
         /\ ret[t] = "AEC_OK" => http_status[t] = served[t].status

\* The list of request headers is allocated between "convert" and "exit" only.
Freed(t) == pc[t] \in {"idle", "convert", "returned"} => ~slist[t]

LocalInv(t) == Exchanged(t) /\ Judged(t) /\ Freed(t)

IInv == TypeOK /\ \A t \in Thread : LocalInv(t)

USE ServedAssumption

-----------------------------------------------------------------------------
(* The pieces of a reply.                                                   *)

\* Taking one more piece numbers one more.
LEMMA NumberedAppend ==
    ASSUME NEW n \in Nat PROVE Append(Numbered(n), n + 1) = Numbered(n + 1)
  BY DEF Numbered

\* Numbered pieces are a sequence.
LEMMA NumberedType == ASSUME NEW n \in Nat PROVE Numbered(n) \in Seq(Nat)
  BY DEF Numbered

\* No header line has been taken: no ETag.
LEMMA NoLines == ASSUME NEW lines PROVE LastETag(lines, 0) = "none"
  BY DEF LastETag

\* One more header line: an ETag replaces the one before, another line does not.
LEMMA OneMoreLine ==
    ASSUME NEW lines, NEW n \in Nat
    PROVE  LastETag(lines, n + 1) =
             IF lines[n + 1] \in ETag THEN lines[n + 1] ELSE LastETag(lines, n)
  <1> DEFINE at(k) == {i \in 1 .. k : lines[i] \in ETag}
             lastOf(S) == lines[CHOOSE i \in S : \A j \in S : j <= i]
             last(k) == CHOOSE i \in at(k) : \A j \in at(k) : j <= i
  <1>0. \A k \in {n, n + 1} :
            LastETag(lines, k) = IF at(k) = {} THEN "none" ELSE lastOf(at(k))
    BY Zenon DEF LastETag
  <1>1. CASE lines[n + 1] \in ETag
    <2>1. n + 1 \in at(n + 1) /\ \A j \in at(n + 1) : j <= n + 1
      BY <1>1
    <2>2. last(n + 1) \in at(n + 1) /\ \A j \in at(n + 1) : j <= last(n + 1)
      BY <2>1
    <2>3. last(n + 1) = n + 1
      BY <2>1, <2>2
    <2>4. QED BY <1>1, <2>1, <2>3 DEF LastETag
  <1>2. CASE lines[n + 1] \notin ETag
    <2>1. at(n + 1) = at(n)
      BY <1>2
    <2> HIDE DEF at, lastOf
    <2>2. QED BY <1>0, <1>2, <2>1
  <1>3. QED BY <1>1, <1>2

\* A reply the server sends has a status, which is not zero.
LEMMA ServedType ==
    ASSUME NEW r \in Served
    PROVE  /\ r.status \in Nat \ {0} /\ r.lines \in Seq(ETag \cup {"other"})
           /\ r.pieces \in Nat /\ r # NoReply
  <1>1. r \in [status : Nat \ {0}, lines : Seq(ETag \cup {"other"}), pieces : Nat]
    OBVIOUS
  <1>2. r.status \in Nat \ {0} /\ r.lines \in Seq(ETag \cup {"other"}) /\ r.pieces \in Nat
    BY <1>1
  <1>3. NoReply.status = 0
    BY DEF NoReply
  <1>4. QED BY <1>2, <1>3
-----------------------------------------------------------------------------
(* The steps of the one thread.                                             *)

\* The inductive invariant holds initially.
LEMMA InitIInv == Init => IInv
  <1> SUFFICES ASSUME Init PROVE IInv
    OBVIOUS
  <1>1. respBody \in [Thread -> Seq(Nat)]
    <2>1. <<>> \in Seq(Nat)
      OBVIOUS
    <2>2. QED BY <2>1 DEF Init
  <1>2. served \in [Thread -> Served \cup {NoReply}]
    BY DEF Init
  <1>3. performed \in [Thread -> CurlCode] /\ curl_error_code \in CurlCode
    BY DEF Init, CurlCode
  <1>4. method \in [Thread -> Method]
    BY DEF Init, Method
  <1>5. TypeOK
    BY <1>1, <1>2, <1>3, <1>4 DEF Init, TypeOK
  <1>6. QED BY <1>5 DEF Init, IInv, LocalInv, Exchanged, Judged, Freed

\* A call starts afresh.
LEMMA CallStep == ASSUME OneThread, IInv, NEW t \in Thread, Call(t) PROVE IInv'
  <1>1. TypeOK'
    BY DEF Call, Goto, IInv, TypeOK, CurlCode
  <1>2. LocalInv(t)'
    BY DEF Call, Goto, IInv, TypeOK, LocalInv, Exchanged, Judged, Freed, Fresh
  <1>3. QED BY <1>1, <1>2 DEF IInv, OneThread

\* The request headers are converted, or the call ends.
LEMMA ConvertRequestHeadersStep ==
    ASSUME OneThread, IInv, NEW t \in Thread, ConvertRequestHeaders(t) PROVE IInv'
  <1>1. TypeOK'
    BY DEF ConvertRequestHeaders, Goto, Leave, request, transfer, IInv, TypeOK
  <1>2. LocalInv(t)'
    BY DEF ConvertRequestHeaders, Goto, Leave, request, transfer, IInv, TypeOK, LocalInv,
           Exchanged, Judged, Freed, Fresh
  <1>3. QED BY <1>1, <1>2 DEF IInv, OneThread

\* The handle is set up, or PATCH finds no memory for its header.
LEMMA SetupStep == ASSUME OneThread, IInv, NEW t \in Thread, Setup(t) PROVE IInv'
  <1>1. TypeOK'
    BY DEF Setup, Goto, Leave, request, transfer, IInv, TypeOK, CurlCode
  <1>2. LocalInv(t)'
    BY DEF Setup, Goto, Leave, request, transfer, IInv, TypeOK, LocalInv,
           Exchanged, Judged, Freed, Fresh
  <1>3. QED BY <1>1, <1>2 DEF IInv, OneThread

\* A reply begins, or none does.
LEMMA ConnectStep == ASSUME OneThread, IInv, NEW t \in Thread, Connect(t) PROVE IInv'
  <1>1. TypeOK'
    <2>1. TypeOK
      BY DEF IInv
    <2>2. served' \in [Thread -> Served \cup {NoReply}]
      <3>1. served' = served \/ \E r \in Served : served' = [served EXCEPT ![t] = r]
        BY Zenon DEF Connect
      <3>2. served \in [Thread -> Served \cup {NoReply}]
        BY <2>1 DEF TypeOK
      <3>3. ASSUME NEW r \in Served, served' = [served EXCEPT ![t] = r]
            PROVE  served' \in [Thread -> Served \cup {NoReply}]
        BY <3>2, <3>3
      <3>4. QED BY <3>1, <3>2, <3>3
    <2>3. performed' \in [Thread -> CurlCode]
      BY <2>1 DEF Connect, Perform, TypeOK, CurlCode
    <2>4. QED BY <2>1, <2>2, <2>3 DEF Connect, Perform, Goto, request, outcome, TypeOK
  <1>2. LocalInv(t)'
    <2>1. Fresh(t) /\ pc[t] = "connect"
      BY DEF Connect, IInv, LocalInv, Exchanged
    <2>2. CASE /\ \E r \in Served : served' = [served EXCEPT ![t] = r]
               /\ Goto(t, "transfer")
               /\ UNCHANGED performed
      <3>1. PICK r \in Served : served' = [served EXCEPT ![t] = r]
        BY <2>2
      <3>2. r.lines \in Seq(ETag \cup {"other"}) /\ r.pieces \in Nat
        BY ServedType
      <3>3. Numbered(0) = <<>>
        BY DEF Numbered
      <3>4. Built(t)'
        BY <2>1, <3>1, <3>2, <3>3, NoLines
        DEF Built, Fresh, Pieces, Connect, request, IInv, TypeOK
      <3>5. QED
        BY <2>1, <2>2, <3>4
        DEF Fresh, Connect, Goto, outcome, IInv, TypeOK, LocalInv, Exchanged, Judged, Freed
    <2>3. CASE Perform(t, "COULDNT_CONNECT") /\ UNCHANGED served
      BY <2>1, <2>3
      DEF Fresh, Connect, Perform, Goto, outcome, IInv, TypeOK, LocalInv, Exchanged, Judged,
          Freed
    <2>4. QED BY <2>2, <2>3 DEF Connect
  <1>3. QED BY <1>1, <1>2 DEF IInv, OneThread

\* libcurl gives up: whatever was stored, the call will not be a success.
LEMMA GiveUp ==
    ASSUME IInv, NEW t \in Thread, NEW code \in CurlCode \ {"OK"},
           pc[t] = "transfer", Perform(t, code), UNCHANGED <<slist, outcome>>
    PROVE  LocalInv(t)'
  BY DEF Perform, Goto, outcome, IInv, TypeOK, LocalInv, Exchanged, Judged, Freed

\* A header line is taken.
LEMMA CallbackHeaderStep ==
    ASSUME OneThread, IInv, NEW t \in Thread, CallbackHeader(t) PROVE IInv'
  <1> DEFINE text == served[t].lines[line[t] + 1]
             stored == wantsHeader[t] /\ text \in ETag
  <1>1. /\ pc[t] = "transfer" /\ Built(t) /\ TypeOK /\ line[t] < Len(served[t].lines)
        /\ performed[t] # "OK" /\ ret[t] # "AEC_OK"
    BY DEF CallbackHeader, IInv, LocalInv, Exchanged
  <1>2. CASE /\ line' = [line EXCEPT ![t] = @ + 1]
             /\ respHeader' = IF stored THEN [respHeader EXCEPT ![t] = text] ELSE respHeader
             /\ UNCHANGED <<pc, performed>>
    <2>1. TypeOK'
      BY <1>1, <1>2 DEF CallbackHeader, request, outcome, TypeOK
    <2>2. Built(t)'
      <3>1. LastETag(served[t].lines, line[t] + 1) =
              IF text \in ETag THEN text ELSE LastETag(served[t].lines, line[t])
        BY <1>1, OneMoreLine DEF TypeOK
      <3>2. line'[t] = line[t] + 1 /\ line[t] \in Nat /\ Len(served[t].lines) \in Nat
        BY <1>1, <1>2, ServedType DEF TypeOK, Built
      <3>3. respHeader'[t] = IF stored THEN text ELSE respHeader[t]
        BY <1>1, <1>2 DEF TypeOK
      <3>4. UNCHANGED <<served, wantsHeader, method, piece, respBody>>
        BY DEF CallbackHeader, request
      <3> HIDE DEF text
      <3>5. QED BY <1>1, <3>1, <3>2, <3>3, <3>4 DEF Built, Pieces
    <2>3. LocalInv(t)'
      BY <1>1, <1>2, <2>2 DEF CallbackHeader, outcome, IInv, LocalInv, Exchanged, Judged, Freed
    <2>4. QED BY <2>1, <2>3 DEF IInv, OneThread
  <1>3. CASE /\ Perform(t, "WRITE_ERROR")
             /\ \/ UNCHANGED respHeader
                \/ respHeader' = [respHeader EXCEPT ![t] = "empty"]
             /\ UNCHANGED line
    <2>1. TypeOK'
      BY <1>1, <1>3 DEF CallbackHeader, Perform, Goto, request, outcome, TypeOK, CurlCode
    <2>2. LocalInv(t)'
      BY <1>1, <1>3, GiveUp DEF CallbackHeader, CurlCode
    <2>3. QED BY <2>1, <2>2 DEF IInv, OneThread
  <1>4. QED BY <1>2, <1>3 DEF CallbackHeader

\* A piece of the body is taken.
LEMMA CallbackWriteStep ==
    ASSUME OneThread, IInv, NEW t \in Thread, CallbackWrite(t) PROVE IInv'
  <1>1. /\ pc[t] = "transfer" /\ Built(t) /\ TypeOK /\ piece[t] < Pieces(t)
        /\ performed[t] # "OK" /\ ret[t] # "AEC_OK"
    BY DEF CallbackWrite, AtBody, IInv, LocalInv, Exchanged
  <1>2. CASE /\ respBody' = [respBody EXCEPT ![t] = Append(@, piece[t] + 1)]
             /\ piece' = [piece EXCEPT ![t] = @ + 1]
             /\ UNCHANGED <<pc, performed, crashed>>
    <2>1. piece[t] \in Nat /\ Pieces(t) \in Nat
      BY <1>1, ServedType DEF TypeOK, Built, Pieces
    <2>2. respBody'[t] = Numbered(piece[t] + 1) /\ piece'[t] = piece[t] + 1
      <3>1. Append(respBody[t], piece[t] + 1) = Numbered(piece[t] + 1)
        BY <1>1, <2>1, NumberedAppend DEF Built
      <3>2. QED BY <1>1, <1>2, <3>1 DEF TypeOK
    <2>3. TypeOK'
      <3>1. respBody' \in [Thread -> Seq(Nat)]
        BY <1>1, <1>2, <2>1 DEF TypeOK
      <3>2. piece' \in [Thread -> Nat]
        BY <1>1, <1>2, <2>1 DEF TypeOK
      <3>3. QED BY <1>1, <1>2, <3>1, <3>2 DEF CallbackWrite, request, outcome, TypeOK
    <2>4. Built(t)'
      BY <1>1, <2>1, <2>2 DEF CallbackWrite, request, Built, Pieces
    <2>5. LocalInv(t)'
      BY <1>1, <1>2, <2>4 DEF CallbackWrite, outcome, IInv, LocalInv, Exchanged, Judged, Freed
    <2>6. QED BY <2>3, <2>5 DEF IInv, OneThread
  <1>3. CASE Perform(t, "WRITE_ERROR") /\ UNCHANGED <<piece, respBody, crashed>>
    <2>1. TypeOK'
      BY <1>1, <1>3 DEF CallbackWrite, Perform, Goto, request, outcome, TypeOK, CurlCode
    <2>2. LocalInv(t)'
      BY <1>1, <1>3, GiveUp DEF CallbackWrite, CurlCode
    <2>3. QED BY <2>1, <2>2 DEF IInv, OneThread
  <1>4. CASE crashed' = TRUE /\ UNCHANGED <<pc, piece, respBody, performed>>
    <2>1. TypeOK'
      BY <1>1, <1>4 DEF CallbackWrite, request, outcome, TypeOK
    <2>2. LocalInv(t)'
      BY <1>1, <1>4 DEF CallbackWrite, request, outcome, IInv, LocalInv, Exchanged, Judged,
                        Freed, Built, Pieces
    <2>3. QED BY <2>1, <2>2 DEF IInv, OneThread
  <1>5. QED BY <1>2, <1>3, <1>4 DEF CallbackWrite

\* The transfer breaks, or ends with the reply whole.
LEMMA TransferStep ==
    ASSUME OneThread, IInv, NEW t \in Thread, TransferBreaks(t) \/ TransferEnds(t)
    PROVE  IInv'
  <1>1. pc[t] = "transfer" /\ Built(t) /\ TypeOK
    BY DEF TransferBreaks, TransferEnds, AtBody, IInv, LocalInv, Exchanged
  <1>2. TypeOK'
    BY <1>1 DEF TransferBreaks, TransferEnds, Perform, Goto, request, transfer, outcome,
                TypeOK, CurlCode
  <1>3. CASE TransferBreaks(t)
    BY <1>1, <1>2, <1>3, GiveUp DEF TransferBreaks, CurlCode, IInv, OneThread
  <1>4. CASE TransferEnds(t)
    <2>1. Whole(t)'
      BY <1>1, <1>4 DEF TransferEnds, AtBody, request, transfer, Whole, Built, Pieces
    <2>2. LocalInv(t)'
      BY <1>1, <1>4, <2>1 DEF TransferEnds, Perform, Goto, outcome, IInv, TypeOK, LocalInv,
                              Exchanged, Judged, Freed
    <2>3. QED BY <1>2, <2>2 DEF IInv, OneThread
  <1>5. QED BY <1>3, <1>4
\* What the exchange has built stays as it is after the transfer.
LEMMA AfterTransfer ==
    ASSUME NEW t \in Thread, UNCHANGED <<request, transfer>>
    PROVE  Whole(t)' <=> Whole(t)
  BY DEF request, transfer, Whole, Built, Pieces

\* The variable of the process gets the result of this exchange.
LEMMA AssignStep == ASSUME OneThread, IInv, NEW t \in Thread, Assign(t) PROVE IInv'
  <1>1. TypeOK'
    BY DEF Assign, Goto, request, transfer, outcome, IInv, TypeOK
  <1>2. LocalInv(t)'
    BY AfterTransfer DEF Assign, Goto, outcome, IInv, TypeOK, LocalInv, Exchanged, Judged,
                         Freed
  <1>3. QED BY <1>1, <1>2 DEF IInv, OneThread

\* The test finds it there.
LEMMA TestStep == ASSUME OneThread, IInv, NEW t \in Thread, Test(t) PROVE IInv'
  <1>1. TypeOK /\ pc[t] = "test" /\ curl_error_code = performed[t] /\ Freed(t)
        /\ (performed[t] = "OK" => Whole(t))
    BY DEF Test, IInv, LocalInv, Judged, Exchanged
  <1>2. served[t].status \in Nat
    BY <1>1, ServedType DEF TypeOK, NoReply
  <1>3. TypeOK'
    BY <1>1, <1>2 DEF Test, Leave, Goto, request, transfer, TypeOK
  <1>4. Exchanged(t)'
    BY <1>1, AfterTransfer DEF Test, Leave, Goto, TypeOK, Exchanged
  <1>5. Judged(t)' /\ Freed(t)'
    BY <1>1 DEF Test, Leave, Goto, transfer, TypeOK, Judged, Freed
  <1>6. QED BY <1>3, <1>4, <1>5 DEF IInv, LocalInv, OneThread

\* The list is freed on every way out.
LEMMA ExitStep == ASSUME OneThread, IInv, NEW t \in Thread, Exit(t) PROVE IInv'
  <1>1. TypeOK'
    BY DEF Exit, Goto, request, transfer, outcome, IInv, TypeOK
  <1>2. LocalInv(t)'
    BY AfterTransfer DEF Exit, Goto, transfer, outcome, IInv, TypeOK, LocalInv, Exchanged,
                         Judged, Freed
  <1>3. QED BY <1>1, <1>2 DEF IInv, OneThread

\* Every step keeps the invariant.
LEMMA NextStep == ASSUME OneThread, IInv, [Next]_vars PROVE IInv'
  <1>1. CASE UNCHANGED vars
    BY <1>1 DEF vars, request, transfer, outcome, IInv, TypeOK, LocalInv, Exchanged, Judged,
                Freed, Fresh, Whole, Built, Pieces
  <1>2. CASE Next
    BY <1>2, CallStep, ConvertRequestHeadersStep, SetupStep, ConnectStep, CallbackHeaderStep,
       CallbackWriteStep, TransferStep, AssignStep, TestStep, ExitStep
    DEF Next
  <1>3. QED BY <1>1, <1>2

\* The inductive invariant is one.
THEOREM CurlInvariance == ASSUME OneThread PROVE Spec => []IInv
  <1>1. Init => IInv
    BY InitIInv
  <1>2. IInv /\ [Next]_vars => IInv'
    BY NextStep
  <1>3. QED BY <1>1, <1>2, PTL DEF Spec

-----------------------------------------------------------------------------
(* What one thread can rely on.                                             *)

\* A whole reply, handed over, is the answer to the request.
LEMMA GivenWhole ==
    ASSUME TypeOK, NEW t \in Thread, Whole(t), http_status[t] = served[t].status
    PROVE  GivenTo(t) = AnswerTo(t, served[t])
  <1>1. Numbered(0) = <<>>
    BY DEF Numbered
  <1>2. QED BY <1>1 DEF Whole, Built, Pieces, GivenTo, AnswerTo

\* A success delivers the server's whole reply to this request.
THEOREM DeliversWhole == ASSUME OneThread PROVE Spec => []DeliveredWhole
  <1>1. IInv => DeliveredWhole
    BY GivenWhole, ServedType
    DEF IInv, LocalInv, Exchanged, Judged, Whole, Built, DeliveredWhole, Returned
  <1>2. QED BY <1>1, CurlInvariance, PTL

\* A success is not reported as a failure.
THEOREM ReportsSuccess == ASSUME OneThread PROVE Spec => []SuccessIsReported
  <1>1. IInv => SuccessIsReported
    BY DEF IInv, LocalInv, Judged, SuccessIsReported
  <1>2. QED BY <1>1, CurlInvariance, PTL

\* No list of request headers is left behind.
THEOREM FreesRequest == ASSUME OneThread PROVE Spec => []RequestIsFreed
  <1>1. IInv => RequestIsFreed
    BY DEF IInv, LocalInv, Freed, RequestIsFreed
  <1>2. QED BY <1>1, CurlInvariance, PTL
-----------------------------------------------------------------------------
(* The adapter is an HttpAdapter.                                           *)

\* The answer that arrives is one an HttpAdapter may be given.
LEMMA AnswersType ==
    ASSUME TypeOK, NEW t \in Thread, Whole(t) PROVE AnswerTo(t, served[t]) \in Answers
  <1>1. served[t] \in Served /\ AnswerTo(t, served[t]).etag \in {"none"} \cup ETag
    BY DEF Whole, Built, AnswerTo
  <1>2. AnswerTo(t, served[t]).body \in {<<>>} \cup {Numbered(r.pieces) : r \in Served}
    BY <1>1 DEF AnswerTo
  <1>3. AnswerTo(t, served[t]).status \in {r.status : r \in Served}
    BY <1>1 DEF AnswerTo
  <1>4. QED BY <1>1, <1>2, <1>3 DEF AnswerTo, Answers

\* With one thread, the abstract variables are functions of a single value.
LEMMA OneValue ==
    ASSUME OneThread, NEW t \in Thread
    PROVE  /\ \A v : ExchangeState(t)' = v =>
                [s \in Thread |-> ExchangeState(s)]' =
                    [[s \in Thread |-> ExchangeState(s)] EXCEPT ![t] = v]
           /\ \A v : Arrived(t)' = v =>
                [s \in Thread |-> Arrived(s)]' = [[s \in Thread |-> Arrived(s)] EXCEPT ![t] = v]
           /\ \A v : Given(t)' = v =>
                [s \in Thread |-> Given(s)]' = [[s \in Thread |-> Given(s)] EXCEPT ![t] = v]
  BY DEF OneThread
\* A step that changes none of the three values stutters.
LEMMA Stutters ==
    ASSUME OneThread, NEW t \in Thread,
           ExchangeState(t)' = ExchangeState(t), Arrived(t)' = Arrived(t), Given(t)' = Given(t)
    PROVE  UNCHANGED Abstract!vars
  BY DEF OneThread, Abstract!vars

\* A call asks.
LEMMA CallAsks == ASSUME OneThread, IInv, NEW t \in Thread, Call(t) PROVE Abstract!Ask(t)
  <1>1. ExchangeState(t) \in {"idle", "succeeded", "failed"}
    BY DEF Call, ExchangeState, Returned
  <1>2. ExchangeState(t)' = "asked"
    BY DEF Call, Goto, IInv, TypeOK, ExchangeState, Returned
  <1>3. Arrived(t)' = NoAnswer /\ Given(t)' = NoAnswer
    BY DEF Call, Goto, IInv, TypeOK, Arrived, Given, Returned
  <1>4. QED BY <1>1, <1>2, <1>3, OneValue DEF Abstract!Ask

\* The end of a transfer is the arrival of the answer.
LEMMA EndArrives ==
    ASSUME OneThread, IInv, IInv', NEW t \in Thread, TransferEnds(t) PROVE Abstract!Arrive(t)
  <1>1. ExchangeState(t) = "asked" /\ ExchangeState(t)' = "answered"
    BY DEF TransferEnds, AtBody, Perform, Goto, IInv, TypeOK, ExchangeState, Returned
  <1>2. Arrived(t)' \in Answers
    <2>1. Whole(t) /\ TypeOK
      BY DEF TransferEnds, AtBody, IInv, LocalInv, Exchanged, Whole
    <2>2. Arrived(t)' = AnswerTo(t, served[t])
      BY <2>1 DEF TransferEnds, Perform, request, transfer, TypeOK, Arrived, AnswerTo
    <2>3. QED BY <2>1, <2>2, AnswersType
  <1>3. Given(t)' = Given(t)
    BY DEF TransferEnds, AtBody, Perform, Goto, IInv, TypeOK, Given, Returned
  <1>4. QED BY <1>1, <1>2, <1>3, OneValue DEF Abstract!Arrive, OneThread

\* The return is a success when the answer arrived, a failure when it did not.
LEMMA ExitReturns ==
    ASSUME OneThread, IInv, NEW t \in Thread, Exit(t)
    PROVE  Abstract!Succeed(t) \/ Abstract!Fail(t)
  <1>1. pc'[t] = "returned" /\ UNCHANGED <<request, transfer, performed, outcome>>
    BY DEF Exit, Goto, IInv, TypeOK
  <1>2. Arrived(t)' = Arrived(t)
    BY <1>1 DEF request, transfer, Arrived, AnswerTo
  <1>3. CASE ret[t] = "AEC_OK"
    <2>1. performed[t] = "OK" /\ Whole(t) /\ http_status[t] = served[t].status
      BY <1>3 DEF Exit, IInv, LocalInv, Exchanged, Judged
    <2>2. ExchangeState(t) = "answered" /\ ExchangeState(t)' = "succeeded"
      BY <1>1, <1>3, <2>1 DEF Exit, outcome, ExchangeState, Returned
    <2>3. Given(t)' = Arrived(t)
      BY <1>1, <1>3, <2>1, GivenWhole
      DEF IInv, request, transfer, outcome, Given, GivenTo, Arrived, Returned
    <2>4. [s \in Thread |-> Arrived(s)]' = [s \in Thread |-> Arrived(s)]
      BY <1>2 DEF OneThread
    <2>5. QED BY <2>2, <2>3, <2>4, OneValue DEF Abstract!Succeed
  <1>4. CASE ret[t] # "AEC_OK"
    <2>1. performed[t] # "OK"
      BY <1>4 DEF Exit, IInv, LocalInv, Judged
    <2>2. ExchangeState(t) = "asked" /\ ExchangeState(t)' = "failed"
      BY <1>1, <1>4, <2>1 DEF Exit, outcome, ExchangeState, Returned
    <2>3. Given(t)' = Given(t)
      BY <1>1, <1>4 DEF outcome, Given, Returned
    <2>4. QED BY <1>2, <2>2, <2>3, OneValue DEF Abstract!Fail, OneThread
  <1>5. QED BY <1>3, <1>4

\* The steps in between are the adapter's own.
LEMMA OthersStutter ==
    ASSUME OneThread, IInv, IInv', NEW t \in Thread,
           \/ ConvertRequestHeaders(t) \/ Setup(t) \/ Connect(t) \/ CallbackHeader(t)
           \/ CallbackWrite(t) \/ TransferBreaks(t) \/ Assign(t) \/ Test(t)
    PROVE  UNCHANGED Abstract!vars
  <1>1. pc[t] \in {"convert", "setup", "connect", "transfer", "assign", "test"}
    BY DEF ConvertRequestHeaders, Setup, Connect, CallbackHeader, CallbackWrite, AtBody,
           TransferBreaks, Assign, Test
  <1>2. pc'[t] \in {"setup", "connect", "transfer", "assign", "test", "exit"}
    BY DEF ConvertRequestHeaders, Setup, Connect, CallbackHeader, CallbackWrite, AtBody,
           TransferBreaks, Assign, Test, Perform, Leave, Goto, IInv, TypeOK
  <1>3. Given(t)' = Given(t)
    BY <1>1, <1>2 DEF Given, Returned
  <1>4. CASE pc[t] \in {"assign", "test"}
    <2>1. UNCHANGED <<request, served, performed>> /\ pc'[t] \in {"test", "exit"}
      BY <1>4 DEF ConvertRequestHeaders, Setup, Connect, CallbackHeader, CallbackWrite, AtBody,
                  TransferBreaks, Assign, Test, Leave, Goto, IInv, TypeOK, transfer
    <2>2. Arrived(t)' = Arrived(t)
      BY <2>1 DEF Arrived, AnswerTo, request
    <2>3. ExchangeState(t)' = ExchangeState(t)
      BY <1>4, <2>1 DEF ExchangeState, Returned
    <2>4. QED BY <1>3, <2>2, <2>3, Stutters
  <1>5. CASE pc[t] \in {"convert", "setup", "connect", "transfer"}
    <2>1. performed[t] # "OK"
      BY <1>5 DEF IInv, LocalInv, Exchanged, Fresh
    <2>2. performed'[t] # "OK"
      BY <1>5, <2>1 DEF ConvertRequestHeaders, Setup, Connect, CallbackHeader, CallbackWrite,
                  AtBody, TransferBreaks, Assign, Test, Perform, IInv, TypeOK
    <2>3. Arrived(t)' = Arrived(t)
      BY <2>1, <2>2 DEF Arrived
    <2>4. ExchangeState(t)' = ExchangeState(t)
      BY <1>1, <1>2, <2>1, <2>2 DEF ExchangeState, Returned
    <2>5. QED BY <1>3, <2>3, <2>4, Stutters
  <1>6. QED BY <1>1, <1>4, <1>5

\* Used from one thread, the adapter implements HttpAdapter.
THEOREM CurlImplementsAdapter == ASSUME OneThread PROVE Spec => ImplementsAdapter
  <1>1. Init => Abstract!Init
    BY DEF Init, Abstract!Init, ExchangeState, Arrived, Given, Returned
  <1>2. IInv /\ IInv' /\ [Next]_vars => [Abstract!Next]_(Abstract!vars)
    <2>1. SUFFICES ASSUME IInv, IInv', [Next]_vars PROVE [Abstract!Next]_(Abstract!vars)
      OBVIOUS
    <2>2. CASE UNCHANGED vars
      BY <2>2 DEF vars, request, transfer, outcome, Abstract!vars, ExchangeState, Arrived,
                  Given, GivenTo, AnswerTo, Returned
    <2>3. CASE Next
      BY <2>1, <2>3, CallAsks, EndArrives, ExitReturns, OthersStutter
      DEF Next, Abstract!Next
    <2>4. QED BY <2>1, <2>2, <2>3
  <1>3. QED
    BY <1>1, <1>2, CurlInvariance, PTL DEF Spec, Abstract!Spec, ImplementsAdapter
=============================================================================
