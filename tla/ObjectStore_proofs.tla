------------------------- MODULE ObjectStore_proofs -------------------------
(***************************************************************************)
(* The object store is proved to keep HeldIsAVersion and NoLostUpdate and  *)
(* to implement SharedObject, for any threads, any number of calls, any of *)
(* the five calls and any status codes.                                    *)
(*                                                                         *)
(* The argument rests on the numbers of the calls.  A request is under way *)
(* at most once and then it is in the history at most once, so a reply     *)
(* that a caller still waits for speaks of one version (AnsweredTruly):    *)
(* the one its own request made or, for a read, saw.  What a request with  *)
(* an ETag carries is that version with its own update added (Formed), and *)
(* the server takes it only while that version is the last.                *)
(***************************************************************************)
EXTENDS ObjectStore, FiniteSetTheorems, TLAPS

-----------------------------------------------------------------------------
(* The inductive invariant.                                                 *)

Entry == [change : Request, exists : BOOLEAN, contents : SUBSET Update]

\* There is a number for each version and each request under way.
Counted == IsFiniteSet(network) /\ Len(history) + Cardinality(network) <= calls

\* Numbers are given out in order.
Numbered ==
    /\ \A q \in network : q.id <= calls
    /\ \A t \in Thread : request[t].id <= calls
    /\ \A i \in DOMAIN history : history[i].change.id <= calls

\* A request is served at most once.
TakesEffectOnce ==
    /\ \A q \in network, i \in DOMAIN history : history[i].change.id # q.id
    /\ \A i, j \in DOMAIN history : history[i].change.id = history[j].change.id => i = j

\* A number names one request.
NamesOne ==
    /\ \A p, q \in network : p.id = q.id => p = q
    /\ \A t \in Thread, q \in network : q.id = request[t].id => q = request[t]

\* A version to build on, with these contents.
IsVersion(etag, contents) ==
    /\ etag \in DOMAIN history
    /\ history[etag].exists
    /\ history[etag].contents = contents

\* What a request carries.
Formed(q) ==
    /\ q.headers = Precondition(q.call)
    /\ IF q.call.ifMatch
       THEN /\ IsVersion(q.etag, history[q.etag].contents)
            /\ q.contents = {q.id} \cup history[q.etag].contents
       ELSE q.etag = 0 /\ q.contents = {q.id}

\* What a reply says of the history.
AnsweredTruly(t) ==
    pc[t] = "asked" /\ reply[t] # NoMessage =>
        /\ request[t] \notin network
        /\ ~Success(reply[t].status) =>
              \A i \in DOMAIN history : history[i].change.id # request[t].id
        /\ Success(reply[t].status) =>
              /\ reply[t].etag \in DOMAIN history
              /\ request[t].call.op # "get" => history[reply[t].etag].change = request[t]
              /\ request[t].call.op = "get" => IsVersion(reply[t].etag, reply[t].contents)
              /\ request[t].call.op \notin {"get", "delete"} =>
                    IsVersion(reply[t].etag, request[t].contents)

\* A caller who waits has asked.
HasAsked(t) == pc[t] = "asked" => request[t] # NoRequest

\* Nothing is left of a deleted object.
GoneIsEmpty == \A i \in DOMAIN history : ~history[i].exists => history[i].contents = {}

StoreInv ==
    /\ TypeOK /\ Counted /\ Numbered /\ NamesOne /\ TakesEffectOnce
    /\ \A q \in network : Formed(q)
    /\ \A t \in Thread : HasAsked(t) /\ AnsweredTruly(t)
    /\ GoneIsEmpty
    /\ HeldIsAVersion /\ NoLostUpdate

-----------------------------------------------------------------------------
(* What the operators do.                                                   *)

\* The fields of a request.
LEMMA RequestFields ==
    ASSUME NEW q \in Request
    PROVE  /\ q.id \in Update /\ q.id \in Nat /\ q.id > 0
           /\ q.call \in Call /\ q.etag \in 0 .. MaxCalls /\ q.contents \in SUBSET Update
  <1>1. q.id \in 1 .. MaxCalls
    BY DEF Request, Update
  <1>2. q.call \in Call /\ q.etag \in 0 .. MaxCalls /\ q.contents \in SUBSET Update
    BY DEF Request
  <1>3. QED BY <1>1, <1>2, StoreAssumption DEF Update

\* No request is NoRequest.
LEMMA NoRequestIsNone == NoRequest \notin Request /\ NoRequest.id = 0
  BY RequestFields DEF NoRequest

\* No message is NoMessage.
LEMMA NoMessageIsNone == NoMessage \notin Message
  BY ExchangeAssumption DEF NoMessage, Message

\* The fields of a call on the object.
LEMMA CallFields ==
    ASSUME NEW c \in Call
    PROVE  /\ c.op \in {"createWithId", "patch", "replace", "get", "delete"}
           /\ c.ifMatch \in BOOLEAN
           /\ c.ifMatch => c.op \in {"patch", "replace"}
           /\ Precondition(c) \in SUBSET {"if-match", "if-none-match"}
           /\ "if-match" \in Precondition(c) <=> c.ifMatch
           /\ "if-none-match" \in Precondition(c)
                <=> c.op = "createWithId" \/ (c.op = "patch" /\ ~c.ifMatch)
  <1>1. c.op \in {"createWithId", "patch", "replace", "get", "delete"} /\ c.ifMatch \in BOOLEAN
    BY StoreAssumption DEF Call
  <1>2. c.ifMatch => c.op \in {"patch", "replace"}
    BY DEF Call, TakesEtag
  <1>3. QED BY <1>1, <1>2 DEF Precondition

\* Appending to a sequence.
LEMMA Appended ==
    ASSUME NEW S, NEW h \in Seq(S), NEW e \in S, NEW k, k = Append(h, e)
    PROVE  /\ k \in Seq(S) /\ Len(h) \in Nat /\ Len(k) = Len(h) + 1
           /\ DOMAIN h = 1 .. Len(h)
           /\ DOMAIN k = DOMAIN h \cup {Len(k)} /\ Len(k) \notin DOMAIN h
           /\ k[Len(k)] = e
           /\ \A i \in DOMAIN h : k[i] = h[i]
  <1>1. /\ k \in Seq(S) /\ Len(h) \in Nat /\ Len(k) = Len(h) + 1
        /\ DOMAIN h = 1 .. Len(h) /\ DOMAIN k = 1 .. Len(k)
    OBVIOUS
  <1>2. DOMAIN k = DOMAIN h \cup {Len(k)} /\ Len(k) \notin DOMAIN h
    BY <1>1
  <1>3. k[Len(k)] = e
    BY <1>1
  <1>4. ASSUME NEW i \in DOMAIN h PROVE k[i] = h[i]
    BY <1>1, <1>4
  <1>5. QED BY <1>1, <1>2, <1>3, <1>4

\* What the object is now.
LEMMA Present ==
    ASSUME TypeOK
    PROVE  /\ Version \in Nat /\ DOMAIN history = 1 .. Version
           /\ Version > 0 <=> Version \in DOMAIN history
           /\ Exists \in BOOLEAN /\ Contents \in SUBSET Update
           /\ Exists => IsVersion(Version, Contents)
           /\ \A i \in DOMAIN history : history[i] \in Entry
  <1>1. history \in Seq(Entry)
    BY DEF TypeOK, Entry
  <1>2. Version \in Nat /\ DOMAIN history = 1 .. Version
    BY <1>1 DEF Version
  <1>3. \A i \in DOMAIN history : history[i] \in Entry
    BY <1>1, <1>2
  <1>4. Version > 0 <=> Version \in DOMAIN history
    BY <1>2
  <1>5. Exists \in BOOLEAN
    BY <1>3, <1>4 DEF Exists, Entry
  <1>6. Exists => history[Version] \in Entry /\ Contents = history[Version].contents
    BY <1>3, <1>4 DEF Exists, Contents
  <1>7. Contents \in SUBSET Update
    BY <1>6 DEF Contents, Entry
  <1>8. Exists => IsVersion(Version, Contents)
    BY <1>4, <1>6 DEF Exists, IsVersion
  <1>9. QED BY <1>2, <1>3, <1>4, <1>5, <1>7, <1>8

\* A version that a request makes.
LEMMA WrittenType ==
    ASSUME TypeOK, NEW q \in Request
    PROVE  /\ Written(q) \in Entry /\ Written(q).change = q
           /\ Written(q).exists <=> q.call.op # "delete"
           /\ q.call.op = "patch" => Written(q).contents = Contents \cup {q.id}
           /\ q.call.op = "delete" => Written(q).contents = {}
           /\ q.call.op \notin {"patch", "delete"} => Written(q).contents = q.contents
  <1>1. q.id \in Update /\ q.contents \in SUBSET Update /\ Contents \in SUBSET Update
    BY RequestFields, Present
  <1> DEFINE made == CASE q.call.op = "patch"  -> Contents \cup {q.id}
                       [] q.call.op = "delete" -> {}
                       [] OTHER                -> q.contents
  <1>2. /\ made \in SUBSET Update
        /\ q.call.op = "patch" => made = Contents \cup {q.id}
        /\ q.call.op = "delete" => made = {}
        /\ q.call.op \notin {"patch", "delete"} => made = q.contents
    BY <1>1
  <1>3. PICK left \in BOOLEAN : left = (q.call.op # "delete")
    OBVIOUS
  <1>4. Written(q) = [change |-> q, exists |-> left, contents |-> made]
    BY <1>3, Zenon DEF Written
  <1> HIDE DEF made
  <1>5. /\ Written(q) \in Entry /\ Written(q).change = q
        /\ Written(q).exists = left /\ Written(q).contents = made
    BY <1>2, <1>4 DEF Entry
  <1>6. Written(q).exists <=> q.call.op # "delete"
    BY <1>3, <1>5, Zenon
  <1>7. QED BY <1>2, <1>5, <1>6

-----------------------------------------------------------------------------
(* What the actions do.                                                     *)

\* A call that asks with the request q.
AsksWith(t, q) ==
    /\ pc[t] # "asked" /\ calls < MaxCalls /\ calls' = calls + 1
    /\ q \in Request /\ q.id = calls + 1 /\ q.headers = Precondition(q.call)
    /\ q.call.ifMatch =>
          held[t].etag # 0 /\ q.etag = held[t].etag /\ q.contents = {q.id} \cup held[t].contents
    /\ ~q.call.ifMatch => q.etag = 0 /\ q.contents = {q.id}
    /\ request' = [request EXCEPT ![t] = q]
    /\ reply' = [reply EXCEPT ![t] = NoMessage]
    /\ \/ /\ network' = network \cup {q}
          /\ pc' = [pc EXCEPT ![t] = "asked"]
          /\ outcome' = [outcome EXCEPT ![t] = NoOutcome]
       \/ /\ network' = network
          /\ pc' = [pc EXCEPT ![t] = "returned"]
          /\ outcome' = [outcome EXCEPT ![t] = [ret |-> "LOWMEMORY", status |-> 0]]
    /\ history' = history /\ held' = held

\* A new call has such a request.
LEMMA Asking ==
    ASSUME TypeOK, NEW t \in Thread, Ask(t)
    PROVE  \E q : AsksWith(t, q)
  <1>1. PICK c \in Call :
          /\ c.ifMatch => held[t].etag # 0
          /\ request' = [request EXCEPT ![t] =
                            [id |-> calls + 1, call |-> c, headers |-> Precondition(c),
                             etag |-> IF c.ifMatch THEN held[t].etag ELSE 0,
                             contents |-> Believed(t, c)]]
    BY DEF Ask
  <1>2. /\ pc[t] # "asked" /\ calls < MaxCalls /\ calls' = calls + 1
        /\ calls \in Nat /\ calls + 1 \in Update
    BY StoreAssumption DEF Ask, TypeOK, Update
  <1>3. held[t].etag \in 0 .. MaxCalls /\ held[t].contents \in SUBSET Update
    BY DEF TypeOK
  <1>4. PICK e \in 0 .. MaxCalls : e = IF c.ifMatch THEN held[t].etag ELSE 0
    BY <1>3, StoreAssumption
  <1>5. PICK b \in SUBSET Update : b = Believed(t, c)
    BY <1>2, <1>3 DEF Believed
  <1>6. PICK q : q = [id |-> calls + 1, call |-> c, headers |-> Precondition(c),
                      etag |-> e, contents |-> b]
    OBVIOUS
  <1>7. /\ q.id = calls + 1 /\ q.call = c /\ q.headers = Precondition(c) /\ q.etag = e
        /\ q.contents = b
    BY <1>6
  <1>8. Precondition(c) \in SUBSET {"if-match", "if-none-match"}
    BY CallFields
  <1>9. q \in Request
    BY <1>2, <1>6, <1>8 DEF Request
  <1>10. request' = [request EXCEPT ![t] = q]
    BY <1>1, <1>4, <1>5, <1>6, Zenon
  <1>11. request'[t] = q
    BY <1>10 DEF TypeOK
  <1>12. /\ q.call.ifMatch =>
              held[t].etag # 0 /\ q.etag = held[t].etag /\ q.contents = {q.id} \cup held[t].contents
         /\ ~q.call.ifMatch => q.etag = 0 /\ q.contents = {q.id}
    <2>1. CASE c.ifMatch
      BY <1>1, <1>4, <1>5, <1>7, <2>1 DEF Believed
    <2>2. CASE ~c.ifMatch
      BY <1>4, <1>5, <1>7, <2>2 DEF Believed
    <2>3. QED BY <2>1, <2>2
  <1>13. \/ /\ network' = network \cup {q}
            /\ pc' = [pc EXCEPT ![t] = "asked"]
            /\ outcome' = [outcome EXCEPT ![t] = NoOutcome]
         \/ /\ network' = network
            /\ pc' = [pc EXCEPT ![t] = "returned"]
            /\ outcome' = [outcome EXCEPT ![t] = [ret |-> "LOWMEMORY", status |-> 0]]
    <2>1. /\ NoMemory({}).ret = "LOWMEMORY" /\ NoMemory({}).err.status = 0
      BY DEF NoMemory, Ends, NoError
    <2>2. QED BY <1>11, <2>1 DEF Ask, Return
  <1>14. reply' = [reply EXCEPT ![t] = NoMessage] /\ history' = history /\ held' = held
    BY DEF Ask
  <1>15. QED BY <1>2, <1>7, <1>9, <1>10, <1>12, <1>13, <1>14, Zenon DEF AsksWith

\* A call that returns, with the adapter's failure or the outcome o.
ReturnsWith(t, result, status) ==
    /\ pc[t] = "asked"
    /\ result \in Result /\ status \in Status \cup {0}
    /\ pc' = [pc EXCEPT ![t] = "returned"]
    /\ outcome' = [outcome EXCEPT ![t] = [ret |-> result, status |-> status]]
    /\ UNCHANGED <<history, network, calls, request, reply>>

\* The adapter's failure tells nothing.
LEMMA Failing ==
    ASSUME NEW t \in Thread, FailExchange(t)
    PROVE  ReturnsWith(t, "ADAPTER", 0) /\ held' = held
  <1>1. /\ Ends("ADAPTER", NoError, {}).ret = "ADAPTER"
        /\ Ends("ADAPTER", NoError, {}).err.status = 0
    BY DEF Ends, NoError
  <1>2. QED BY <1>1 DEF FailExchange, Return, ReturnsWith, Result

\* The program holds what the call made or read.
HoldsAnswer(t) ==
    \E h \in [etag : 0 .. MaxCalls, contents : SUBSET Update] :
        /\ held' = [held EXCEPT ![t] = h]
        /\ h.etag \in {0, reply[t].etag}
        /\ request[t].call.op = "get" => h.contents = reply[t].contents
        /\ request[t].call.op = "delete" => h.etag = 0
        /\ request[t].call.op \notin {"get", "delete"} => h.contents = request[t].contents

\* What the caller can tell from an outcome: a failure has the status of the
\* reply or none, every other result has none.
Tells(r, o) ==
    /\ o.ret \in {"OK", "FAIL", "LOWMEMORY"}
    /\ o.ret = "FAIL" => o.err.status \in {0, r.status}
    /\ o.ret # "FAIL" => o.err.status = 0

\* Each way for a reader of replies to end tells that.
LEMMA EndingsTell ==
    ASSUME NEW r \in Reply, NEW got
    PROVE  /\ Tells(r, Succeeds(got))
           /\ Tells(r, NoMemory(got)) /\ NoMemory(got).ret # "OK"
           /\ Tells(r, Malformed(r, got)) /\ Malformed(r, got).ret # "OK"
           /\ \A o \in ErrorReply(r, got) : Tells(r, o) /\ o.ret # "OK"
           /\ Tells(r, Ends("FAIL", NoError, got))
  <1>1. /\ Tells(r, Succeeds(got))
        /\ Tells(r, NoMemory(got)) /\ NoMemory(got).ret # "OK"
    BY DEF Tells, Succeeds, NoMemory, Ends, NoError
  <1>2. Tells(r, Malformed(r, got)) /\ Malformed(r, got).ret # "OK"
    BY DEF Tells, Malformed, Ends
  <1>3. ASSUME NEW o \in ErrorReply(r, got) PROVE Tells(r, o) /\ o.ret # "OK"
    <2>1. ASSUME NEW k, o = Refused(r, k, got) PROVE Tells(r, o) /\ o.ret # "OK"
      BY <2>1 DEF Tells, Refused, Ends
    <2>2. o = NoMemory(got) \/ \E k : o = Refused(r, k, got)
      BY DEF ErrorReply, Reply
    <2>3. QED BY <1>1, <2>1, <2>2
  <1>4. Tells(r, Ends("FAIL", NoError, got))
    BY DEF Tells, Ends, NoError
  <1>5. QED BY <1>1, <1>2, <1>3, <1>4

\* What the five calls make of a reply: KIIE_OK only of one they accept.
LEMMA ReadingTells ==
    ASSUME NEW c, NEW r \in Reply, NEW o \in ParseReply(c, r),
           c.op \in {"createWithId", "patch", "replace", "get", "delete"}
    PROVE  Tells(r, o) /\ (o.ret = "OK" => Accepts(c.op, r.status))
  <1>1. CASE ~Accepts(c.op, r.status)
    <2>1. o \in ErrorReply(r, {})
      BY <1>1 DEF ParseReply
    <2>2. QED BY <2>1, EndingsTell
  <1>2. CASE Accepts(c.op, r.status)
    <2>1. o \in ParseAccepted(c, r)
      BY <1>2 DEF ParseReply
    <2>2. ASSUME NEW otherwise, Tells(r, otherwise), o \in ParseEtag(c, r, otherwise)
          PROVE  Tells(r, o)
      BY <2>2, EndingsTell DEF ParseEtag, Reply
    <2>3. CASE c.op \in {"createWithId", "replace"}
      <3>1. o \in ParsePut(c, r)
        BY <2>1, <2>3 DEF ParseAccepted, UsesHead
      <3>2. QED BY <1>2, <2>2, <3>1, EndingsTell DEF ParsePut
    <2>4. CASE c.op = "patch"
      <3>1. o \in ParsePatch(c, r)
        BY <2>1, <2>4 DEF ParseAccepted, UsesHead
      <3>2. QED BY <1>2, <2>2, <3>1, EndingsTell DEF ParsePatch
    <2>5. CASE c.op = "get"
      <3>1. o \in ParseGet(r)
        BY <2>1, <2>5 DEF ParseAccepted, UsesHead
      <3>2. QED BY <1>2, <3>1, EndingsTell DEF ParseGet, Reply
    <2>6. CASE c.op = "delete"
      <3>1. o = Succeeds({})
        BY <2>1, <2>6 DEF ParseAccepted, UsesHead
      <3>2. QED BY <1>2, <3>1, EndingsTell
    <2>7. QED BY <2>3, <2>4, <2>5, <2>6
  <1>3. QED BY <1>1, <1>2

\* The outcome of a call whose reply was read: KIIE_OK says that the server has
\* accepted the request, and a status among the details is the server's.
LEMMA Receiving ==
    ASSUME TypeOK, NEW t \in Thread, HasAsked(t), Receive(t)
    PROVE  \E result, status :
              /\ ReturnsWith(t, result, status)
              /\ reply[t] \in Message /\ request[t] \in Request
              /\ result = "OK" => Success(reply[t].status)
              /\ result = "FAIL" => status \in {0, reply[t].status}
              /\ result # "OK" => held' = held
              /\ result = "OK" => HoldsAnswer(t)
  <1> DEFINE q == request[t]
             m == reply[t]
  <1>1. m \in Message /\ q \in Request /\ m # NoMessage /\ pc[t] = "asked"
    BY DEF Receive, TypeOK, HasAsked
  <1>2. q.call \in Call /\ q.contents \in SUBSET Update
    BY <1>1, RequestFields
  <1>3. m.etag \in 0 .. MaxCalls /\ m.contents \in SUBSET Update /\ m.status \in Status
    BY <1>1 DEF Message
  <1>4. PICK r \in ReplyTo(q.call.op) :
          /\ r.status = m.status
          /\ \E o \in ParseReply(q.call, r) :
                /\ Return(t, o)
                /\ held' = IF o.ret = "OK"
                           THEN [held EXCEPT ![t] = HeldAfter(request[t], reply[t], o)]
                           ELSE held
    BY DEF Receive
  <1>5. PICK o \in ParseReply(q.call, r) :
          /\ Return(t, o)
          /\ held' = IF o.ret = "OK"
                     THEN [held EXCEPT ![t] = HeldAfter(request[t], reply[t], o)]
                     ELSE held
    BY <1>4
  <1>6. r \in Reply
    BY DEF ReplyTo
  <1>7. Tells(r, o) /\ (o.ret = "OK" => Accepts(q.call.op, r.status))
    <2>1. q.call.op \in {"createWithId", "patch", "replace", "get", "delete"}
      BY <1>2, CallFields
    <2>2. QED BY <1>6, <2>1, ReadingTells
  <1>8. o.ret \in Result /\ o.err.status \in Status \cup {0}
    BY <1>3, <1>4, <1>7 DEF Tells, Result
  <1>9. ReturnsWith(t, o.ret, o.err.status)
    BY <1>1, <1>5, <1>8 DEF Receive, Return, ReturnsWith
  <1>10. o.ret = "OK" => Success(m.status)
    <2>1. q.call.op \in {"createWithId", "patch", "replace", "get", "delete"}
      BY <1>2, CallFields
    <2>2. QED BY <1>4, <1>7, <2>1 DEF Accepts, UsesHead
  <1>11. o.ret = "FAIL" => o.err.status \in {0, m.status}
    BY <1>4, <1>7 DEF Tells
  <1>12. o.ret # "OK" => held' = held
    BY <1>5
  <1>13. ASSUME o.ret = "OK" PROVE HoldsAnswer(t)
    <2>1. PICK e \in 0 .. MaxCalls :
            e = (IF "etag" \in o.given THEN m.etag ELSE 0) /\ e \in {0, m.etag}
      BY <1>3, StoreAssumption
    <2>2. PICK h : h = HeldAfter(q, m, o)
      OBVIOUS
    <2>3. held' = [held EXCEPT ![t] = h]
      BY <1>5, <1>13, <2>2, Zenon
    <2>4. /\ h \in [etag : 0 .. MaxCalls, contents : SUBSET Update]
          /\ h.etag \in {0, m.etag}
          /\ q.call.op = "get" => h.contents = m.contents
          /\ q.call.op = "delete" => h.etag = 0
          /\ q.call.op \notin {"get", "delete"} => h.contents = q.contents
      <3>1. CASE q.call.op = "get"
        <4>1. h = [etag |-> e, contents |-> m.contents]
          BY <2>1, <2>2, <3>1, Zenon DEF HeldAfter
        <4>2. QED BY <1>3, <2>1, <3>1, <4>1
      <3>2. CASE q.call.op = "delete"
        <4>1. h = [etag |-> 0, contents |-> {}]
          BY <2>2, <3>2 DEF HeldAfter, Nothing
        <4>2. QED BY <3>2, <4>1, StoreAssumption
      <3>3. CASE q.call.op \notin {"get", "delete"}
        <4>1. h = [etag |-> e, contents |-> q.contents]
          BY <2>1, <2>2, <3>3 DEF HeldAfter
        <4>2. QED BY <1>2, <2>1, <3>3, <4>1
      <3>4. QED BY <3>1, <3>2, <3>3
    <2>5. QED BY <2>3, <2>4 DEF HoldsAnswer
  <1>14. QED BY <1>1, <1>9, <1>10, <1>11, <1>12, <1>13

\* The history grows by the version e.
GrowsBy(e) ==
    /\ history' \in Seq(Entry)
    /\ Len(history') = Len(history) + 1
    /\ DOMAIN history' = DOMAIN history \cup {Len(history')}
    /\ Len(history') \notin DOMAIN history
    /\ history'[Len(history')] = e
    /\ \A i \in DOMAIN history : history'[i] = history[i]

\* The server answers q with m.
AnswersWith(q, m) ==
    /\ q \in network /\ q \in Request /\ m \in Message
    /\ network' = network \ {q}
    /\ Answer(q, m)
    /\ UNCHANGED <<calls, pc, request, outcome, held>>

\* The server accepts q.
AcceptsWith(q, m) ==
    /\ AnswersWith(q, m) /\ Success(m.status) /\ Meets(q) /\ Formed(q)
    /\ m.etag = Len(history') /\ m.etag \in DOMAIN history'
    /\ m.contents = history'[m.etag].contents
    /\ \/ q.call.op = "get" /\ history' = history /\ Exists
       \/ q.call.op # "get" /\ GrowsBy(Written(q))

\* The server refuses q.
RefusesWith(q, m) == AnswersWith(q, m) /\ ~Success(m.status) /\ history' = history

\* What the server says of a request it accepts is so.
LEMMA Serving ==
    ASSUME TypeOK, Counted, NEW q \in network, Formed(q), Serve(q)
    PROVE  \E m : AcceptsWith(q, m)
  <1>1. q \in Request
    BY DEF TypeOK
  <1>2. history \in Seq(Entry) /\ Len(history) \in Nat /\ DOMAIN history = 1 .. Len(history)
    <2>1. history \in Seq(Entry)
      BY DEF TypeOK, Entry
    <2>2. QED BY <2>1
  <1>3. Len(history) + 1 <= MaxCalls
    <2>1. Cardinality(network) \in Nat /\ Cardinality(network) # 0
      BY FS_CardinalityType, FS_EmptySet DEF Counted
    <2>2. calls \in Nat /\ calls <= MaxCalls
      BY StoreAssumption DEF TypeOK
    <2>3. QED BY <1>2, <2>1, <2>2, StoreAssumption DEF Counted
  <1>4. PICK s \in {s \in Status : Success(s)} :
            Answer(q, [status |-> s, etag |-> Len(history'),
                       contents |-> history'[Len(history')].contents])
    BY DEF Serve
  <1>5. q.call.op = "get" => history' = history /\ Exists
    <2>1. ASSUME q.call.op = "get" PROVE q.headers = {}
      BY <2>1 DEF Formed, Precondition
    <2>2. QED BY <2>1 DEF Serve, Meets
  <1>6. q.call.op # "get" => GrowsBy(Written(q))
    <2>1. ASSUME q.call.op # "get" PROVE history' = Append(history, Written(q))
      BY <2>1 DEF Serve
    <2>2. Written(q) \in Entry
      BY <1>1, WrittenType
    <2>3. ASSUME q.call.op # "get"
          PROVE  /\ history' \in Seq(Entry) /\ Len(history') = Len(history) + 1
                 /\ DOMAIN history' = DOMAIN history \cup {Len(history')}
                 /\ Len(history') \notin DOMAIN history
                 /\ history'[Len(history')] = Written(q)
                 /\ \A i \in DOMAIN history : history'[i] = history[i]
      <3>1. history' = Append(history, Written(q))
        BY <2>1, <2>3
      <3>2. PICK e \in Entry : e = Written(q)
        BY <2>2
      <3>3. PICK k : k = Append(history, e)
        OBVIOUS
      <3>4. /\ k \in Seq(Entry) /\ Len(k) = Len(history) + 1
            /\ DOMAIN k = DOMAIN history \cup {Len(k)}
            /\ Len(k) \notin DOMAIN history
            /\ k[Len(k)] = e
            /\ \A i \in DOMAIN history : k[i] = history[i]
        BY <1>2, <3>3, Appended
      <3>5. history' = k
        BY <3>1, <3>2, <3>3
      <3>6. QED BY <3>2, <3>4, <3>5, Zenon
    <2>4. QED BY <2>3 DEF GrowsBy
  <1>7. /\ Len(history') \in DOMAIN history' /\ Len(history') \in 0 .. MaxCalls
        /\ history'[Len(history')] \in Entry
    <2>1. CASE q.call.op = "get"
      <3>1. Version \in DOMAIN history /\ history[Version] \in Entry
        BY <1>5, <2>1, Present DEF IsVersion
      <3>2. QED BY <1>2, <1>3, <1>5, <2>1, <3>1, StoreAssumption DEF Version
    <2>2. CASE q.call.op # "get"
      BY <1>1, <1>2, <1>3, <1>6, <2>2, WrittenType, StoreAssumption DEF GrowsBy
    <2>3. QED BY <2>1, <2>2
  <1>8. PICK c \in SUBSET Update : c = history'[Len(history')].contents
    BY <1>7 DEF Entry
  <1>9. PICK n \in 0 .. MaxCalls : n = Len(history')
    BY <1>7
  <1>10. PICK m : m = [status |-> s, etag |-> n, contents |-> c]
    OBVIOUS
  <1>11. m \in Message /\ m.status = s /\ m.etag = n /\ m.contents = c
    BY <1>10 DEF Message
  <1>12. Answer(q, m)
    BY <1>4, <1>8, <1>9, <1>10, Zenon
  <1>13. AnswersWith(q, m)
    BY <1>1, <1>11, <1>12 DEF AnswersWith, Serve
  <1>14. Success(m.status)
    BY <1>4, <1>11
  <1>15. Meets(q)
    BY DEF Serve
  <1>16. QED BY <1>5, <1>6, <1>7, <1>8, <1>9, <1>11, <1>13, <1>14, <1>15 DEF AcceptsWith

\* The server refuses q, and the object stays.
LEMMA Refusing ==
    ASSUME TypeOK, NEW q \in network, Refuse(q)
    PROVE  \E m : RefusesWith(q, m)
  <1>1. q \in Request
    BY DEF TypeOK
  <1>2. PICK s \in {s \in Status : ~Success(s)} :
            Answer(q, [status |-> s, etag |-> 0, contents |-> {}])
    BY DEF Refuse
  <1>3. PICK m : m = [status |-> s, etag |-> 0, contents |-> {}]
    OBVIOUS
  <1>4. m \in Message /\ m.status = s
    BY <1>3, StoreAssumption DEF Message
  <1>5. QED BY <1>1, <1>2, <1>3, <1>4 DEF AnswersWith, RefusesWith, Refuse

-----------------------------------------------------------------------------
(* The steps.                                                               *)

\* A call returns.
ReturnStep(t) ==
    \E result, status :
       /\ ReturnsWith(t, result, status)
       /\ result = "OK" => reply[t] # NoMessage /\ Success(reply[t].status)
       /\ result = "FAIL" => reply[t] # NoMessage /\ status \in {0, reply[t].status}
       /\ held' = held \/ (result = "OK" /\ HoldsAnswer(t))

\* One of five things happens.
LEMMA Steps ==
    ASSUME StoreInv, [Next]_vars
    PROVE  \/ UNCHANGED vars
           \/ \E t \in Thread : ReturnStep(t) \/ \E q : AsksWith(t, q)
           \/ \E q \in network : \E m : AcceptsWith(q, m) \/ RefusesWith(q, m)
  <1>1. TypeOK /\ Counted
    BY DEF StoreInv
  <1>2. ASSUME NEW t \in Thread, Ask(t) PROVE \E q : AsksWith(t, q)
    BY <1>1, <1>2, Asking
  <1>3. ASSUME NEW t \in Thread, FailExchange(t) PROVE ReturnStep(t)
    BY <1>3, Failing DEF ReturnStep
  <1>4. ASSUME NEW t \in Thread, Receive(t) PROVE ReturnStep(t)
    <2>1. HasAsked(t) /\ reply[t] # NoMessage
      BY <1>4 DEF StoreInv, Receive
    <2>2. PICK result, status :
              /\ ReturnsWith(t, result, status)
              /\ result = "OK" => Success(reply[t].status) /\ HoldsAnswer(t)
              /\ result = "FAIL" => status \in {0, reply[t].status}
              /\ result # "OK" => held' = held
      BY <1>1, <1>4, <2>1, Receiving
    <2>3. QED BY <2>1, <2>2 DEF ReturnStep
  <1>5. ASSUME NEW q \in network, Serve(q) PROVE \E m : AcceptsWith(q, m)
    BY <1>1, <1>5, Serving DEF StoreInv
  <1>6. ASSUME NEW q \in network, Refuse(q) PROVE \E m : RefusesWith(q, m)
    BY <1>1, <1>6, Refusing
  <1>7. QED BY <1>2, <1>3, <1>4, <1>5, <1>6 DEF Next

\* The versions and the requests under way stay within the number of calls.
LEMMA CountedStep ==
    ASSUME StoreInv, [Next]_vars
    PROVE  Counted'
  <1>1. /\ IsFiniteSet(network) /\ Cardinality(network) \in Nat /\ calls \in Nat
        /\ Len(history) \in Nat /\ Len(history) + Cardinality(network) <= calls
    <2>1. TypeOK /\ Counted
      BY DEF StoreInv
    <2>2. Len(history) \in Nat
      BY <2>1, Present DEF Version
    <2>3. calls \in Nat
      BY <2>1, StoreAssumption DEF TypeOK
    <2>4. QED BY <2>1, <2>2, <2>3, FS_CardinalityType DEF Counted
  <1>2. ASSUME NEW t \in Thread, NEW q, AsksWith(t, q) PROVE Counted'
    <2>1. history' = history /\ calls' = calls + 1
      BY <1>2 DEF AsksWith
    <2>2. CASE network' = network
      BY <1>1, <2>1, <2>2 DEF Counted
    <2>3. CASE network' = network \cup {q}
      <3>1. /\ IsFiniteSet(network \cup {q}) /\ Cardinality(network \cup {q}) \in Nat
            /\ Cardinality(network \cup {q}) <= Cardinality(network) + 1
        <4>1. /\ IsFiniteSet(network \cup {q})
              /\ Cardinality(network \cup {q}) =
                    IF q \in network THEN Cardinality(network) ELSE Cardinality(network) + 1
          BY <1>1, FS_AddElement, Zenon
        <4>2. QED BY <1>1, <4>1
      <3>2. QED BY <1>1, <2>1, <2>3, <3>1 DEF Counted
    <2>4. QED BY <1>2, <2>2, <2>3 DEF AsksWith
  <1>3. ASSUME NEW t \in Thread, ReturnStep(t) PROVE Counted'
    BY <1>1, <1>3 DEF ReturnStep, ReturnsWith, Counted
  <1>4. ASSUME NEW q \in network, NEW m, AcceptsWith(q, m) \/ RefusesWith(q, m) PROVE Counted'
    <2>1. network' = network \ {q} /\ calls' = calls
      BY <1>4 DEF AcceptsWith, RefusesWith, AnswersWith
    <2>2. /\ IsFiniteSet(network') /\ Cardinality(network') = Cardinality(network) - 1
      BY <1>1, <2>1, FS_RemoveElement
    <2>3. Len(history') \in {Len(history), Len(history) + 1}
      BY <1>4 DEF AcceptsWith, RefusesWith, GrowsBy
    <2>4. QED BY <1>1, <2>1, <2>2, <2>3 DEF Counted
  <1>5. CASE UNCHANGED vars
    BY <1>1, <1>5 DEF vars, server, Counted
  <1>6. QED BY <1>2, <1>3, <1>4, <1>5, Steps

\* The variables keep their types.
LEMMA TypeStep ==
    ASSUME StoreInv, [Next]_vars
    PROVE  TypeOK'
  <1>1. TypeOK
    BY DEF StoreInv
  <1>2. Len(history') <= calls'
    <2>1. Counted'
      BY CountedStep
    <2>2. Cardinality(network') \in Nat
      BY <2>1, FS_CardinalityType DEF Counted
    <2>3. history' \in Seq(Entry) /\ calls' \in Nat
      <3>1. history \in Seq(Entry) /\ calls \in Nat
        BY <1>1, StoreAssumption DEF TypeOK, Entry
      <3>2. QED
        BY <3>1, Steps
        DEF vars, server, AsksWith, ReturnStep, ReturnsWith, AcceptsWith, RefusesWith,
            AnswersWith, GrowsBy
    <2>4. Len(history') \in Nat
      BY <2>3
    <2>5. QED BY <2>1, <2>2, <2>3, <2>4 DEF Counted
  <1>3. CASE UNCHANGED vars
    BY <1>1, <1>3 DEF vars, server, client, TypeOK
  <1>4. ASSUME NEW t \in Thread, NEW q, AsksWith(t, q) PROVE TypeOK'
    <2>1. /\ [ret |-> "LOWMEMORY", status |-> 0] \in [ret : Result, status : Status \cup {0}]
          /\ NoOutcome \in [ret : Result, status : Status \cup {0}]
      BY DEF NoOutcome, Result
    <2>2. q \in Request /\ calls' \in 0 .. MaxCalls
      BY <1>1, <1>4, StoreAssumption DEF AsksWith, TypeOK
    <2>3. /\ pc' \in [Thread -> {"idle", "asked", "returned"}]
          /\ outcome' \in [Thread -> [ret : Result, status : Status \cup {0}]]
          /\ network' \in SUBSET Request
      <3>1. CASE network' = network \cup {q} /\ pc' = [pc EXCEPT ![t] = "asked"]
                 /\ outcome' = [outcome EXCEPT ![t] = NoOutcome]
        BY <1>1, <2>1, <2>2, <3>1 DEF TypeOK
      <3>2. CASE network' = network /\ pc' = [pc EXCEPT ![t] = "returned"]
                 /\ outcome' = [outcome EXCEPT ![t] = [ret |-> "LOWMEMORY", status |-> 0]]
        <4>1. PICK o \in [ret : Result, status : Status \cup {0}] :
                  o = [ret |-> "LOWMEMORY", status |-> 0]
          BY <2>1
        <4>2. outcome' = [outcome EXCEPT ![t] = o]
          BY <3>2, <4>1, Zenon
        <4>3. QED BY <1>1, <3>2, <4>2 DEF TypeOK
      <3>3. QED BY <1>4, <3>1, <3>2 DEF AsksWith
    <2>4. /\ request' \in [Thread -> Request \cup {NoRequest}]
          /\ reply' \in [Thread -> Message \cup {NoMessage}]
      BY <1>1, <1>4, <2>2 DEF AsksWith, TypeOK
    <2>5. history' = history /\ held' = held
      BY <1>4 DEF AsksWith
    <2>6. QED BY <1>1, <1>2, <2>2, <2>3, <2>4, <2>5 DEF TypeOK
  <1>5. ASSUME NEW t \in Thread, ReturnStep(t) PROVE TypeOK'
    <2>1. PICK result, status : ReturnsWith(t, result, status)
      BY <1>5 DEF ReturnStep
    <2>2. held' \in [Thread -> [etag : 0 .. MaxCalls, contents : SUBSET Update]]
      BY <1>1, <1>5 DEF ReturnStep, HoldsAnswer, TypeOK
    <2>3. /\ pc' \in [Thread -> {"idle", "asked", "returned"}]
          /\ outcome' \in [Thread -> [ret : Result, status : Status \cup {0}]]
      BY <1>1, <2>1 DEF ReturnsWith, TypeOK
    <2>4. QED BY <1>1, <1>2, <2>1, <2>2, <2>3 DEF ReturnsWith, TypeOK
  <1>6. ASSUME NEW q \in network, NEW m, AcceptsWith(q, m) \/ RefusesWith(q, m) PROVE TypeOK'
    <2>1. AnswersWith(q, m)
      BY <1>6 DEF AcceptsWith, RefusesWith
    <2>2. reply' \in [Thread -> Message \cup {NoMessage}]
      BY <1>1, <2>1 DEF AnswersWith, Answer, TypeOK
    <2>3. history' \in Seq(Entry)
      BY <1>1, <1>6 DEF AcceptsWith, RefusesWith, GrowsBy, TypeOK, Entry
    <2>4. network' \in SUBSET Request
      BY <1>1, <2>1 DEF AnswersWith, TypeOK
    <2>5. QED BY <1>1, <1>2, <2>1, <2>2, <2>3, <2>4 DEF AnswersWith, TypeOK, Entry
  <1>7. QED BY <1>3, <1>4, <1>5, <1>6, Steps

\* The requests keep their numbers.
LEMMA NumbersStep ==
    ASSUME StoreInv, [Next]_vars
    PROVE  Numbered' /\ NamesOne' /\ TakesEffectOnce'
  <1>1. TypeOK /\ Numbered /\ NamesOne /\ TakesEffectOnce
    BY DEF StoreInv
  <1>2. calls \in Nat
    BY <1>1, StoreAssumption DEF TypeOK
  <1>3. /\ \A q \in network : q.id \in Nat
        /\ \A t \in Thread : request[t].id \in Nat
        /\ \A i \in DOMAIN history : history[i].change.id \in Nat
    <2>1. \A q \in network : q.id \in Nat
      BY <1>1, RequestFields DEF TypeOK
    <2>2. \A t \in Thread : request[t].id \in Nat
      BY <1>1, RequestFields, NoRequestIsNone DEF TypeOK
    <2>3. \A i \in DOMAIN history : history[i].change \in Request
      BY <1>1, Present DEF Entry
    <2>4. QED BY <2>1, <2>2, <2>3, RequestFields
  <1>4. ASSUME NEW t \in Thread, NEW q, AsksWith(t, q)
        PROVE  Numbered' /\ NamesOne' /\ TakesEffectOnce'
    <2>1. /\ q.id = calls + 1 /\ calls' = calls + 1 /\ history' = history
          /\ network' \in {network, network \cup {q}}
          /\ request'[t] = q
          /\ \A u \in Thread \ {t} : request'[u] = request[u]
      BY <1>1, <1>4 DEF AsksWith, TypeOK
    <2>2. /\ \A p \in network : p.id # q.id
          /\ \A u \in Thread : request[u].id # q.id
          /\ \A i \in DOMAIN history : history[i].change.id # q.id
      BY <1>1, <1>2, <1>3, <2>1 DEF Numbered
    <2>3. Numbered'
      <3>1. \A p \in network' : p.id <= calls'
        BY <1>1, <1>2, <1>3, <2>1 DEF Numbered
      <3>2. \A u \in Thread : request'[u].id <= calls'
        BY <1>1, <1>2, <1>3, <2>1 DEF Numbered
      <3>3. \A i \in DOMAIN history' : history'[i].change.id <= calls'
        BY <1>1, <1>2, <1>3, <2>1 DEF Numbered
      <3>4. QED BY <3>1, <3>2, <3>3 DEF Numbered
    <2>4. NamesOne'
      <3>1. ASSUME NEW o \in network', NEW p \in network', o.id = p.id PROVE o = p
        BY <1>1, <2>1, <2>2, <3>1 DEF NamesOne
      <3>2. ASSUME NEW u \in Thread, NEW p \in network', p.id = request'[u].id
            PROVE  p = request'[u]
        BY <1>1, <2>1, <2>2, <3>2 DEF NamesOne
      <3>3. QED BY <3>1, <3>2 DEF NamesOne
    <2>5. TakesEffectOnce'
      BY <1>1, <2>1, <2>2 DEF TakesEffectOnce
    <2>6. QED BY <2>3, <2>4, <2>5
  <1>5. ASSUME NEW t \in Thread, ReturnStep(t)
        PROVE  Numbered' /\ NamesOne' /\ TakesEffectOnce'
    <2>1. UNCHANGED <<history, network, calls, request>>
      BY <1>5 DEF ReturnStep, ReturnsWith
    <2>2. QED BY <1>1, <2>1 DEF Numbered, NamesOne, TakesEffectOnce
  <1>6. ASSUME NEW q \in network, NEW m, AcceptsWith(q, m) \/ RefusesWith(q, m)
        PROVE  Numbered' /\ NamesOne' /\ TakesEffectOnce'
    <2>1. network' = network \ {q} /\ UNCHANGED <<calls, request>> /\ q \in Request
      BY <1>6 DEF AcceptsWith, RefusesWith, AnswersWith
    <2>2. CASE history' = history
      BY <1>1, <2>1, <2>2 DEF Numbered, NamesOne, TakesEffectOnce
    <2>3. CASE GrowsBy(Written(q))
      <3>1. /\ DOMAIN history' = DOMAIN history \cup {Len(history')}
            /\ history'[Len(history')].change = q
            /\ \A i \in DOMAIN history : history'[i] = history[i]
        BY <1>1, <2>1, <2>3, WrittenType DEF GrowsBy
      <3>2. Numbered'
        <4>1. \A i \in DOMAIN history' : history'[i].change.id <= calls'
          BY <1>1, <2>1, <3>1 DEF Numbered
        <4>2. QED BY <1>1, <2>1, <4>1 DEF Numbered
      <3>3. NamesOne'
        BY <1>1, <2>1 DEF NamesOne
      <3>4. TakesEffectOnce'
        <4>1. ASSUME NEW p \in network', NEW i \in DOMAIN history'
              PROVE  history'[i].change.id # p.id
          <5>1. p \in network /\ p # q
            BY <2>1
          <5>2. p.id # q.id
            BY <1>1, <5>1 DEF NamesOne
          <5>3. CASE i \in DOMAIN history
            BY <1>1, <3>1, <5>1, <5>3 DEF TakesEffectOnce
          <5>4. CASE i = Len(history')
            BY <3>1, <5>2, <5>4
          <5>5. QED BY <3>1, <5>3, <5>4
        <4>2. ASSUME NEW i \in DOMAIN history', NEW j \in DOMAIN history',
                     history'[i].change.id = history'[j].change.id
              PROVE  i = j
          BY <1>1, <2>1, <3>1, <4>2, ZenonT(60) DEF TakesEffectOnce
        <4>3. QED BY <4>1, <4>2 DEF TakesEffectOnce
      <3>5. QED BY <3>2, <3>3, <3>4
    <2>4. QED BY <1>6, <2>2, <2>3 DEF AcceptsWith, RefusesWith
  <1>7. CASE UNCHANGED vars
    BY <1>1, <1>7 DEF vars, server, client, Numbered, NamesOne, TakesEffectOnce
  <1>8. QED BY <1>4, <1>5, <1>6, <1>7, Steps

\* A version stays what it is.
LEMMA VersionsStay ==
    ASSUME StoreInv, [Next]_vars
    PROVE  /\ \A i \in DOMAIN history : i \in DOMAIN history' /\ history'[i] = history[i]
           /\ \A etag, contents : IsVersion(etag, contents) => IsVersion(etag, contents)'
  <1>1. \A i \in DOMAIN history : i \in DOMAIN history' /\ history'[i] = history[i]
    BY Steps
    DEF vars, server, AsksWith, ReturnStep, ReturnsWith, AcceptsWith, RefusesWith, GrowsBy
  <1>2. QED BY <1>1 DEF IsVersion

\* A precondition that is met.
LEMMA MetPrecondition ==
    ASSUME TypeOK, NEW q \in Request, Formed(q), Meets(q)
    PROVE  /\ q.call.ifMatch => Exists /\ q.etag = Version /\ q.contents = {q.id} \cup Contents
           /\ ~q.call.ifMatch => q.contents = {q.id}
           /\ q.call.op = "createWithId" => ~Exists
           /\ q.call.op = "patch" /\ ~q.call.ifMatch => ~Exists
  <1>1. q.call \in Call
    BY RequestFields
  <1>2. q.call.ifMatch => Exists /\ q.etag = Version /\ q.contents = {q.id} \cup Contents
    <2>1. ASSUME q.call.ifMatch PROVE Exists /\ q.etag = Version
      BY <1>1, <2>1, CallFields DEF Formed, Meets
    <2>2. ASSUME q.call.ifMatch PROVE q.contents = {q.id} \cup Contents
      BY <2>1, <2>2 DEF Formed, Contents
    <2>3. QED BY <2>1, <2>2
  <1>3. ~q.call.ifMatch => q.contents = {q.id}
    BY DEF Formed
  <1>4. ASSUME q.call.op = "createWithId" \/ (q.call.op = "patch" /\ ~q.call.ifMatch)
        PROVE  ~Exists
    <2>1. "if-none-match" \in q.headers /\ "if-match" \notin q.headers
      BY <1>1, <1>4, CallFields DEF Formed
    <2>2. QED BY <2>1 DEF Meets
  <1>5. QED BY <1>2, <1>3, <1>4

\* What the server writes is what the caller believes: a patch too, for the
\* version it is applied to is the caller's.
LEMMA WrittenAsBelieved ==
    ASSUME TypeOK, NEW q \in Request, Formed(q), Meets(q), q.call.op \notin {"get", "delete"}
    PROVE  Written(q).contents = q.contents
  <1>1. CASE q.call.op # "patch"
    BY <1>1, WrittenType
  <1>2. CASE q.call.op = "patch"
    <2>1. Written(q).contents = Contents \cup {q.id}
      BY <1>2, WrittenType
    <2>2. CASE q.call.ifMatch
      BY <2>1, <2>2, MetPrecondition
    <2>3. CASE ~q.call.ifMatch
      <3>1. ~Exists /\ q.contents = {q.id}
        BY <1>2, <2>3, MetPrecondition
      <3>2. QED BY <2>1, <3>1 DEF Contents
    <2>4. QED BY <2>2, <2>3
  <1>3. QED BY <1>1, <1>2

\* A request under way keeps its form, and a new one has it: what it builds on
\* is a version.
LEMMA FormedStep ==
    ASSUME StoreInv, [Next]_vars
    PROVE  \A q \in network' : Formed(q)'
  <1>1. ASSUME NEW p \in network PROVE Formed(p)'
    <2>1. Formed(p)
      BY DEF StoreInv
    <2>2. CASE p.call.ifMatch
      <3>1. p.etag \in DOMAIN history /\ history'[p.etag] = history[p.etag]
        BY <2>1, <2>2, VersionsStay DEF Formed, IsVersion
      <3>2. QED BY <2>1, <2>2, <3>1, VersionsStay DEF Formed, IsVersion
    <2>3. CASE ~p.call.ifMatch
      BY <2>1, <2>3 DEF Formed
    <2>4. QED BY <2>2, <2>3
  <1>2. ASSUME NEW t \in Thread, NEW q, AsksWith(t, q) PROVE Formed(q)'
    <2>1. history' = history /\ q.headers = Precondition(q.call)
      BY <1>2 DEF AsksWith
    <2>2. CASE q.call.ifMatch
      <3>1. held[t].etag # 0 /\ q.etag = held[t].etag /\ q.contents = {q.id} \cup held[t].contents
        BY <1>2, <2>2 DEF AsksWith
      <3>2. IsVersion(q.etag, held[t].contents)
        BY <3>1 DEF StoreInv, HeldIsAVersion, IsVersion
      <3>3. QED BY <2>1, <2>2, <3>1, <3>2 DEF Formed, IsVersion
    <2>3. CASE ~q.call.ifMatch
      BY <1>2, <2>1, <2>3 DEF AsksWith, Formed
    <2>4. QED BY <2>2, <2>3
  <1>3. ASSUME NEW t \in Thread, NEW q, AsksWith(t, q) PROVE \A p \in network' : Formed(p)'
    BY <1>1, <1>2, <1>3 DEF AsksWith
  <1>4. ASSUME network' \subseteq network PROVE \A p \in network' : Formed(p)'
    BY <1>1, <1>4
  <1>5. QED
    BY <1>3, <1>4, Steps
    DEF vars, server, ReturnStep, ReturnsWith, AcceptsWith, RefusesWith, AnswersWith

\* A reply to another's request changes nothing for a caller who has his own.
LEMMA AnswerKept ==
    ASSUME StoreInv, NEW t \in Thread, NEW q \in network, NEW m,
           AcceptsWith(q, m) \/ RefusesWith(q, m),
           [Next]_vars, ~(pc[t] = "asked" /\ request[t] = q)
    PROVE  AnsweredTruly(t)'
  <1>1. TypeOK /\ NamesOne /\ AnsweredTruly(t)
    BY DEF StoreInv
  <1>2. /\ pc'[t] = pc[t] /\ request'[t] = request[t] /\ reply'[t] = reply[t]
        /\ network' = network \ {q} /\ q \in Request
    BY DEF AcceptsWith, RefusesWith, AnswersWith, Answer
  <1>3. SUFFICES ASSUME pc[t] = "asked", reply[t] # NoMessage PROVE AnsweredTruly(t)'
    BY <1>2 DEF AnsweredTruly
  <1>4. request[t] \notin network
    BY <1>1, <1>3 DEF AnsweredTruly
  <1>5. ASSUME ~Success(reply[t].status), NEW i \in DOMAIN history'
        PROVE  history'[i].change.id # request[t].id
    <2>1. \A j \in DOMAIN history : history[j].change.id # request[t].id
      BY <1>1, <1>3, <1>5 DEF AnsweredTruly
    <2>2. q.id # request[t].id
      BY <1>1, <1>4 DEF NamesOne
    <2>3. CASE history' = history
      BY <1>5, <2>1, <2>3
    <2>4. CASE GrowsBy(Written(q))
      <3>1. CASE i \in DOMAIN history
        BY <2>1, <2>4, <3>1 DEF GrowsBy
      <3>2. CASE i = Len(history')
        BY <1>1, <1>2, <2>2, <2>4, <3>2, WrittenType DEF GrowsBy
      <3>3. QED BY <1>5, <2>4, <3>1, <3>2 DEF GrowsBy
    <2>5. QED BY <2>3, <2>4 DEF AcceptsWith, RefusesWith
  <1>6. ASSUME Success(reply[t].status)
        PROVE  /\ reply[t].etag \in DOMAIN history'
               /\ request[t].call.op # "get" => history'[reply[t].etag].change = request[t]
               /\ request[t].call.op = "get" => IsVersion(reply[t].etag, reply[t].contents)'
               /\ request[t].call.op \notin {"get", "delete"} =>
                     IsVersion(reply[t].etag, request[t].contents)'
    <2>1. /\ reply[t].etag \in DOMAIN history
          /\ request[t].call.op # "get" => history[reply[t].etag].change = request[t]
          /\ request[t].call.op = "get" => IsVersion(reply[t].etag, reply[t].contents)
          /\ request[t].call.op \notin {"get", "delete"} =>
                IsVersion(reply[t].etag, request[t].contents)
      BY <1>1, <1>3, <1>6 DEF AnsweredTruly
    <2>2. /\ reply[t].etag \in DOMAIN history'
          /\ history'[reply[t].etag] = history[reply[t].etag]
      BY <2>1, VersionsStay
    <2>3. QED BY <1>2, <2>1, <2>2 DEF IsVersion
  <1>7. QED BY <1>2, <1>4, <1>5, <1>6 DEF AnsweredTruly

\* The caller's own request is answered with what it did or saw.
LEMMA AnswerOwn ==
    ASSUME StoreInv, NEW t \in Thread, NEW q \in network, NEW m,
           AcceptsWith(q, m) \/ RefusesWith(q, m),
           [Next]_vars, pc[t] = "asked", request[t] = q
    PROVE  AnsweredTruly(t)'
  <1>1. TypeOK /\ TakesEffectOnce
    BY DEF StoreInv
  <1>2. /\ pc'[t] = pc[t] /\ request'[t] = q /\ reply'[t] = m
        /\ network' = network \ {q} /\ q \in Request /\ m \in Message
    BY DEF AcceptsWith, RefusesWith, AnswersWith, Answer
  <1>3. CASE RefusesWith(q, m)
    <2>1. history' = history /\ ~Success(m.status)
      BY <1>3 DEF RefusesWith
    <2>2. \A i \in DOMAIN history' : history'[i].change.id # q.id
      BY <1>1, <2>1 DEF TakesEffectOnce
    <2>3. QED BY <1>2, <2>1, <2>2 DEF AnsweredTruly
  <1>4. CASE AcceptsWith(q, m)
    <2>1. /\ Success(m.status) /\ m.etag \in DOMAIN history' /\ m.etag = Len(history')
          /\ m.contents = history'[m.etag].contents /\ Meets(q) /\ Formed(q)
      BY <1>4 DEF AcceptsWith
    <2>2. ASSUME q.call.op # "get" PROVE history'[m.etag] = Written(q)
      BY <1>4, <2>1, <2>2 DEF AcceptsWith, GrowsBy
    <2>3. ASSUME q.call.op # "get" PROVE history'[m.etag].change = q
      BY <1>1, <1>2, <2>2, <2>3, WrittenType
    <2>4. ASSUME q.call.op = "get"
          PROVE  history'[m.etag].exists /\ history'[m.etag].contents = m.contents
      <3>1. history' = history /\ Exists
        BY <1>4, <2>4 DEF AcceptsWith
      <3>2. QED BY <2>1, <3>1 DEF Exists, Version
    <2>5. ASSUME q.call.op \notin {"get", "delete"}
          PROVE  history'[m.etag].exists /\ history'[m.etag].contents = q.contents
      BY <1>1, <1>2, <2>1, <2>2, <2>5, WrittenType, WrittenAsBelieved
    <2>6. QED BY <1>2, <2>1, <2>3, <2>4, <2>5 DEF AnsweredTruly, IsVersion
  <1>5. QED BY <1>3, <1>4

\* A caller who waits for its reply is told what happened.
LEMMA AnswerStep ==
    ASSUME StoreInv, [Next]_vars, NEW t \in Thread
    PROVE  HasAsked(t)' /\ AnsweredTruly(t)'
  <1>1. TypeOK /\ Numbered /\ HasAsked(t) /\ AnsweredTruly(t)
    BY DEF StoreInv
  <1>2. CASE UNCHANGED vars
    <2>1. UNCHANGED <<history, network, pc, request, reply>>
      BY <1>2 DEF vars, server, client
    <2>2. QED BY <1>1, <2>1 DEF HasAsked, AnsweredTruly, IsVersion
  <1>3. ASSUME NEW u \in Thread, NEW q, AsksWith(u, q), u = t
        PROVE  HasAsked(t)' /\ AnsweredTruly(t)'
    <2>1. reply'[t] = NoMessage /\ request'[t] = q /\ q \in Request
      BY <1>1, <1>3 DEF AsksWith, TypeOK
    <2>2. QED BY <2>1, NoRequestIsNone DEF HasAsked, AnsweredTruly
  <1>4. ASSUME NEW u \in Thread, NEW q, AsksWith(u, q), u # t
        PROVE  HasAsked(t)' /\ AnsweredTruly(t)'
    <2>1. /\ pc'[t] = pc[t] /\ reply'[t] = reply[t] /\ request'[t] = request[t]
          /\ history' = history /\ network' \in {network, network \cup {q}}
          /\ q.id = calls + 1
      BY <1>1, <1>4 DEF AsksWith, TypeOK
    <2>2. request[t] # q
      <3>1. request[t].id <= calls /\ calls \in Nat
        BY <1>1, StoreAssumption DEF Numbered, TypeOK
      <3>2. QED BY <2>1, <3>1
    <2>3. QED BY <1>1, <2>1, <2>2 DEF HasAsked, AnsweredTruly, IsVersion
  <1>5. ASSUME NEW u \in Thread, ReturnStep(u), u = t
        PROVE  HasAsked(t)' /\ AnsweredTruly(t)'
    <2>1. pc'[t] = "returned"
      BY <1>1, <1>5 DEF ReturnStep, ReturnsWith, TypeOK
    <2>2. QED BY <2>1 DEF HasAsked, AnsweredTruly
  <1>6. ASSUME NEW u \in Thread, ReturnStep(u), u # t
        PROVE  HasAsked(t)' /\ AnsweredTruly(t)'
    <2>1. /\ pc'[t] = pc[t] /\ UNCHANGED <<history, network, request, reply>>
      BY <1>1, <1>6 DEF ReturnStep, ReturnsWith, TypeOK
    <2>2. QED BY <1>1, <2>1 DEF HasAsked, AnsweredTruly, IsVersion
  <1>7. ASSUME NEW q \in network, NEW m, AcceptsWith(q, m) \/ RefusesWith(q, m)
        PROVE  HasAsked(t)' /\ AnsweredTruly(t)'
    <2>1. UNCHANGED <<pc, request>>
      BY <1>7 DEF AcceptsWith, RefusesWith, AnswersWith
    <2>2. HasAsked(t)'
      BY <1>1, <2>1 DEF HasAsked
    <2>3. QED BY <1>7, <2>2, AnswerKept, AnswerOwn
  <1>8. QED BY <1>2, <1>3, <1>4, <1>5, <1>6, <1>7, Steps

\* A program holds a version: one it has held before, or the one its call made
\* or read.
LEMMA HeldStep ==
    ASSUME StoreInv, [Next]_vars
    PROVE  HeldIsAVersion'
  <1>1. \A t \in Thread : held[t].etag # 0 => IsVersion(held[t].etag, held[t].contents)
    BY DEF StoreInv, HeldIsAVersion, IsVersion
  <1>2. SUFFICES ASSUME NEW t \in Thread, held'[t].etag # 0
                 PROVE  IsVersion(held[t].etag, held[t].contents)'
    BY DEF HeldIsAVersion, IsVersion
  <1>3. ASSUME NEW h, held'[t] = h, IsVersion(h.etag, h.contents)
        PROVE  IsVersion(held[t].etag, held[t].contents)'
    <2>1. h.etag \in DOMAIN history /\ history'[h.etag] = history[h.etag] /\ h.etag \in DOMAIN history'
      BY <1>3, VersionsStay DEF IsVersion
    <2>2. QED BY <1>3, <2>1 DEF IsVersion
  <1>4. ASSUME NEW u \in Thread, ReturnStep(u), held' # held
        PROVE  held'[t] = held[t] \/ \E h : held'[t] = h /\ IsVersion(h.etag, h.contents)
    <2>1. /\ pc[u] = "asked" /\ reply[u] # NoMessage /\ Success(reply[u].status)
          /\ HoldsAnswer(u)
      BY <1>4 DEF ReturnStep, ReturnsWith
    <2>2. PICK h : /\ held' = [held EXCEPT ![u] = h]
                   /\ h.etag \in {0, reply[u].etag}
                   /\ request[u].call.op = "get" => h.contents = reply[u].contents
                   /\ request[u].call.op = "delete" => h.etag = 0
                   /\ request[u].call.op \notin {"get", "delete"} =>
                         h.contents = request[u].contents
      BY <2>1 DEF HoldsAnswer
    <2>3. CASE u # t
      BY <2>2, <2>3 DEF StoreInv, TypeOK
    <2>4. CASE u = t
      <3>1. held'[t] = h
        BY <2>2, <2>4 DEF StoreInv, TypeOK
      <3>2. h.etag = reply[t].etag /\ request[t].call.op # "delete"
        BY <1>2, <2>2, <2>4, <3>1
      <3>3. IsVersion(h.etag, h.contents)
        BY <2>1, <2>2, <2>4, <3>2 DEF StoreInv, AnsweredTruly
      <3>4. QED BY <3>1, <3>3
    <2>5. QED BY <2>3, <2>4
  <1>5. held' = held \/ \E u \in Thread : ReturnStep(u)
    BY Steps DEF vars, client, AsksWith, AcceptsWith, RefusesWith, AnswersWith
  <1>6. \E h : held'[t] = h /\ IsVersion(h.etag, h.contents)
    BY <1>1, <1>2, <1>4, <1>5
  <1>7. QED BY <1>3, <1>6

\* A version that is written over the last one.
LEMMA WrittenOver ==
    ASSUME StoreInv, NEW q \in Request, Formed(q), Meets(q), Version > 0,
           q.call.op \notin {"get", "delete"}, ~(q.call.op = "replace" /\ ~q.call.ifMatch)
    PROVE  history[Version].contents \subseteq Written(q).contents
  <1>1. TypeOK /\ GoneIsEmpty
    BY DEF StoreInv
  <1>2. CASE ~Exists
    <2>1. Version \in DOMAIN history /\ ~history[Version].exists
      BY <1>1, <1>2, Present DEF Exists
    <2>2. QED BY <1>1, <2>1 DEF GoneIsEmpty
  <1>3. CASE Exists
    <2>1. Contents = history[Version].contents
      BY <1>3 DEF Contents
    <2>2. Written(q).contents = q.contents
      BY <1>1, WrittenAsBelieved
    <2>3. q.call.ifMatch
      <3>1. q.call.op \in {"createWithId", "patch", "replace"}
        BY RequestFields, CallFields
      <3>2. QED BY <1>1, <1>3, <3>1, MetPrecondition
    <2>4. q.contents = {q.id} \cup Contents
      BY <1>1, <2>3, MetPrecondition
    <2>5. QED BY <2>1, <2>2, <2>4
  <1>4. QED BY <1>2, <1>3

\* The history stays in order.
LEMMA HistoryStep ==
    ASSUME StoreInv, [Next]_vars
    PROVE  GoneIsEmpty' /\ NoLostUpdate'
  <1>1. TypeOK /\ GoneIsEmpty /\ NoLostUpdate
    BY DEF StoreInv
  <1>2. CASE history' = history
    BY <1>1, <1>2 DEF GoneIsEmpty, NoLostUpdate
  <1>3. ASSUME NEW q \in network, NEW m, AcceptsWith(q, m), GrowsBy(Written(q)),
               q.call.op # "get"
        PROVE  GoneIsEmpty' /\ NoLostUpdate'
    <2>1. /\ DOMAIN history' = DOMAIN history \cup {Len(history')}
          /\ Len(history') = Version + 1
          /\ \A i \in DOMAIN history : history'[i] = history[i]
          /\ history'[Len(history')] = Written(q)
      BY <1>3 DEF GrowsBy, Version
    <2>2. q \in Request /\ Formed(q) /\ Meets(q)
      BY <1>3 DEF AcceptsWith, AnswersWith
    <2>3. /\ Version \in Nat /\ DOMAIN history = 1 .. Version
      BY <1>1, Present
    <2>4. GoneIsEmpty'
      <3>1. ~Written(q).exists => Written(q).contents = {}
        BY <1>1, <2>2, WrittenType
      <3>2. ASSUME NEW i \in DOMAIN history', ~history'[i].exists
            PROVE  history'[i].contents = {}
        BY <1>1, <2>1, <3>1, <3>2 DEF GoneIsEmpty
      <3>3. QED BY <3>2 DEF GoneIsEmpty
    <2>5. ASSUME NEW i \in DOMAIN history', i > 1,
                 history'[i].change.call.op # "delete",
                 ~(/\ history'[i].change.call.op = "replace"
                   /\ ~history'[i].change.call.ifMatch)
          PROVE  history'[i - 1].contents \subseteq history'[i].contents
      <3>1. CASE i \in DOMAIN history
        <4>1. i - 1 \in DOMAIN history
          BY <2>3, <2>5, <3>1
        <4>2. history'[i] = history[i] /\ history'[i - 1] = history[i - 1]
          BY <2>1, <3>1, <4>1
        <4>3. history[i - 1].contents \subseteq history[i].contents
          BY <1>1, <2>5, <3>1, <4>2 DEF NoLostUpdate
        <4>4. QED BY <4>2, <4>3
      <3>2. CASE i = Len(history')
        <4>1. Version > 0 /\ i - 1 = Version /\ history'[i] = Written(q)
          BY <2>1, <2>3, <2>5, <3>2
        <4>2. history'[i - 1] = history[Version]
          BY <2>1, <2>3, <4>1
        <4>3. Written(q).change = q
          BY <1>1, <2>2, WrittenType
        <4>4. q.call.op \notin {"get", "delete"} /\ ~(q.call.op = "replace" /\ ~q.call.ifMatch)
          BY <1>3, <2>5, <4>1, <4>3
        <4>5. history[Version].contents \subseteq Written(q).contents
          BY <2>2, <4>1, <4>4, WrittenOver
        <4>6. QED BY <4>1, <4>2, <4>5
      <3>3. QED BY <2>1, <2>5, <3>1, <3>2
    <2>6. NoLostUpdate'
      BY <2>5 DEF NoLostUpdate
    <2>7. QED BY <2>4, <2>6
  <1>4. \/ history' = history
        \/ \E q \in network : \E m : AcceptsWith(q, m) /\ GrowsBy(Written(q)) /\ q.call.op # "get"
    BY Steps
    DEF vars, server, AsksWith, ReturnStep, ReturnsWith, AcceptsWith, RefusesWith
  <1>5. QED BY <1>2, <1>3, <1>4

\* Nothing has happened at first.
LEMMA InitStoreInv == Init => StoreInv
  <1> SUFFICES ASSUME Init PROVE StoreInv
    OBVIOUS
  <1>1. TypeOK
    <2>1. /\ history \in Seq(Entry) /\ Len(history) <= calls
      BY DEF Init
    <2>2. NoOutcome \in [ret : Result, status : Status \cup {0}]
      BY DEF NoOutcome, Result
    <2>3. Nothing \in [etag : 0 .. MaxCalls, contents : SUBSET Update] /\ 0 \in 0 .. MaxCalls
      BY StoreAssumption DEF Nothing
    <2>4. QED BY <2>1, <2>2, <2>3 DEF Init, TypeOK, Entry
  <1>2. Counted
    BY FS_EmptySet DEF Init, Counted
  <1>3. Numbered /\ NamesOne /\ TakesEffectOnce
    BY NoRequestIsNone DEF Init, Numbered, NamesOne, TakesEffectOnce
  <1>4. (\A q \in network : Formed(q)) /\ \A t \in Thread : HasAsked(t) /\ AnsweredTruly(t)
    BY DEF Init, HasAsked, AnsweredTruly
  <1>5. GoneIsEmpty /\ HeldIsAVersion /\ NoLostUpdate
    BY DEF Init, GoneIsEmpty, HeldIsAVersion, NoLostUpdate, Nothing
  <1>6. QED BY <1>1, <1>2, <1>3, <1>4, <1>5 DEF StoreInv

-----------------------------------------------------------------------------
(* The theorems.                                                            *)

\* The invariant holds whatever the programs and the network do.
THEOREM StoreInvariance == Spec => []StoreInv
  <1>1. StoreInv /\ [Next]_vars => StoreInv'
    BY CountedStep, TypeStep, NumbersStep, FormedStep, AnswerStep, HeldStep, HistoryStep
    DEF StoreInv
  <1>2. QED BY <1>1, InitStoreInv, PTL DEF Spec

\* A program holds a version of the object, with the contents it believes in.
THEOREM HeldIsVersion == Spec => []HeldIsAVersion
  <1>1. StoreInv => HeldIsAVersion
    BY DEF StoreInv
  <1>2. QED BY <1>1, StoreInvariance, PTL

\* A patch, or a replacement with an ETag, takes no update out of the object.
THEOREM NoUpdateIsLost == Spec => []NoLostUpdate
  <1>1. StoreInv => NoLostUpdate
    BY DEF StoreInv
  <1>2. QED BY <1>1, StoreInvariance, PTL

-----------------------------------------------------------------------------
(* The calls share the object as SharedObject promises.                     *)

\* Two requests under way are two calls.
LEMMA AbstractionIsOneToOne ==
    ASSUME StoreInv, NEW p \in network, NEW q \in network,
           AbstractRequest(p) = AbstractRequest(q)
    PROVE  p = q
  <1>1. p.id = q.id
    BY DEF AbstractRequest
  <1>2. QED BY <1>1 DEF StoreInv, NamesOne

\* A request is one that SharedObject knows.
LEMMA AbstractionType ==
    ASSUME NEW q \in Request, q.id \in q.contents, q.call.ifMatch <=> q.etag # 0
    PROVE  AbstractRequest(q) \in AbstractRequests
  <1>1. /\ q.id \in Update /\ q.etag \in 0 .. MaxCalls /\ q.contents \in SUBSET Update
        /\ q.call \in Call
    BY RequestFields
  <1>2. /\ q.call.op \in {"createWithId", "patch", "replace", "get", "delete"}
        /\ q.call.ifMatch \in BOOLEAN
        /\ q.call.ifMatch => q.call.op \in {"patch", "replace"}
    BY <1>1, CallFields
  <1>3. PICK a \in {"anything", "absent", "present", "version"} :
            a = Agrees(q.call) /\ (a = "version" <=> q.call.ifMatch)
    BY <1>2 DEF Agrees, TakesEtag
  <1>4. PICK d \in {"put", "patch", "delete", "get"} : d = Does(q.call)
    BY <1>2 DEF Does
  <1>5. AbstractRequest(q) = [id |-> q.id, agrees |-> a, etag |-> q.etag, does |-> d,
                              contents |-> q.contents]
    BY <1>3, <1>4 DEF AbstractRequest
  <1>6. QED BY <1>1, <1>3, <1>5 DEF AbstractRequests

\* A call that asks does so in SharedObject.
LEMMA AskIsAsk ==
    ASSUME StoreInv, NEW t \in Thread, NEW q, AsksWith(t, q)
    PROVE  Abstract!Ask(t)
  <1> DEFINE asked == [u \in Thread |-> AbstractRequest(request[u])]
             result == [u \in Thread |-> Learns(u)]
  <1>1. TypeOK
    BY DEF StoreInv
  <1>2. AbstractRequest(q) \in AbstractRequests
    <2>1. held[t].etag \in 0 .. MaxCalls
      BY <1>1 DEF TypeOK
    <2>2. q \in Request /\ q.id \in q.contents /\ (q.call.ifMatch <=> q.etag # 0)
      BY <2>1 DEF AsksWith
    <2>3. QED BY <2>2, AbstractionType
  <1>3. Learns(t) # "waiting"
    BY DEF AsksWith, Learns, Returned
  <1>4. /\ request' = [request EXCEPT ![t] = q] /\ request'[t] = q
        /\ \A u \in Thread \ {t} : request'[u] = request[u]
    BY <1>1 DEF AsksWith, TypeOK
  <1>5. asked' = [asked EXCEPT ![t] = AbstractRequest(q)]
    <2>1. asked' = [u \in Thread |-> AbstractRequest(request'[u])]
      OBVIOUS
    <2>2. \A u \in Thread : AbstractRequest(request'[u]) =
              IF u = t THEN AbstractRequest(q) ELSE AbstractRequest(request[u])
      BY <1>4
    <2>3. QED BY <2>1, <2>2
  <1>6. asked'[t] = AbstractRequest(q)
    BY <1>4
  <1>7. AbstractRequest(q).id = calls + 1
    BY DEF AbstractRequest, AsksWith
  <1>8. \A u \in Thread \ {t} : Learns(u)' = Learns(u)
    <2>1. ASSUME NEW u \in Thread \ {t} PROVE pc'[u] = pc[u] /\ outcome'[u] = outcome[u]
      BY <1>1, <2>1 DEF AsksWith, TypeOK
    <2>2. QED BY <2>1 DEF Learns, Returned
  <1>9. \/ /\ {AbstractRequest(p) : p \in network'}
                = {AbstractRequest(p) : p \in network} \cup {AbstractRequest(q)}
           /\ Learns(t)' = "waiting"
        \/ network' = network /\ Learns(t)' = "unknown"
    <2>1. CASE network' = network \cup {q} /\ pc' = [pc EXCEPT ![t] = "asked"]
      <3>1. Learns(t)' = "waiting"
        BY <1>1, <2>1 DEF TypeOK, Learns, Returned
      <3>2. QED BY <2>1, <3>1
    <2>2. CASE /\ network' = network /\ pc' = [pc EXCEPT ![t] = "returned"]
               /\ outcome' = [outcome EXCEPT ![t] = [ret |-> "LOWMEMORY", status |-> 0]]
      <3>1. pc'[t] = "returned" /\ outcome'[t].ret = "LOWMEMORY"
        BY <1>1, <2>2 DEF TypeOK
      <3>2. QED BY <2>2, <3>1 DEF Learns, Returned
    <2>3. QED BY <2>1, <2>2 DEF AsksWith
  <1>10. \/ result' = [result EXCEPT ![t] = "waiting"] /\ Learns(t)' = "waiting"
         \/ result' = [result EXCEPT ![t] = "unknown"] /\ Learns(t)' = "unknown"
    BY <1>8, <1>9
  <1>11. calls' = calls + 1 /\ history' = history
    BY DEF AsksWith
  <1>12. QED
    BY <1>2, <1>3, <1>5, <1>6, <1>7, <1>9, <1>10, <1>11 DEF Abstract!Ask

\* A call that returns does so in SharedObject: "ok" and "refused" are what the
\* server has done.
LEMMA ReturnIsReturn ==
    ASSUME StoreInv, NEW t \in Thread, ReturnStep(t)
    PROVE  Abstract!Return(t)
  <1>1. TypeOK /\ AnsweredTruly(t)
    BY DEF StoreInv
  <1>2. PICK result, status :
            /\ ReturnsWith(t, result, status)
            /\ result = "OK" => reply[t] # NoMessage /\ Success(reply[t].status)
            /\ result = "FAIL" => reply[t] # NoMessage /\ status \in {0, reply[t].status}
    BY DEF ReturnStep
  <1>3. /\ pc[t] = "asked" /\ pc'[t] = "returned"
        /\ outcome'[t].ret = result /\ outcome'[t].status = status
        /\ \A u \in Thread \ {t} : pc'[u] = pc[u] /\ outcome'[u] = outcome[u]
        /\ UNCHANGED <<history, network, calls, request>>
    BY <1>1, <1>2 DEF ReturnsWith, TypeOK
  <1>4. Learns(t) = "waiting"
    BY <1>3 DEF Learns, Returned
  <1>5. \A u \in Thread \ {t} : Learns(u)' = Learns(u)
    BY <1>3 DEF Learns, Returned
  <1>6. /\ Learns(t)' \in {"ok", "refused", "unknown"}
        /\ Learns(t)' = "ok" => result = "OK"
        /\ Learns(t)' = "refused" => result = "FAIL" /\ status # 0 /\ ~Success(status)
    BY <1>3 DEF Learns, Returned
  <1>7. ASSUME Learns(t)' \in {"ok", "refused"}
        PROVE  AbstractRequest(request[t]) \notin {AbstractRequest(q) : q \in network}
    <2>1. request[t] \notin network
      BY <1>1, <1>2, <1>3, <1>6, <1>7 DEF AnsweredTruly
    <2>2. ASSUME NEW q \in network, AbstractRequest(request[t]) = AbstractRequest(q)
          PROVE  FALSE
      <3>1. q.id = request[t].id
        BY <2>2 DEF AbstractRequest
      <3>2. QED BY <2>1, <3>1 DEF StoreInv, NamesOne
    <2>3. QED BY <2>2
  <1>8. ASSUME Learns(t)' = "ok"
        PROVE  \/ Does(request[t].call) = "get"
               \/ \E i \in DOMAIN history : history[i].change.id = request[t].id
    <2>1. /\ reply[t].etag \in DOMAIN history
          /\ request[t].call.op # "get" => history[reply[t].etag].change = request[t]
      BY <1>1, <1>2, <1>3, <1>6, <1>8 DEF AnsweredTruly
    <2>2. QED BY <2>1 DEF Does
  <1>9. ASSUME Learns(t)' = "refused"
        PROVE  \A i \in DOMAIN history : history[i].change.id # request[t].id
    BY <1>1, <1>2, <1>3, <1>6, <1>9 DEF AnsweredTruly
  <1> DEFINE learned == [u \in Thread |-> Learns(u)]
  <1>10. learned' = [learned EXCEPT ![t] = Learns(t)']
    BY <1>5
  <1>11. /\ AbstractRequest(request[t]).does = Does(request[t].call)
         /\ AbstractRequest(request[t]).id = request[t].id
    BY DEF AbstractRequest
  <1>12. QED
    BY <1>3, <1>4, <1>6, <1>7, <1>8, <1>9, <1>10, <1>11
    DEF Abstract!Return, Abstract!Changed

\* A function on the numbers to n is a sequence.
LEMMA FunctionIsSequence ==
    ASSUME NEW S, NEW n \in Nat, NEW f \in [1 .. n -> S]
    PROVE  f \in Seq(S) /\ Len(f) = n
  OBVIOUS

\* The history as SharedObject sees it.
AbstractHistory ==
    [i \in DOMAIN history |->
        [by |-> history[i].change.id, exists |-> history[i].exists,
         contents |-> history[i].contents]]

\* It is a sequence too.
LEMMA AbstractHistoryType ==
    ASSUME TypeOK
    PROVE  /\ Len(AbstractHistory) = Version
           /\ AbstractHistory \in Seq([by : Nat, exists : BOOLEAN, contents : SUBSET Update])
           /\ DOMAIN AbstractHistory = 1 .. Version
           /\ Abstract!Exists <=> Exists
           /\ Exists => AbstractHistory[Version].contents = Contents
  <1>1. Version \in Nat /\ DOMAIN history = 1 .. Version
    BY Present
  <1>2. ASSUME NEW i \in DOMAIN history
        PROVE  /\ history[i].change.id \in Nat /\ history[i].exists \in BOOLEAN
               /\ history[i].contents \in SUBSET Update
    <2>1. history[i] \in Entry
      BY Present
    <2>2. QED BY <2>1, RequestFields DEF Entry
  <1>3. AbstractHistory \in
            [1 .. Version -> [by : Nat, exists : BOOLEAN, contents : SUBSET Update]]
    BY <1>1, <1>2 DEF AbstractHistory
  <1>4. AbstractHistory \in Seq([by : Nat, exists : BOOLEAN, contents : SUBSET Update])
    BY <1>1, <1>3, FunctionIsSequence
  <1>5. Len(AbstractHistory) = Version /\ DOMAIN AbstractHistory = 1 .. Version
    BY <1>1, <1>3, <1>4
  <1>6. Version > 0 => /\ AbstractHistory[Version].exists = history[Version].exists
                       /\ AbstractHistory[Version].contents = history[Version].contents
    BY <1>1 DEF AbstractHistory
  <1>7. Abstract!Exists <=> Exists
    <2>1. Abstract!Version = Version
      BY <1>5 DEF Abstract!Version, AbstractHistory
    <2>2. Abstract!Exists <=> Version > 0 /\ AbstractHistory[Version].exists
      BY <2>1 DEF Abstract!Exists, AbstractHistory
    <2>3. QED BY <1>1, <1>6, <2>2 DEF Exists
  <1>8. Exists => AbstractHistory[Version].contents = Contents
    BY <1>6 DEF Exists, Contents
  <1>9. QED BY <1>4, <1>5, <1>7, <1>8

\* What the server makes of a request is what SharedObject makes of it.
LEMMA WrittenIsMade ==
    ASSUME StoreInv, NEW q \in Request, Formed(q), Meets(q), q.call.op # "get"
    PROVE  /\ Abstract!Agreed(AbstractRequest(q))
           /\ Abstract!Made(AbstractRequest(q)) =
                 [by |-> q.id, exists |-> Written(q).exists, contents |-> Written(q).contents]
  <1> DEFINE a == AbstractRequest(q)
  <1>1. TypeOK
    BY DEF StoreInv
  <1>2. /\ a.id = q.id /\ a.agrees = Agrees(q.call) /\ a.etag = q.etag
        /\ a.does = Does(q.call) /\ a.contents = q.contents
    BY DEF AbstractRequest
  <1>3. /\ q.call.op \in {"createWithId", "patch", "replace", "get", "delete"}
        /\ q.call.ifMatch \in BOOLEAN
        /\ q.call.ifMatch => q.call.op \in {"patch", "replace"}
    BY RequestFields, CallFields
  <1>4. Abstract!Version = Version
    BY <1>1, AbstractHistoryType DEF Abstract!Version, AbstractHistory
  <1>5. Abstract!Agreed(a)
    <2>1. CASE q.call.op = "createWithId"
      <3>1. a.agrees = "absent" /\ ~Exists
        BY <1>1, <1>2, <1>3, <2>1, MetPrecondition DEF Agrees, TakesEtag
      <3>2. QED BY <1>1, <3>1, AbstractHistoryType DEF Abstract!Agreed
    <2>2. CASE q.call.ifMatch
      <3>1. a.agrees = "version" /\ Exists /\ a.etag = Version
        BY <1>1, <1>2, <1>3, <2>2, MetPrecondition DEF Agrees, TakesEtag
      <3>2. QED BY <1>1, <1>4, <3>1, AbstractHistoryType DEF Abstract!Agreed
    <2>3. CASE q.call.op = "patch" /\ ~q.call.ifMatch
      <3>1. a.agrees = "absent" /\ ~Exists
        BY <1>1, <1>2, <2>3, MetPrecondition DEF Agrees, TakesEtag
      <3>2. QED BY <1>1, <3>1, AbstractHistoryType DEF Abstract!Agreed
    <2>4. CASE q.call.op = "replace" /\ ~q.call.ifMatch
      <3>1. a.agrees = "anything"
        BY <1>2, <2>4 DEF Agrees, TakesEtag
      <3>2. QED BY <3>1 DEF Abstract!Agreed
    <2>5. CASE q.call.op = "delete"
      <3>1. a.agrees = "present"
        BY <1>2, <1>3, <2>5 DEF Agrees, TakesEtag
      <3>2. q.headers = {}
        BY <1>3, <2>5 DEF Formed, Precondition
      <3>3. Exists
        BY <2>5, <3>2 DEF Meets
      <3>4. QED BY <1>1, <3>1, <3>3, AbstractHistoryType DEF Abstract!Agreed
    <2>6. QED BY <1>3, <2>1, <2>2, <2>3, <2>4, <2>5
  <1>6. (a.does # "delete") = Written(q).exists
    <2>1. a.does = "delete" <=> q.call.op = "delete"
      BY <1>2, <1>3 DEF Does
    <2>2. Written(q).exists \in BOOLEAN /\ (Written(q).exists <=> q.call.op # "delete")
      BY <1>1, WrittenType DEF Entry
    <2>3. QED BY <2>1, <2>2, Zenon
  <1> DEFINE made == CASE a.does = "put"    -> a.contents
                       [] a.does = "patch"  -> a.contents \cup
                             IF Abstract!Exists THEN AbstractHistory[Version].contents ELSE {}
                       [] a.does = "delete" -> {}
  <1>7. made = Written(q).contents
    <2>1. CASE q.call.op \in {"createWithId", "replace"}
      <3>1. a.does = "put" /\ Written(q).contents = q.contents
        BY <1>1, <1>2, <2>1, WrittenType DEF Does
      <3>2. QED BY <1>2, <3>1
    <2>2. CASE q.call.op = "delete"
      <3>1. a.does = "delete" /\ Written(q).contents = {}
        BY <1>1, <1>2, <2>2, WrittenType DEF Does
      <3>2. QED BY <3>1
    <2>3. CASE q.call.op = "patch"
      <3>1. a.does = "patch" /\ Written(q).contents = Contents \cup {q.id}
        BY <1>1, <1>2, <2>3, WrittenType DEF Does
      <3>2. made = a.contents \cup IF Abstract!Exists THEN AbstractHistory[Version].contents ELSE {}
        BY <3>1
      <3>3. made = q.contents \cup Contents
        BY <1>1, <1>2, <3>2, AbstractHistoryType DEF Contents
      <3>4. q.contents = Contents \cup {q.id}
        BY <1>1, <2>3, <3>1, WrittenAsBelieved
      <3>5. QED BY <3>1, <3>3, <3>4
    <2>4. QED BY <1>3, <2>1, <2>2, <2>3
  <1>8. Abstract!Made(a) = [by |-> a.id, exists |-> a.does # "delete", contents |-> made]
    BY <1>4, Zenon DEF Abstract!Made, AbstractHistory
  <1> HIDE DEF made
  <1>9. Abstract!Made(a) =
            [by |-> q.id, exists |-> Written(q).exists, contents |-> Written(q).contents]
    BY <1>2, <1>6, <1>7, <1>8, Zenon
  <1>10. QED BY <1>5, <1>9

\* The server's steps are steps of SharedObject: a read and a refusal close the
\* call, anything else takes effect.
LEMMA AnswerIsClose ==
    ASSUME StoreInv, NEW q \in network, NEW m, AnswersWith(q, m)
    PROVE  LET open == {AbstractRequest(p) : p \in network}
               asked == [t \in Thread |-> AbstractRequest(request[t])]
               result == [t \in Thread |-> Learns(t)]
           IN  /\ AbstractRequest(q) \in open
               /\ open' = open \ {AbstractRequest(q)}
               /\ asked' = asked /\ result' = result /\ calls' = calls
  <1>1. network' = network \ {q} /\ UNCHANGED <<calls, pc, request, outcome>>
    BY DEF AnswersWith
  <1>2. {AbstractRequest(p) : p \in network'} =
            {AbstractRequest(p) : p \in network} \ {AbstractRequest(q)}
    BY <1>1, AbstractionIsOneToOne
  <1>3. \A t \in Thread : Learns(t)' = Learns(t)
    BY <1>1 DEF Learns, Returned
  <1>4. QED BY <1>1, <1>2, <1>3

\* A version more in the history is a version more in SharedObject's.
LEMMA GrowthIsAppend ==
    ASSUME StoreInv, NEW e \in Entry, GrowsBy(e)
    PROVE  AbstractHistory' = Append(AbstractHistory,
               [by |-> e.change.id, exists |-> e.exists, contents |-> e.contents])
  <1>1. TypeOK
    BY DEF StoreInv
  <1>2. PICK a : a = [by |-> e.change.id, exists |-> e.exists, contents |-> e.contents]
    OBVIOUS
  <1>3. a \in [by : Nat, exists : BOOLEAN, contents : SUBSET Update]
    BY <1>2, RequestFields DEF Entry
  <1>4. PICK k : k = Append(AbstractHistory, a)
    OBVIOUS
  <1>5. /\ k \in Seq([by : Nat, exists : BOOLEAN, contents : SUBSET Update])
        /\ Len(k) = Version + 1 /\ Version \in Nat
        /\ k[Len(k)] = a
        /\ \A i \in DOMAIN AbstractHistory : k[i] = AbstractHistory[i]
        /\ DOMAIN AbstractHistory = 1 .. Version
    BY <1>1, <1>3, <1>4, Appended, AbstractHistoryType, Present
  <1>6. DOMAIN k = 1 .. Version + 1 /\ k = [i \in 1 .. Version + 1 |-> k[i]]
    BY <1>5
  <1>7. /\ DOMAIN history' = 1 .. Version + 1 /\ DOMAIN history = 1 .. Version
        /\ history'[Version + 1] = e
        /\ \A i \in 1 .. Version : history'[i] = history[i]
    BY <1>1, Present DEF GrowsBy, Version
  <1>8. ASSUME NEW i \in 1 .. Version + 1
        PROVE  k[i] = [by |-> history'[i].change.id, exists |-> history'[i].exists,
                       contents |-> history'[i].contents]
    <2>1. CASE i \in 1 .. Version
      BY <1>5, <1>7, <2>1 DEF AbstractHistory
    <2>2. CASE i = Version + 1
      BY <1>2, <1>5, <1>7, <2>2
    <2>3. QED BY <1>5, <2>1, <2>2
  <1>9. AbstractHistory' = [i \in 1 .. Version + 1 |->
            [by |-> history'[i].change.id, exists |-> history'[i].exists,
             contents |-> history'[i].contents]]
    BY <1>7 DEF AbstractHistory
  <1>10. QED BY <1>2, <1>4, <1>6, <1>8, <1>9

\* Every step is one of SharedObject's.
LEMMA StepIsShared ==
    ASSUME StoreInv, [Next]_vars
    PROVE  [Abstract!Next]_(Abstract!vars)
  <1>1. CASE UNCHANGED vars
    <2>1. UNCHANGED <<history, network, calls, pc, request, outcome>>
      BY <1>1 DEF vars, server, client
    <2>2. QED BY <2>1 DEF Abstract!vars, Learns, Returned
  <1>2. ASSUME NEW t \in Thread, ReturnStep(t) \/ \E q : AsksWith(t, q)
        PROVE  Abstract!Next
    BY <1>2, AskIsAsk, ReturnIsReturn DEF Abstract!Next
  <1>3. ASSUME NEW q \in network, NEW m, AcceptsWith(q, m) \/ RefusesWith(q, m)
        PROVE  Abstract!Next
    <2>1. AnswersWith(q, m)
      BY <1>3 DEF AcceptsWith, RefusesWith
    <2>2. CASE history' = history
      <3>1. Abstract!Close(AbstractRequest(q))
        BY <2>1, <2>2, AnswerIsClose DEF Abstract!Close
      <3>2. QED BY <3>1 DEF Abstract!Next
    <2>3. CASE AcceptsWith(q, m) /\ GrowsBy(Written(q)) /\ q.call.op # "get"
      <3>1. q \in Request /\ Formed(q) /\ Meets(q) /\ TypeOK
        BY <2>1, <2>3 DEF AcceptsWith, AnswersWith, StoreInv
      <3>2. Written(q) \in Entry /\ Written(q).change = q
        BY <3>1, WrittenType
      <3>3. AbstractHistory' = Append(AbstractHistory, Abstract!Made(AbstractRequest(q)))
        BY <2>3, <3>1, <3>2, GrowthIsAppend, WrittenIsMade
      <3>4. AbstractRequest(q).does # "get"
        BY <2>3 DEF AbstractRequest, Does
      <3>5. Abstract!TakeEffect(AbstractRequest(q))
        BY <2>1, <2>3, <3>1, <3>3, <3>4, AnswerIsClose, WrittenIsMade
        DEF Abstract!TakeEffect, AbstractHistory
      <3>6. AbstractRequest(q) \in {AbstractRequest(p) : p \in network}
        OBVIOUS
      <3>7. QED BY <3>5, <3>6 DEF Abstract!Next
    <2>4. QED BY <1>3, <2>2, <2>3 DEF AcceptsWith, RefusesWith
  <1>4. QED BY <1>1, <1>2, <1>3, Steps

\* A call takes effect at most once, at one moment, on a version its caller
\* agreed to change; "ok" means that it did and "refused" that it never will.
THEOREM SharesTheObject == Spec => ImplementsSharedObject
  <1>1. Init => Abstract!Init
    <2>1. ASSUME Init PROVE AbstractHistory = <<>>
      BY <2>1 DEF Init, AbstractHistory
    <2>2. QED BY <2>1 DEF Init, Abstract!Init, AbstractHistory, Learns, Returned
  <1>2. QED
    BY <1>1, StepIsShared, StoreInvariance, PTL DEF Spec, ImplementsSharedObject, Abstract!Spec

=============================================================================
