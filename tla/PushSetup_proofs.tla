-------------------------- MODULE PushSetup_proofs --------------------------
(***************************************************************************)
(* The programs that prepare for pushes can rely on what they are told:    *)
(* AnswersAreOfTheCall, OnlyStragglersUndo and WaitingAsToldSuffices are   *)
(* proved for any threads, jobs, status codes, tasks, faults and time the  *)
(* server takes.                                                           *)
(*                                                                         *)
(* The first holds because a reply that is accepted was made at a moment   *)
(* its caller is a witness of (Witnessed).  The second because no request  *)
(* for the opposite is under way while a call is unopposed (Undisturbed),  *)
(* and any other keeps what it was told (Told).  The third by counting: of *)
(* the calls of a task that failed, all but one are faults, and where one  *)
(* is not the endpoint is ready after the delay it was told (Waits).       *)
(***************************************************************************)
EXTENDS PushSetup, TLAPS

-----------------------------------------------------------------------------
(* The inductive invariant.                                                 *)

\* The server's replies; the bounds on tasks and faults are left out.
Message == [status : Status \cup {0}, delay : 0 .. Warmup, installation : Nat]

\* The types, without the bounds that the bounds on tasks and faults imply.
Types ==
    /\ subscribed \subseteq Target /\ topic \in BOOLEAN
    /\ warming \in Seq(0 .. Warmup)
    /\ late \in [Straggler -> Nat]
    /\ pc \in [Thread -> {"idle", "ready", "asked", "done", "gaveUp"}]
    /\ goal \in [Thread -> Op \cup {"none"}]
    /\ \A t \in Thread : pc[t] # "idle" => goal[t] \in Op
    /\ tries \in [Thread -> 0 .. MaxTries - 1]
    /\ faults \in [Thread -> 0 .. MaxFaults]
    /\ reply \in [Thread -> Message]
    /\ \A t \in Thread : /\ reply[t] = NoMessage \/ reply[t].status \in Status
                         /\ reply[t].installation <= Len(warming)
    /\ answer \in [Thread -> BOOLEAN]
    /\ delay \in [Thread -> 0 .. Warmup]
    /\ installed \in [Thread -> 0 .. Len(warming)]
    /\ seen \in [Thread -> SUBSET SUBSET Target]
    /\ unopposed \in [Thread -> BOOLEAN]

\* A reply is under way to a caller who waits for it.
Silent(t) == pc[t] # "asked" => reply[t] = NoMessage

\* What a reply says to t was so when the server made it, and t is a witness.
Witnessed(t) ==
    pc[t] = "asked" /\ reply[t] # NoMessage =>
        /\ goal[t] \in Subscribes /\ Accepts(goal[t], reply[t].status) =>
              \E s \in seen[t] : TargetOf(goal[t]) \in s
        /\ goal[t] \in Unsubscribes /\ Accepts(goal[t], reply[t].status) =>
              \E s \in seen[t] : TargetOf(goal[t]) \notin s
        /\ goal[t] \in UsesHead /\ Accepts(goal[t], reply[t].status) =>
              \E s \in seen[t] : Success(reply[t].status) = (TargetOf(goal[t]) \in s)

\* What the calls op are told is so now.
TopicSo(op) == op \in {"createTopic", "subscribeTopic"} => topic
IsSo(op) ==
    /\ op \in Subscribes => TargetOf(op) \in subscribed
    /\ op \in Unsubscribes => TargetOf(op) \notin subscribed
Told(t) ==
    pc[t] = "asked" /\ reply[t] # NoMessage /\ Accepts(goal[t], reply[t].status) =>
        TopicSo(goal[t]) /\ (unopposed[t] => IsSo(goal[t]))

\* Nobody disturbs a call that is unopposed.
Undisturbed(t) == unopposed[t] => ~Contested(goal[t])

\* The time that the endpoint t asks for still takes.
Remaining(t) == warming[installed[t]]

\* Of the calls of t's task that failed, "tries" and the one that is about to,
\* one at most is no fault, and then the endpoint is ready when t asks again.
Waits(t) ==
    goal[t] = "getEndpoint" /\ installed[t] # 0 =>
        /\ pc[t] = "ready" =>
              /\ tries[t] <= faults[t] + 1
              /\ tries[t] > faults[t] => Remaining(t) <= delay[t]
        /\ pc[t] = "asked" =>
              \/ /\ reply[t] = NoMessage \/ Success(reply[t].status)
                 /\ tries[t] <= faults[t] + 1
                 /\ tries[t] > faults[t] => Remaining(t) = 0
              \/ /\ reply[t].status = 503 /\ reply[t].delay > 0
                 /\ Remaining(t) <= reply[t].delay
                 /\ tries[t] <= faults[t]
              \/ /\ reply[t] # NoMessage /\ ~Success(reply[t].status)
                 /\ reply[t].delay = 0
                 /\ tries[t] <= faults[t]
                 /\ tries[t] = faults[t] => Remaining(t) = 0
        /\ pc[t] = "gaveUp" => faults[t] >= 2

PushInv ==
    /\ Types
    /\ \A t \in Thread : Silent(t) /\ Witnessed(t) /\ Undisturbed(t) /\ Told(t) /\ Waits(t)
    /\ AnswersAreOfTheCall /\ OnlyStragglersUndo

-----------------------------------------------------------------------------
(* What the operators do.                                                   *)

\* The calls of these programs.
LEMMA OpFields ==
    ASSUME NEW op \in Op
    PROVE  /\ op \notin {"register", "create", "createWithId", "patch", "replace", "get", "delete"}
           /\ op \in Subscribes \/ op \in Unsubscribes \/ op \in UsesHead
              \/ op \in {"createTopic", "installPush", "getEndpoint"}
           /\ [op |-> op, ifMatch |-> FALSE, wantEtag |-> FALSE, wantId |-> FALSE] \in Call
           /\ op # "none"
  <1>1. op \in {"subscribeBucket", "unsubscribeBucket", "isBucketSubscribed",
                "createTopic", "subscribeTopic", "unsubscribeTopic",
                "isTopicSubscribed", "installPush", "getEndpoint"}
    BY PushAssumption
  <1>2. [op |-> op, ifMatch |-> FALSE, wantEtag |-> FALSE, wantId |-> FALSE]
            \in [op : Op, ifMatch : BOOLEAN, wantEtag : BOOLEAN, wantId : BOOLEAN]
    OBVIOUS
  <1>3. QED BY <1>1, <1>2 DEF Subscribes, Unsubscribes, UsesHead, Call

\* A refusal is told of, or there is no memory to read it.
LEMMA ErrorReading ==
    ASSUME NEW r \in Reply, NEW got, NEW o \in ErrorReply(r, got)
    PROVE  o.ret \in {"FAIL", "LOWMEMORY"} /\ o.given = got
  <1>1. ASSUME NEW k, o = Refused(r, k, got) PROVE o.ret = "FAIL" /\ o.given = got
    BY <1>1 DEF Refused, Ends
  <1>2. CASE o = NoMemory(got)
    BY <1>2 DEF NoMemory, Ends
  <1>3. o = NoMemory(got) \/ \E k : o = Refused(r, k, got)
    BY DEF ErrorReply, Reply
  <1>4. QED BY <1>1, <1>2, <1>3

\* So is the answer of a server whose endpoint is not ready.
LEMMA NotReadyReading ==
    ASSUME NEW r \in Reply, NEW o \in ParseNotReady(r)
    PROVE  o.ret \in {"FAIL", "LOWMEMORY"} /\ "installationId" \notin o.given
  <1>1. CASE r.body \in NotJson
    <2>1. o = NoMemory({})
      BY <1>1 DEF ParseNotReady
    <2>2. QED BY <2>1 DEF NoMemory, Ends
  <1>2. CASE r.body \notin NotJson
    <2>1. PICK got \in {{}, {"retryAfter"}} : o \in ErrorReply(r, got)
      BY <1>2 DEF ParseNotReady
    <2>2. QED BY <2>1, ErrorReading
  <1>3. QED BY <1>1, <1>2

\* An endpoint is read, or malformed, or there is no memory for it.
LEMMA EndpointReading ==
    ASSUME NEW r \in Reply, NEW o \in ParseEndpoint(r)
    PROVE  o.ret \in {"OK", "FAIL", "LOWMEMORY"} /\ "installationId" \notin o.given
  <1>1. /\ NoMemory({}).ret = "LOWMEMORY" /\ NoMemory({}).given = {}
        /\ Succeeds({"endpoint"}).ret = "OK" /\ Succeeds({"endpoint"}).given = {"endpoint"}
    BY DEF NoMemory, Succeeds, Ends
  <1>2. CASE r.body \in NotJson
    BY <1>1, <1>2 DEF ParseEndpoint, NotJson
  <1>3. CASE r.body = "partial"
    BY <1>1, <1>3 DEF ParseEndpoint, NotJson, Ends
  <1>4. CASE r.body = "full"
    <2>1. \A made :
              /\ [NoMemory({}) EXCEPT !.blocks = EndpointRollback(made)].ret = "LOWMEMORY"
              /\ [NoMemory({}) EXCEPT !.blocks = EndpointRollback(made)].given = {}
      BY DEF NoMemory, Ends
    <2>2. \/ o = Succeeds({"endpoint"})
          \/ \E made : o = [NoMemory({}) EXCEPT !.blocks = EndpointRollback(made)]
      BY <1>4 DEF ParseEndpoint, NotJson
    <2>3. CASE o = Succeeds({"endpoint"})
      BY <1>1, <2>3
    <2>4. ASSUME NEW made, o = [NoMemory({}) EXCEPT !.blocks = EndpointRollback(made)]
          PROVE  o.ret = "LOWMEMORY" /\ o.given = {}
      BY <2>1, <2>4
    <2>5. QED BY <2>2, <2>3, <2>4
  <1>5. QED BY <1>2, <1>3, <1>4 DEF Reply, NotJson

\* Only a reply that the call accepts lets it end with KIIE_OK, and one that
\* asks whether there is a subscription has the answer then.
LEMMA CallReading ==
    ASSUME NEW c, c.op \in Op, NEW r \in Reply, NEW o \in ParseReply(c, r)
    PROVE  /\ o.ret \in {"OK", "FAIL", "LOWMEMORY"}
           /\ o.ret = "OK" => Accepts(c.op, r.status)
           /\ o.ret = "OK" /\ c.op \in UsesHead => "isSubscribed" \in o.given
  <1>1. ASSUME NEW got
        PROVE  /\ Succeeds(got).ret = "OK" /\ Succeeds(got).given = got
               /\ NoMemory(got).ret = "LOWMEMORY" /\ Malformed(r, got).ret = "FAIL"
    BY DEF Succeeds, NoMemory, Malformed, Ends
  <1>2. CASE ~Accepts(c.op, r.status)
    <2>1. o \in ParseNotReady(r) \/ o \in ErrorReply(r, {})
      BY <1>2 DEF ParseReply
    <2>2. o.ret \in {"FAIL", "LOWMEMORY"}
      BY <2>1, NotReadyReading, ErrorReading
    <2>3. QED BY <2>2
  <1>3. CASE Accepts(c.op, r.status)
    <2>1. o \in ParseAccepted(c, r)
      BY <1>3 DEF ParseReply
    <2>2. CASE c.op \in UsesHead
      <3>1. o = Succeeds({"isSubscribed"})
        BY <2>1, <2>2 DEF ParseAccepted, UsesHead
      <3>2. QED BY <1>1, <1>3, <3>1
    <2>3. CASE c.op = "installPush"
      <3>1. o \in ParseInstall(r)
        BY <2>1, <2>3 DEF ParseAccepted, UsesHead
      <3>2. o \in {NoMemory({}), Malformed(r, {}), Succeeds({"installationId"})}
        BY <3>1 DEF ParseInstall, NotJson, Reply
      <3>3. QED BY <1>1, <1>3, <2>3, <3>2 DEF UsesHead
    <2>4. CASE c.op = "getEndpoint"
      <3>1. o \in ParseEndpoint(r)
        BY <2>1, <2>4 DEF ParseAccepted, UsesHead
      <3>2. QED BY <1>3, <2>4, <3>1, EndpointReading DEF UsesHead
    <2>5. CASE c.op \notin UsesHead \cup {"installPush", "getEndpoint"}
      <3>1. o = Succeeds({})
        BY <2>1, <2>5, OpFields DEF ParseAccepted
      <3>2. QED BY <1>1, <1>3, <2>5, <3>1
    <2>6. QED BY <2>2, <2>3, <2>4, <2>5
  <1>4. QED BY <1>2, <1>3

\* What a call makes of a reply with the status s.
LEMMA Reading ==
    ASSUME NEW op \in Op, NEW s \in Status, NEW o \in Readings[op][s]
    PROVE  /\ o.ret \in Result
           /\ o.ret = "OK" => Accepts(op, s)
           /\ o.ret = "OK" /\ op \in UsesHead => "isSubscribed" \in o.given
           /\ op = "getEndpoint" =>
                 o.ret \in {"OK", "FAIL", "LOWMEMORY"} /\ "installationId" \notin o.given
           /\ op = "getEndpoint" /\ s = 503 => o.ret \in {"FAIL", "LOWMEMORY"}
  <1> DEFINE c == [op |-> op, ifMatch |-> FALSE, wantEtag |-> FALSE, wantId |-> FALSE]
  <1>1. c \in Call /\ c.op = op
    BY OpFields
  <1>2. Readings[op][s] =
            UNION {{[ret |-> p.ret, status |-> p.err.status, given |-> p.given] :
                       p \in ParseReply(c, r)} :
                   r \in {r \in ReplyTo(op) : r.status = s}}
    BY DEF Readings
  <1>3. PICK r \in {r \in ReplyTo(op) : r.status = s} :
            \E p \in ParseReply(c, r) :
                o = [ret |-> p.ret, status |-> p.err.status, given |-> p.given]
    BY <1>2
  <1>4. PICK p \in ParseReply(c, r) :
            o = [ret |-> p.ret, status |-> p.err.status, given |-> p.given]
    BY <1>3
  <1>5. /\ r \in Reply /\ r.status = s
        /\ o.ret = p.ret /\ o.given = p.given
    BY <1>4 DEF ReplyTo
  <1>7. p.ret \in Result
    BY <1>1, <1>5, CallReading DEF Result
  <1>8. p.ret = "OK" => Accepts(op, s)
    BY <1>1, <1>5, CallReading
  <1>9. p.ret = "OK" /\ op \in UsesHead => "isSubscribed" \in p.given
    BY <1>1, <1>5, CallReading
  <1>10. ASSUME op = "getEndpoint"
         PROVE  p.ret \in {"OK", "FAIL", "LOWMEMORY"} /\ "installationId" \notin p.given
    <2>1. CASE Accepts(op, s)
      <3>1. p \in ParseEndpoint(r)
        BY <1>1, <1>5, <1>10, <2>1 DEF ParseReply, ParseAccepted, UsesHead
      <3>2. QED BY <1>5, <3>1, EndpointReading
    <2>2. CASE ~Accepts(op, s) /\ s = 503
      <3>1. p \in ParseNotReady(r)
        BY <1>1, <1>5, <1>10, <2>2 DEF ParseReply
      <3>2. QED BY <1>5, <3>1, NotReadyReading
    <2>3. CASE ~Accepts(op, s) /\ s # 503
      <3>1. p \in ErrorReply(r, {})
        BY <1>1, <1>5, <1>10, <2>3 DEF ParseReply
      <3>2. QED BY <1>5, <3>1, ErrorReading
    <2>4. QED BY <2>1, <2>2, <2>3
  <1>11. ASSUME op = "getEndpoint", s = 503
         PROVE  p.ret \in {"FAIL", "LOWMEMORY"}
    <2>1. ~Accepts(op, s)
      BY <1>11 DEF Accepts, Success, UsesHead
    <2>2. p \in ParseNotReady(r)
      BY <1>1, <1>5, <1>11, <2>1 DEF ParseReply
    <2>3. QED BY <1>5, <2>2, NotReadyReading
  <1>12. QED BY <1>5, <1>7, <1>8, <1>9, <1>10, <1>11, ZenonT(60)

-----------------------------------------------------------------------------
(* What the actions do.                                                     *)

\* A program that has nothing to do with a step; it may be a witness of it.
Stays(u) ==
    /\ pc'[u] = pc[u] /\ goal'[u] = goal[u] /\ tries'[u] = tries[u] /\ faults'[u] = faults[u]
    /\ reply'[u] = reply[u] /\ answer'[u] = answer[u] /\ delay'[u] = delay[u]
    /\ installed'[u] = installed[u]
    /\ seen[u] \subseteq seen'[u]
    /\ unopposed'[u] => unopposed[u]

\* The return of a call.
ReturnsWith(t, result) ==
    /\ pc'[t] \in {"ready", "done", "gaveUp"}
    /\ pc'[t] = "done" <=> result = "OK"
    /\ pc'[t] = "ready" /\ goal[t] = "getEndpoint" => tries'[t] = tries[t] + 1
    /\ pc'[t] = "gaveUp" /\ goal[t] = "getEndpoint" => tries[t] + 1 >= MaxTries
    /\ result = "OK" => seen'[t] = seen[t]
    /\ unopposed'[t] => unopposed[t] /\ result = "OK"

\* What Return changes is the thread's own.
ReturnChanges(t) ==
    /\ pc' \in [Thread -> {"idle", "ready", "asked", "done", "gaveUp"}]
    /\ tries' \in [Thread -> 0 .. MaxTries - 1]
    /\ seen' \in [Thread -> SUBSET SUBSET Target]
    /\ unopposed' \in [Thread -> BOOLEAN]
    /\ \A u \in Thread \ {t} : /\ pc'[u] = pc[u] /\ tries'[u] = tries[u]
                               /\ seen'[u] = seen[u] /\ unopposed'[u] = unopposed[u]

\* A call returns so, and the program counts its failures if it is to.
LEMMA Returning ==
    ASSUME Types, NEW t \in Thread, NEW result \in Result, NEW status, goal[t] \in Op,
           Return(t, result, status)
    PROVE  ReturnsWith(t, result) /\ ReturnChanges(t)
  <1>1. tries[t] \in 0 .. 2 /\ MaxTries = 3
    BY DEF Types, MaxTries
  <1>2. PICK n \in 0 .. 3 : /\ n = IF goal[t] = "getEndpoint" THEN tries[t] + 1 ELSE 0
                            /\ goal[t] = "getEndpoint" => n = tries[t] + 1
                            /\ goal[t] # "getEndpoint" => n = 0
    BY <1>1
  <1>3. PICK again \in BOOLEAN : again = GoesOn(goal[t], result, status, n)
    BY DEF GoesOn
  <1>4. /\ again => result # "OK" /\ n < 3
        /\ ~again /\ result # "OK" /\ goal[t] = "getEndpoint" => n >= 3
    <2>1. again <=> GoesOn(goal[t], result, status, n)
      BY <1>3, Zenon
    <2>2. again => result # "OK" /\ n < 3
      BY <1>1, <1>2, <2>1 DEF GoesOn
    <2>3. ~again /\ result # "OK" /\ goal[t] = "getEndpoint" => n >= 3
      BY <1>1, <1>2, <2>1 DEF GoesOn, Unsubscribes
    <2>4. QED BY <2>2, <2>3
  <1>5. PICK there \in {"ready", "done", "gaveUp"} :
            there = IF again THEN "ready" ELSE IF result = "OK" THEN "done" ELSE "gaveUp"
    OBVIOUS
  <1>6. PICK count \in 0 .. 2 : count = IF again THEN n ELSE 0
    BY <1>4
  <1>7. seen[t] \in SUBSET SUBSET Target
    BY DEF Types
  <1>8. PICK w \in SUBSET SUBSET Target : w = IF result = "OK" THEN seen[t] ELSE {}
    BY <1>7
  <1>9. PICK b \in BOOLEAN : b = (unopposed[t] /\ result = "OK")
    OBVIOUS
  <1>10. /\ pc' = [pc EXCEPT ![t] = there]
         /\ tries' = [tries EXCEPT ![t] = count]
    BY <1>2, <1>3, <1>5, <1>6, Zenon DEF Return
  <1>11. /\ seen' = [seen EXCEPT ![t] = w]
         /\ unopposed' = [unopposed EXCEPT ![t] = b]
    BY <1>8, <1>9 DEF Return
  <1>12. ReturnChanges(t)
    BY <1>1, <1>10, <1>11 DEF Types, ReturnChanges
  <1>13. pc'[t] = there /\ tries'[t] = count /\ seen'[t] = w /\ unopposed'[t] = b
    BY <1>10, <1>11 DEF Types
  <1>14. b => unopposed[t] /\ result = "OK"
    BY <1>9, Zenon
  <1>15. ReturnsWith(t, result)
    BY <1>1, <1>2, <1>4, <1>5, <1>6, <1>8, <1>13, <1>14 DEF ReturnsWith
  <1>16. QED BY <1>12, <1>15

\* A fault is counted.
LEMMA Counting ==
    ASSUME Types, NEW t \in Thread, Spoilt(t)
    PROVE  /\ faults' \in [Thread -> 0 .. MaxFaults] /\ faults'[t] = faults[t] + 1
           /\ \A u \in Thread \ {t} : faults'[u] = faults[u]
  <1>1. faults[t] \in 0 .. MaxFaults /\ faults[t] < MaxFaults
    BY DEF Types, Spoilt
  <1>2. PICK n \in 0 .. MaxFaults : n = faults[t] + 1
    BY <1>1, PushAssumption
  <1>3. faults' = [faults EXCEPT ![t] = n]
    BY <1>2 DEF Spoilt
  <1>4. QED BY <1>2, <1>3 DEF Types

\* The task begins.
LEMMA Beginning ==
    ASSUME Types, NEW t \in Thread, Begin(t)
    PROVE  /\ pc[t] # "asked" /\ pc'[t] = "ready" /\ goal'[t] \in Op
           /\ tries'[t] = 0 /\ faults'[t] = 0 /\ unopposed'[t] = FALSE
           /\ \A u \in Thread \ {t} : Stays(u)
           /\ UNCHANGED <<subscribed, topic, warming, late, reply, installed>>
           /\ Types'
  <1>1. PICK op \in Job[t] : goal' = [goal EXCEPT ![t] = op]
    BY DEF Begin
  <1>2. op \in Op
    BY PushAssumption
  <1>3. /\ pc' = [pc EXCEPT ![t] = "ready"] /\ faults' = [faults EXCEPT ![t] = 0]
        /\ tries' = [tries EXCEPT ![t] = 0] /\ delay' = [delay EXCEPT ![t] = 0]
        /\ answer' = [answer EXCEPT ![t] = FALSE] /\ seen' = [seen EXCEPT ![t] = {}]
        /\ unopposed' = [unopposed EXCEPT ![t] = FALSE]
        /\ UNCHANGED <<subscribed, topic, warming, late, reply, installed>>
        /\ pc[t] # "asked"
    BY DEF Begin, server
  <1>4. /\ pc'[t] = "ready" /\ goal'[t] = op /\ tries'[t] = 0 /\ faults'[t] = 0
        /\ unopposed'[t] = FALSE
    BY <1>1, <1>3 DEF Types
  <1>5. \A u \in Thread \ {t} : Stays(u)
    BY <1>1, <1>3 DEF Types, Stays
  <1>6. Types'
    <2>1. /\ pc' \in [Thread -> {"idle", "ready", "asked", "done", "gaveUp"}]
          /\ goal' \in [Thread -> Op \cup {"none"}]
          /\ \A u \in Thread : pc'[u] # "idle" => goal'[u] \in Op
      BY <1>1, <1>2, <1>3 DEF Types
    <2>2. /\ tries' \in [Thread -> 0 .. MaxTries - 1]
          /\ faults' \in [Thread -> 0 .. MaxFaults]
          /\ delay' \in [Thread -> 0 .. Warmup]
      BY <1>3, PushAssumption DEF Types, MaxTries
    <2>3. answer' \in [Thread -> BOOLEAN] /\ unopposed' \in [Thread -> BOOLEAN]
      <3>1. PICK no \in BOOLEAN : no = FALSE
        OBVIOUS
      <3>2. answer' = [answer EXCEPT ![t] = no] /\ unopposed' = [unopposed EXCEPT ![t] = no]
        BY <1>3, <3>1, Zenon
      <3>3. QED BY <3>2 DEF Types
    <2>4. seen' \in [Thread -> SUBSET SUBSET Target]
      BY <1>3 DEF Types
    <2>5. QED BY <1>3, <2>1, <2>2, <2>3, <2>4 DEF Types
  <1>7. QED BY <1>2, <1>3, <1>4, <1>5, <1>6

\* A sequence is a function on the numbers to its length.
LEMMA SequenceElement ==
    ASSUME NEW S, NEW w \in Seq(S)
    PROVE  Len(w) \in Nat /\ DOMAIN w = 1 .. Len(w) /\ \A i \in 1 .. Len(w) : w[i] \in S
  OBVIOUS

\* The other way round.
LEMMA FunctionSequence ==
    ASSUME NEW S, NEW n \in Nat, NEW f \in [1 .. n -> S]
    PROVE  f \in Seq(S) /\ Len(f) = n
  OBVIOUS

\* Appending to a sequence.
LEMMA SequenceAppend ==
    ASSUME NEW S, NEW h \in Seq(S), NEW e \in S, NEW k, k = Append(h, e)
    PROVE  /\ k \in Seq(S) /\ Len(k) = Len(h) + 1
           /\ \A i \in 1 .. Len(h) : k[i] = h[i]
  <1>1. k \in Seq(S) /\ Len(k) = Len(h) + 1 /\ Len(h) \in Nat
    OBVIOUS
  <1>2. ASSUME NEW i \in 1 .. Len(h) PROVE k[i] = h[i]
    BY <1>1, <1>2
  <1>3. QED BY <1>1, <1>2

\* Endpoints get ready and new ones are asked for.
Cools ==
    /\ warming' \in Seq(0 .. Warmup)
    /\ Len(warming) \in Nat /\ Len(warming') \in Nat /\ Len(warming) <= Len(warming')
    /\ \A i \in 1 .. Len(warming) :
          /\ warming[i] \in 0 .. Warmup /\ warming'[i] \in 0 .. Warmup
          /\ warming'[i] <= warming[i]

\* Where they stay as they are.
LEMMA Cool ==
    ASSUME Types, warming' = warming
    PROVE  Cools
  <1>1. warming \in Seq(0 .. Warmup)
    BY DEF Types
  <1>2. Len(warming) \in Nat
    BY <1>1
  <1>3. ASSUME NEW i \in 1 .. Len(warming) PROVE warming[i] \in 0 .. Warmup /\ warming[i] <= warming[i]
    <2>1. warming[i] \in 0 .. Warmup
      BY <1>1, SequenceElement
    <2>2. QED BY <2>1, PushAssumption
  <1>4. QED BY <1>1, <1>2, <1>3 DEF Cools

\* Sleeping as told makes an endpoint ready.
LEMMA Sleeping ==
    ASSUME Types, NEW t \in Thread,
           warming' = [i \in DOMAIN warming |-> Less(warming[i], delay[t])]
    PROVE  /\ Cools
           /\ \A i \in 1 .. Len(warming) : warming[i] <= delay[t] => warming'[i] = 0
  <1>1. /\ warming \in Seq(0 .. Warmup) /\ delay[t] \in 0 .. Warmup
    BY DEF Types
  <1>2. Len(warming) \in Nat /\ DOMAIN warming = 1 .. Len(warming)
    BY <1>1
  <1>3. ASSUME NEW i \in 1 .. Len(warming)
        PROVE  /\ warming[i] \in 0 .. Warmup /\ warming'[i] \in 0 .. Warmup
               /\ warming'[i] <= warming[i]
               /\ warming[i] <= delay[t] => warming'[i] = 0
    <2>1. warming[i] \in 0 .. Warmup
      BY <1>1, SequenceElement
    <2>2. warming'[i] = Less(warming[i], delay[t])
      BY <1>2, Zenon
    <2>3. QED BY <1>1, <2>1, <2>2, PushAssumption DEF Less
  <1>4. warming' \in [1 .. Len(warming) -> 0 .. Warmup]
    BY <1>2, <1>3
  <1>5. warming' \in Seq(0 .. Warmup) /\ Len(warming') = Len(warming)
    BY <1>2, <1>4, FunctionSequence
  <1>6. QED BY <1>2, <1>3, <1>5 DEF Cools

\* The call sends its request or finds no memory.
LEMMA Asking ==
    ASSUME Types, NEW t \in Thread, Ask(t)
    PROVE  /\ pc[t] = "ready"
           /\ Cools
           /\ goal[t] = "getEndpoint" =>
                 \A i \in 1 .. Len(warming) : warming[i] <= delay[t] => warming'[i] = 0
           /\ \/ /\ pc'[t] = "asked" /\ faults'[t] = faults[t] /\ tries'[t] = tries[t]
                 /\ unopposed'[t] => ~Contested(goal[t])
                 /\ \A u \in Thread \ {t} : unopposed'[u] => ~Opposes(goal[t], goal[u])
              \/ /\ faults'[t] = faults[t] + 1 /\ ReturnsWith(t, "LOWMEMORY")
           /\ \A u \in Thread \ {t} : Stays(u)
           /\ UNCHANGED <<subscribed, topic, late, goal, reply, delay, installed>>
           /\ Types'
  <1>1. /\ pc[t] = "ready" /\ goal[t] \in Op
        /\ UNCHANGED <<subscribed, topic, late, goal, reply, answer, delay, installed>>
    BY DEF Ask, Types
  <1>2. /\ Cools
        /\ goal[t] = "getEndpoint" =>
              \A i \in 1 .. Len(warming) : warming[i] <= delay[t] => warming'[i] = 0
    <2>1. CASE goal[t] = "getEndpoint"
      BY <2>1, Sleeping DEF Ask
    <2>2. CASE goal[t] # "getEndpoint"
      BY <2>2, Cool DEF Ask
    <2>3. QED BY <2>1, <2>2
  <1>3. /\ warming' \in Seq(0 .. Warmup)
        /\ \A u \in Thread : reply'[u].installation <= Len(warming')
        /\ installed' \in [Thread -> 0 .. Len(warming')]
    <2>1. \A u \in Thread : reply[u].installation \in Nat /\ reply[u].installation <= Len(warming)
      BY DEF Types, Message
    <2>2. \A u \in Thread : reply'[u].installation <= Len(warming')
      BY <1>1, <1>2, <2>1 DEF Cools
    <2>3. installed' \in [Thread -> 0 .. Len(warming')]
      BY <1>1, <1>2 DEF Types, Cools
    <2>4. QED BY <1>2, <2>2, <2>3 DEF Cools
  <1>4. CASE /\ pc' = [pc EXCEPT ![t] = "asked"]
             /\ seen' = [seen EXCEPT ![t] = {subscribed}]
             /\ unopposed' = [u \in Thread |->
                   IF u = t THEN ~Contested(goal[t])
                   ELSE unopposed[u] /\ ~Opposes(goal[t], goal[u])]
             /\ UNCHANGED <<faults, tries>>
    <2>1. /\ unopposed'[t] => ~Contested(goal[t])
          /\ \A u \in Thread \ {t} :
                unopposed'[u] => unopposed[u] /\ ~Opposes(goal[t], goal[u])
      BY <1>4, Zenon
    <2>2. pc'[t] = "asked" /\ faults'[t] = faults[t] /\ tries'[t] = tries[t]
      BY <1>4 DEF Types
    <2>3. ASSUME NEW u \in Thread \ {t} PROVE Stays(u)
      <3>1. pc'[u] = pc[u] /\ seen'[u] = seen[u] /\ (unopposed'[u] => unopposed[u])
        BY <1>4, <2>1, <2>3 DEF Types
      <3>2. QED BY <1>1, <1>4, <3>1 DEF Stays
    <2>4. Types'
      <3>1. /\ pc' \in [Thread -> {"idle", "ready", "asked", "done", "gaveUp"}]
            /\ \A u \in Thread : pc'[u] # "idle" => goal'[u] \in Op
        BY <1>1, <1>4 DEF Types
      <3>2. seen' \in [Thread -> SUBSET SUBSET Target]
        BY <1>4 DEF Types
      <3>3. unopposed' \in [Thread -> BOOLEAN]
        <4>1. \A u \in Thread : (IF u = t THEN ~Contested(goal[t])
                                 ELSE unopposed[u] /\ ~Opposes(goal[t], goal[u])) \in BOOLEAN
          BY Zenon
        <4>2. QED BY <1>4, <4>1, Zenon
      <3>4. QED BY <1>1, <1>3, <1>4, <3>1, <3>2, <3>3 DEF Types
    <2>5. QED BY <1>1, <1>2, <2>1, <2>2, <2>3, <2>4
  <1>5. CASE Spoilt(t) /\ Return(t, "LOWMEMORY", 0)
    <2>1. ReturnsWith(t, "LOWMEMORY") /\ ReturnChanges(t)
      BY <1>1, <1>5, Returning DEF Result
    <2>2. /\ faults' \in [Thread -> 0 .. MaxFaults] /\ faults'[t] = faults[t] + 1
          /\ \A u \in Thread \ {t} : faults'[u] = faults[u]
      BY <1>5, Counting
    <2>3. \A u \in Thread \ {t} : Stays(u)
      BY <1>1, <2>1, <2>2 DEF Stays, ReturnChanges
    <2>4. \A u \in Thread : pc'[u] # "idle" => goal'[u] \in Op
      BY <1>1, <2>1 DEF Types, ReturnChanges
    <2>5. Types'
      BY <1>1, <1>3, <2>1, <2>2, <2>4 DEF Types, ReturnChanges
    <2>6. QED BY <1>1, <1>2, <2>1, <2>2, <2>3, <2>5
  <1>6. QED BY <1>4, <1>5 DEF Ask

\* The adapter fails.
LEMMA Failing ==
    ASSUME Types, NEW t \in Thread, FailExchange(t)
    PROVE  /\ pc[t] = "asked" /\ reply'[t] = NoMessage
           /\ faults'[t] = faults[t] + 1 /\ ReturnsWith(t, "ADAPTER")
           /\ reply[t] # NoMessage => late' = late
           /\ \A o \in Straggler : o # goal[t] => late'[o] = late[o]
           /\ \A u \in Thread \ {t} : Stays(u)
           /\ UNCHANGED <<subscribed, topic, warming, goal, delay, installed>>
           /\ Types'
  <1>1. /\ pc[t] = "asked" /\ goal[t] \in Op
        /\ reply' = [reply EXCEPT ![t] = NoMessage]
        /\ UNCHANGED <<subscribed, topic, warming, goal, answer, delay, installed>>
    BY DEF FailExchange, Types, server
  <1>2. ReturnsWith(t, "ADAPTER") /\ ReturnChanges(t)
    BY <1>1, Returning DEF FailExchange, Result
  <1>3. /\ faults' \in [Thread -> 0 .. MaxFaults] /\ faults'[t] = faults[t] + 1
        /\ \A u \in Thread \ {t} : faults'[u] = faults[u]
    BY Counting DEF FailExchange
  <1>4. /\ late' \in [Straggler -> Nat] /\ (reply[t] # NoMessage => late' = late)
        /\ \A o \in Straggler : o # goal[t] => late'[o] = late[o]
    <2>1. CASE reply[t] = NoMessage /\ goal[t] \in Straggler
      <3>1. PICK n \in Nat : n = late[goal[t]] + 1
        BY <2>1 DEF Types
      <3>2. late' = [late EXCEPT ![goal[t]] = n]
        BY <2>1, <3>1 DEF FailExchange
      <3>3. QED BY <2>1, <3>2 DEF Types
    <2>2. CASE ~(reply[t] = NoMessage /\ goal[t] \in Straggler)
      BY <2>2 DEF FailExchange, Types
    <2>3. QED BY <2>1, <2>2
  <1>5. /\ reply' \in [Thread -> Message] /\ reply'[t] = NoMessage
        /\ \A u \in Thread \ {t} : reply'[u] = reply[u]
        /\ \A u \in Thread : reply'[u].installation <= Len(warming')
    <2>1. NoMessage \in Message /\ NoMessage.installation = 0
      BY PushAssumption DEF NoMessage, Message
    <2>2. Len(warming) \in Nat
      BY DEF Types
    <2>3. QED BY <1>1, <2>1, <2>2 DEF Types
  <1>6. \A u \in Thread \ {t} : Stays(u)
    BY <1>1, <1>2, <1>3, <1>5 DEF Stays, ReturnChanges
  <1>7. \A u \in Thread : pc'[u] # "idle" => goal'[u] \in Op
    BY <1>1, <1>2 DEF Types, ReturnChanges
  <1>8. Types'
    BY <1>1, <1>2, <1>3, <1>4, <1>5, <1>7 DEF Types, ReturnChanges
  <1>9. QED BY <1>1, <1>2, <1>3, <1>4, <1>5, <1>6, <1>8

\* The reply is read.
LEMMA Receiving ==
    ASSUME Types, NEW t \in Thread, Receive(t)
    PROVE  /\ pc[t] = "asked" /\ reply[t] # NoMessage /\ reply'[t] = NoMessage
           /\ \E result \in Result :
                 /\ ReturnsWith(t, result)
                 /\ result = "OK" => Accepts(goal[t], reply[t].status)
                 /\ result = "OK" /\ goal[t] \in UsesHead => answer'[t] = Success(reply[t].status)
                 /\ goal[t] = "getEndpoint" => result \in {"OK", "FAIL", "LOWMEMORY"}
                 /\ goal[t] = "getEndpoint" /\ reply[t].status = 503 /\ result # "LOWMEMORY" =>
                       delay'[t] = DelayAfter(reply[t], delay[t])
                 /\ result = "LOWMEMORY" \/ (Success(reply[t].status) /\ result = "FAIL") =>
                       faults'[t] = faults[t] + 1
           /\ faults'[t] \in {faults[t], faults[t] + 1}
           /\ delay'[t] \in {delay[t], DelayAfter(reply[t], delay[t])}
           /\ goal[t] = "getEndpoint" => installed'[t] = installed[t]
           /\ \A u \in Thread \ {t} : Stays(u)
           /\ UNCHANGED <<subscribed, topic, warming, late, goal>>
           /\ Types'
  <1>1. /\ pc[t] = "asked" /\ reply[t] # NoMessage /\ goal[t] \in Op
        /\ reply' = [reply EXCEPT ![t] = NoMessage]
        /\ reply[t].status \in Status
        /\ UNCHANGED <<subscribed, topic, warming, late, goal>>
    BY DEF Receive, Types, server
  <1>2. PICK o \in Readings[goal[t]][reply[t].status] :
          /\ goal[t] = "getEndpoint" /\ reply[t].status = 503 /\ o.ret = "FAIL" =>
                 "retryAfter" \in o.given
          /\ IF o.ret = "LOWMEMORY" \/ (Success(reply[t].status) /\ o.ret = "FAIL")
             THEN Spoilt(t) ELSE UNCHANGED faults
          /\ delay' = IF "retryAfter" \in o.given
                      THEN [delay EXCEPT ![t] = DelayAfter(reply[t], @)] ELSE delay
          /\ installed' = IF "installationId" \in o.given
                          THEN [installed EXCEPT ![t] = reply[t].installation]
                          ELSE installed
          /\ answer' = IF "isSubscribed" \in o.given
                       THEN [answer EXCEPT ![t] = IsSubscribed(reply[t].status)]
                       ELSE answer
          /\ Return(t, o.ret, o.status)
    BY DEF Receive
  <1>3. /\ o.ret \in Result
        /\ o.ret = "OK" => Accepts(goal[t], reply[t].status)
        /\ o.ret = "OK" /\ goal[t] \in UsesHead => "isSubscribed" \in o.given
        /\ goal[t] = "getEndpoint" =>
              o.ret \in {"OK", "FAIL", "LOWMEMORY"} /\ "installationId" \notin o.given
        /\ goal[t] = "getEndpoint" /\ reply[t].status = 503 =>
              o.ret \in {"FAIL", "LOWMEMORY"}
    BY <1>1, Reading
  <1>4. ReturnsWith(t, o.ret) /\ ReturnChanges(t)
    BY <1>1, <1>2, <1>3, Returning
  <1>5. /\ faults' \in [Thread -> 0 .. MaxFaults] /\ faults'[t] \in {faults[t], faults[t] + 1}
        /\ o.ret = "LOWMEMORY" \/ (Success(reply[t].status) /\ o.ret = "FAIL") =>
              faults'[t] = faults[t] + 1
        /\ \A u \in Thread \ {t} : faults'[u] = faults[u]
    <2>1. CASE o.ret = "LOWMEMORY" \/ (Success(reply[t].status) /\ o.ret = "FAIL")
      <3>1. Spoilt(t)
        BY <1>2, <2>1
      <3>2. QED BY <3>1, Counting
    <2>2. CASE ~(o.ret = "LOWMEMORY" \/ (Success(reply[t].status) /\ o.ret = "FAIL"))
      <3>1. faults' = faults
        BY <1>2, <2>2
      <3>2. QED BY <2>2, <3>1 DEF Types
    <2>3. QED BY <2>1, <2>2
  <1>6. /\ delay' \in [Thread -> 0 .. Warmup]
        /\ delay'[t] \in {delay[t], DelayAfter(reply[t], delay[t])}
        /\ goal[t] = "getEndpoint" /\ reply[t].status = 503 /\ o.ret # "LOWMEMORY" =>
              delay'[t] = DelayAfter(reply[t], delay[t])
        /\ \A u \in Thread \ {t} : delay'[u] = delay[u]
    <2>1. PICK d \in 0 .. Warmup : d = DelayAfter(reply[t], delay[t])
      BY DEF DelayAfter, Types, Message
    <2>2. CASE "retryAfter" \in o.given
      <3>1. delay' = [delay EXCEPT ![t] = d]
        BY <1>2, <2>1, <2>2
      <3>2. QED BY <2>1, <3>1 DEF Types
    <2>3. CASE "retryAfter" \notin o.given
      <3>1. delay' = delay
        BY <1>2, <2>3
      <3>2. ~(goal[t] = "getEndpoint" /\ reply[t].status = 503 /\ o.ret # "LOWMEMORY")
        BY <1>2, <1>3, <2>3
      <3>3. QED BY <3>1, <3>2 DEF Types
    <2>4. QED BY <2>2, <2>3
  <1>7. /\ installed' \in [Thread -> 0 .. Len(warming')]
        /\ goal[t] = "getEndpoint" => installed'[t] = installed[t]
        /\ \A u \in Thread \ {t} : installed'[u] = installed[u]
    <2>1. reply[t].installation \in 0 .. Len(warming)
      <3>1. reply[t].installation \in Nat /\ reply[t].installation <= Len(warming)
        BY DEF Types, Message
      <3>2. Len(warming) \in Nat
        BY DEF Types
      <3>3. QED BY <3>1, <3>2
    <2>2. CASE "installationId" \in o.given
      <3>1. installed' = [installed EXCEPT ![t] = reply[t].installation]
        BY <1>2, <2>2
      <3>2. QED BY <1>1, <1>3, <2>1, <2>2, <3>1 DEF Types
    <2>3. CASE "installationId" \notin o.given
      BY <1>1, <1>2, <2>3 DEF Types
    <2>4. QED BY <2>2, <2>3
  <1>8. /\ answer' \in [Thread -> BOOLEAN]
        /\ o.ret = "OK" /\ goal[t] \in UsesHead => answer'[t] = Success(reply[t].status)
        /\ \A u \in Thread \ {t} : answer'[u] = answer[u]
    <2>1. PICK b \in BOOLEAN : b = Success(reply[t].status)
      BY DEF Success
    <2>2. CASE "isSubscribed" \in o.given
      <3>1. answer' = [answer EXCEPT ![t] = b]
        BY <1>2, <2>1, <2>2, Zenon DEF IsSubscribed
      <3>2. answer' \in [Thread -> BOOLEAN] /\ answer'[t] = b
            /\ \A u \in Thread \ {t} : answer'[u] = answer[u]
        BY <3>1 DEF Types
      <3>3. QED BY <2>1, <3>2, Zenon
    <2>3. CASE "isSubscribed" \notin o.given
      BY <1>2, <1>3, <2>3 DEF Types
    <2>4. QED BY <2>2, <2>3
  <1>9. /\ reply' \in [Thread -> Message] /\ reply'[t] = NoMessage
        /\ \A u \in Thread \ {t} : reply'[u] = reply[u]
        /\ \A u \in Thread : /\ reply'[u] = NoMessage \/ reply'[u].status \in Status
                             /\ reply'[u].installation <= Len(warming')
    <2>1. NoMessage \in Message /\ NoMessage.installation = 0
      BY PushAssumption DEF NoMessage, Message
    <2>2. Len(warming) \in Nat
      BY DEF Types
    <2>3. QED BY <1>1, <2>1, <2>2 DEF Types
  <1>10. \A u \in Thread \ {t} : Stays(u)
    BY <1>1, <1>4, <1>5, <1>6, <1>7, <1>8, <1>9 DEF Stays, ReturnChanges
  <1>11. \A u \in Thread : pc'[u] # "idle" => goal'[u] \in Op
    BY <1>1, <1>4 DEF Types, ReturnChanges
  <1>12. Types'
    BY <1>1, <1>4, <1>5, <1>6, <1>7, <1>8, <1>9, <1>11 DEF Types, ReturnChanges
  <1>13. QED BY <1>1, <1>3, <1>4, <1>5, <1>6, <1>7, <1>8, <1>9, <1>10, <1>12

\* What a request makes of what the server keeps is what the call asks for.
LEMMA ServesAsAsked ==
    ASSUME Types, NEW op \in Op, Serves(op)
    PROVE  /\ subscribed' \subseteq Target /\ topic' \in BOOLEAN
           /\ TopicSo(op)' /\ IsSo(op)'
           /\ topic => topic'
           /\ \A o : ~Opposes(op, o) /\ IsSo(o) => IsSo(o)'
           /\ op \in UsesHead => subscribed' = subscribed
           /\ Cools
           /\ op = "installPush" => Len(warming') = Len(warming) + 1
           /\ op # "installPush" => warming' = warming
  <1>1. TargetOf(op) \in Target
    BY DEF TargetOf, Target
  <1>2. /\ subscribed' \subseteq Target
        /\ op \in Subscribes => TargetOf(op) \in subscribed'
        /\ op \in Unsubscribes => TargetOf(op) \notin subscribed'
        /\ op \in UsesHead => subscribed' = subscribed
    <2>1. CASE op \in Subscribes
      BY <1>1, <2>1 DEF Serves, Types, Subscribes, Unsubscribes, UsesHead
    <2>2. CASE op \in Unsubscribes
      BY <1>1, <2>2 DEF Serves, Types, Subscribes, Unsubscribes, UsesHead
    <2>3. CASE op \notin Subscribes \cup Unsubscribes
      BY <2>3 DEF Serves, Types
    <2>4. QED BY <2>1, <2>2, <2>3
  <1>3. /\ topic' \in BOOLEAN /\ (topic => topic')
        /\ op \in {"createTopic", "subscribeTopic"} => topic'
    BY DEF Serves, Types
  <1>4. TopicSo(op)' /\ IsSo(op)'
    BY <1>2, <1>3 DEF TopicSo, IsSo
  <1>5. ASSUME NEW o, ~Opposes(op, o), IsSo(o) PROVE IsSo(o)'
    BY <1>5 DEF Serves, Opposes, IsSo, Subscribes, Unsubscribes
  <1>6. /\ Cools
        /\ op = "installPush" => Len(warming') = Len(warming) + 1
        /\ op # "installPush" => warming' = warming
    <2>1. CASE op # "installPush"
      BY <2>1, Cool DEF Serves
    <2>2. CASE op = "installPush"
      <3>1. PICK k : k = Append(warming, Warmup)
        OBVIOUS
      <3>2. warming \in Seq(0 .. Warmup) /\ Warmup \in 0 .. Warmup
        BY PushAssumption DEF Types
      <3>3. /\ k \in Seq(0 .. Warmup) /\ Len(k) = Len(warming) + 1
            /\ \A i \in 1 .. Len(warming) : k[i] = warming[i]
        BY <3>1, <3>2, SequenceAppend
      <3>4. \A i \in 1 .. Len(warming) : warming[i] \in 0 .. Warmup
        BY <3>2, SequenceElement
      <3>5. Len(warming) \in Nat
        BY <3>2
      <3>6. \A i \in 1 .. Len(warming) : k[i] \in 0 .. Warmup /\ k[i] <= warming[i]
        BY <3>3, <3>4, PushAssumption
      <3>7. warming' = k
        BY <2>2, <3>1 DEF Serves
      <3>8. QED BY <2>2, <3>3, <3>4, <3>5, <3>6, <3>7 DEF Cools
    <2>3. QED BY <2>1, <2>2
  <1>7. QED BY <1>2, <1>3, <1>4, <1>5, <1>6

\* The server answers a caller who waits.
LEMMA Serving ==
    ASSUME Types, NEW t \in Thread, Serve(t)
    PROVE  /\ t \in Underway
           /\ reply'[t] # NoMessage
           /\ TopicSo(goal[t])' /\ IsSo(goal[t])'
           /\ topic => topic'
           /\ \A o : ~Opposes(goal[t], o) /\ IsSo(o) => IsSo(o)'
           /\ subscribed' \in seen'[t]
           /\ goal[t] \in UsesHead => Success(reply'[t].status) = (TargetOf(goal[t]) \in subscribed')
           /\ goal[t] = "getEndpoint" /\ installed[t] # 0 =>
                 /\ warming' = warming
                 /\ \/ Success(reply'[t].status) /\ warming[installed[t]] = 0
                    \/ /\ reply'[t].status = 503 /\ reply'[t].delay > 0
                       /\ warming[installed[t]] <= reply'[t].delay
                       /\ warming[installed[t]] # 0
           /\ \A u \in Thread \ {t} : Stays(u)
           /\ Cools
           /\ UNCHANGED <<late, pc, goal, faults, tries, answer, delay, installed, unopposed>>
           /\ Types'
  <1>1. /\ t \in Thread /\ pc[t] = "asked" /\ reply[t] = NoMessage /\ goal[t] \in Op
        /\ UNCHANGED <<late, pc, goal, faults, tries, answer, delay, installed, unopposed>>
        /\ t \in Underway /\ Serves(goal[t])
        /\ seen' = [u \in Thread |-> IF pc[u] = "asked" THEN seen[u] \cup {subscribed'}
                                                        ELSE seen[u]]
    BY DEF Serve, Underway, Types, program, Witness
  <1>2. PICK m \in Replies(goal[t], installed[t]) : reply' = [reply EXCEPT ![t] = m]
    BY DEF Serve
  <1>3. /\ subscribed' \subseteq Target /\ topic' \in BOOLEAN
        /\ \A op : op = goal[t] => TopicSo(op)' /\ IsSo(op)'
        /\ topic => topic'
        /\ \A o : ~Opposes(goal[t], o) /\ IsSo(o) => IsSo(o)'
        /\ goal[t] \in UsesHead => subscribed' = subscribed
        /\ Cools
        /\ goal[t] = "installPush" => Len(warming') = Len(warming) + 1
        /\ goal[t] # "installPush" => warming' = warming
    BY <1>1, ServesAsAsked
  <1>4. /\ Len(warming) \in Nat /\ Len(warming') \in Nat /\ Len(warming) <= Len(warming')
        /\ warming' \in Seq(0 .. Warmup)
    BY <1>3 DEF Cools
  <1>5. ASSUME NEW s \in Nat
        PROVE  Says(s) = [status |-> s, delay |-> 0, installation |-> 0]
    BY DEF Says, NoMessage
  <1>6. /\ m \in Message /\ m.status \in {200, 404, 409, 503}
        /\ m.installation <= Len(warming')
        /\ goal[t] \in UsesHead => m.status = IF TargetOf(goal[t]) \in subscribed THEN 200 ELSE 404
        /\ goal[t] = "getEndpoint" /\ installed[t] # 0 =>
                 \/ m.status = 200 /\ warming[installed[t]] = 0
                 \/ /\ m.status = 503 /\ m.delay > 0
                    /\ warming[installed[t]] <= m.delay
                    /\ warming[installed[t]] # 0
    <2>1. ASSUME NEW s \in {200, 404, 409, 503}, m = Says(s)
          PROVE  /\ m \in Message /\ m.status = s /\ m.installation = 0
      BY <1>5, <2>1, PushAssumption DEF Message
    <2>2. CASE goal[t] \in Subscribes \cup Unsubscribes \cup UsesHead \cup {"createTopic"}
      <3>1. \E s \in {200, 404, 409, 503} :
                /\ m = Says(s)
                /\ goal[t] \in UsesHead => s = IF TargetOf(goal[t]) \in subscribed THEN 200 ELSE 404
        BY <1>2, <2>2 DEF Replies, Subscribes, Unsubscribes, UsesHead
      <3>2. goal[t] # "getEndpoint"
        BY <2>2 DEF Subscribes, Unsubscribes, UsesHead
      <3>3. QED BY <1>4, <2>1, <3>1, <3>2
    <2>3. CASE goal[t] = "installPush"
      <3>1. m = [Says(200) EXCEPT !.installation = Len(warming) + 1]
        BY <1>2, <2>3 DEF Replies, Subscribes, Unsubscribes, UsesHead
      <3>2. m = [status |-> 200, delay |-> 0, installation |-> Len(warming')]
        BY <1>3, <1>5, <2>3, <3>1
      <3>3. m \in Message /\ m.status = 200 /\ m.installation = Len(warming')
        BY <1>4, <3>2, PushAssumption DEF Message
      <3>4. QED BY <1>4, <2>3, <3>3 DEF UsesHead
    <2>4. CASE goal[t] = "getEndpoint" /\ installed[t] = 0
      <3>1. m = Says(404)
        BY <1>2, <2>4 DEF Replies, Subscribes, Unsubscribes, UsesHead
      <3>2. QED BY <1>4, <2>1, <2>4, <3>1 DEF UsesHead
    <2>5. CASE goal[t] = "getEndpoint" /\ installed[t] # 0
      <3>1. installed[t] \in 1 .. Len(warming) /\ warming[installed[t]] \in 0 .. Warmup
        BY <1>3, <1>4, <2>5 DEF Types, Cools
      <3>2. m \in IF warming[installed[t]] = 0 THEN {Says(200)}
                  ELSE {[Says(503) EXCEPT !.delay = d] : d \in warming[installed[t]] .. Warmup}
        BY <1>2, <2>5 DEF Replies, Subscribes, Unsubscribes, UsesHead
      <3>3. CASE warming[installed[t]] = 0
        BY <1>4, <2>1, <2>5, <3>2, <3>3 DEF UsesHead
      <3>4. CASE warming[installed[t]] # 0
        <4>1. PICK d \in warming[installed[t]] .. Warmup : m = [Says(503) EXCEPT !.delay = d]
          BY <3>2, <3>4
        <4>2. m = [status |-> 503, delay |-> d, installation |-> 0]
          BY <1>5, <4>1
        <4>3. d \in 0 .. Warmup /\ d > 0 /\ warming[installed[t]] <= d
          BY <3>1, <3>4, PushAssumption
        <4>4. /\ m \in Message /\ m.status = 503 /\ m.delay = d /\ m.installation = 0
          BY <4>2, <4>3, PushAssumption DEF Message
        <4>5. QED BY <1>4, <2>5, <3>4, <4>3, <4>4 DEF UsesHead
      <3>5. QED BY <3>3, <3>4
    <2>6. QED BY <1>1, <2>2, <2>3, <2>4, <2>5, OpFields
  <1>7. reply'[t] = m /\ \A u \in Thread \ {t} : reply'[u] = reply[u]
    BY <1>2 DEF Types
  <1>8. m # NoMessage
    BY <1>6 DEF NoMessage
  <1>9. subscribed' \in seen'[t] /\ \A u \in Thread : seen[u] \subseteq seen'[u]
    BY <1>1
  <1>10. \A u \in Thread \ {t} : Stays(u)
    BY <1>1, <1>7, <1>9 DEF Stays
  <1>11. Types'
    <2>1. \A u \in Thread : /\ reply'[u] \in Message
                            /\ reply'[u] = NoMessage \/ reply'[u].status \in Status
                            /\ reply'[u].installation <= Len(warming')
      <3>1. ASSUME NEW u \in Thread, u # t
            PROVE  /\ reply[u] \in Message
                   /\ reply[u] = NoMessage \/ reply[u].status \in Status
                   /\ reply[u].installation <= Len(warming')
        <4>1. reply[u].installation \in Nat /\ reply[u].installation <= Len(warming)
          BY DEF Types, Message
        <4>2. reply[u].installation <= Len(warming')
          BY <1>4, <4>1
        <4>3. QED BY <4>2 DEF Types
      <3>2. m.status \in Status
        BY <1>6, PushAssumption
      <3>3. QED BY <1>6, <1>7, <3>1, <3>2
    <2>2. reply' \in [Thread -> Message]
      BY <1>2, <1>6 DEF Types
    <2>3. installed' \in [Thread -> 0 .. Len(warming')]
      BY <1>1, <1>4 DEF Types
    <2>4. seen' \in [Thread -> SUBSET SUBSET Target]
      BY <1>1, <1>3 DEF Types
    <2>5. QED BY <1>1, <1>3, <1>4, <2>1, <2>2, <2>3, <2>4 DEF Types
  <1>12. Success(m.status) <=> m.status = 200
    BY <1>6 DEF Success
  <1>13. goal[t] \in UsesHead => Success(m.status) = (TargetOf(goal[t]) \in subscribed')
    <2>1. ASSUME goal[t] \in UsesHead
          PROVE Success(m.status) <=> TargetOf(goal[t]) \in subscribed'
      BY <1>3, <1>6, <1>12, <2>1
    <2>2. Success(m.status) \in BOOLEAN
      BY DEF Success
    <2>3. QED BY <2>1, <2>2
  <1>14. goal[t] = "getEndpoint" => goal[t] # "installPush"
    OBVIOUS
  <1>15. QED BY <1>1, <1>3, <1>6, <1>7, <1>8, <1>9, <1>10, <1>11, <1>12, <1>13, <1>14

\* A late request is served, or lost.
LEMMA ServingLate ==
    ASSUME Types, NEW op \in Straggler, ServeLate(op)
    PROVE  /\ late[op] # 0
           /\ \A u \in Thread : Stays(u)
           /\ Cools
           /\ topic => topic'
           /\ \A o : ~Opposes(op, o) /\ IsSo(o) => IsSo(o)'
           /\ \A o \in Straggler : late'[o] # 0 => late[o] # 0
           /\ UNCHANGED <<pc, goal, reply>>
           /\ Types'
  <1>1. /\ late[op] > 0 /\ op \in Op
        /\ UNCHANGED <<pc, goal, faults, tries, reply, answer, delay, installed, unopposed>>
        /\ seen' = [u \in Thread |-> IF pc[u] = "asked" THEN seen[u] \cup {subscribed'}
                                                        ELSE seen[u]]
    BY DEF ServeLate, Straggler, program, Witness
  <1>2. /\ subscribed' \subseteq Target /\ topic' \in BOOLEAN /\ Cools
        /\ topic => topic'
        /\ \A o : ~Opposes(op, o) /\ IsSo(o) => IsSo(o)'
    <2>1. CASE Serves(op)
      BY <1>1, <2>1, ServesAsAsked
    <2>2. CASE UNCHANGED server
      BY <2>2, Cool DEF Types, server, IsSo
    <2>3. QED BY <2>1, <2>2 DEF ServeLate
  <1>3. late' \in [Straggler -> Nat] /\ \A o \in Straggler : late'[o] # 0 => late[o] # 0
    <2>1. late[op] \in Nat
      BY DEF Types
    <2>2. PICK n \in Nat : n = late[op] - 1
      BY <1>1, <2>1
    <2>3. late' = [late EXCEPT ![op] = n]
      BY <2>2 DEF ServeLate
    <2>4. QED BY <1>1, <2>3 DEF Types
  <1>4. \A u \in Thread : Stays(u)
    BY <1>1 DEF Stays
  <1>5. Types'
    <2>1. \A u \in Thread : reply[u].installation \in Nat /\ reply[u].installation <= Len(warming)
      BY DEF Types, Message
    <2>2. \A u \in Thread : reply'[u].installation <= Len(warming')
      BY <1>1, <1>2, <2>1 DEF Cools
    <2>3. installed' \in [Thread -> 0 .. Len(warming')]
      BY <1>1, <1>2 DEF Types, Cools
    <2>4. seen' \in [Thread -> SUBSET SUBSET Target]
      BY <1>1, <1>2 DEF Types
    <2>5. QED BY <1>1, <1>2, <1>3, <2>2, <2>3, <2>4 DEF Types, Cools
  <1>6. late[op] # 0
    BY <1>1 DEF Types
  <1>7. QED BY <1>1, <1>2, <1>3, <1>4, <1>5, <1>6

\* The server refuses.
LEMMA Refusing ==
    ASSUME Types, NEW t \in Thread, Refuse(t)
    PROVE  /\ t \in Underway
           /\ faults'[t] = faults[t] + 1
           /\ reply'[t] # NoMessage /\ reply'[t].delay = 0
           /\ ~Success(reply'[t].status) /\ ~Accepts(goal[t], reply'[t].status)
           /\ \A u \in Thread \ {t} : Stays(u)
           /\ UNCHANGED <<subscribed, topic, warming, late, pc, goal, tries, delay, installed,
                          seen, unopposed>>
           /\ Types'
  <1>1. /\ t \in Underway /\ Spoilt(t)
        /\ UNCHANGED <<subscribed, topic, warming, late, pc, goal, tries, answer, delay,
                       installed, seen, unopposed>>
    BY DEF Refuse, server, program
  <1>2. PICK s \in {s \in Status : ~Success(s)} \ {404, 409} :
            reply' = [reply EXCEPT ![t] = Says(s)]
    BY DEF Refuse
  <1>3. s \in Status /\ ~Success(s) /\ s \notin {404, 409}
    OBVIOUS
  <1>4. s # 0
    BY <1>3, ExchangeAssumption
  <1>5. PICK m : m = Says(s)
    OBVIOUS
  <1>6. m = [status |-> s, delay |-> 0, installation |-> 0]
    BY <1>5 DEF Says, NoMessage
  <1>7. m \in Message /\ m.status = s /\ m.delay = 0 /\ m.installation = 0 /\ m # NoMessage
    BY <1>3, <1>4, <1>6, PushAssumption DEF Message, NoMessage
  <1>8. /\ reply' \in [Thread -> Message] /\ reply'[t] = m
        /\ \A u \in Thread \ {t} : reply'[u] = reply[u]
    BY <1>2, <1>5, <1>7 DEF Types
  <1>9. /\ faults' \in [Thread -> 0 .. MaxFaults] /\ faults'[t] = faults[t] + 1
        /\ \A u \in Thread \ {t} : faults'[u] = faults[u]
    BY <1>1, Counting
  <1>10. ~Accepts(goal[t], s)
    BY <1>3 DEF Accepts
  <1>11. \A u \in Thread \ {t} : Stays(u)
    BY <1>1, <1>8, <1>9 DEF Stays
  <1>12. Types'
    <2>1. Len(warming) \in Nat
      BY DEF Types
    <2>2. \A u \in Thread : /\ reply'[u] = NoMessage \/ reply'[u].status \in Status
                            /\ reply'[u].installation <= Len(warming)
      <3>1. \A u \in Thread : /\ reply[u] = NoMessage \/ reply[u].status \in Status
                              /\ reply[u].installation <= Len(warming)
        BY DEF Types
      <3>2. 0 <= Len(warming)
        BY <2>1
      <3>3. QED BY <1>3, <1>7, <1>8, <3>1, <3>2
    <2>3. QED BY <1>1, <1>8, <1>9, <2>2 DEF Types
  <1>13. QED BY <1>1, <1>3, <1>7, <1>8, <1>9, <1>10, <1>11, <1>12

-----------------------------------------------------------------------------
(* The steps.                                                               *)

\* A step that is not a thread's own disturbs no answer.
LEMMA OthersStay ==
    ASSUME PushInv, NEW u \in Thread, Stays(u), Cools
    PROVE  Silent(u)' /\ Witnessed(u)' /\ Waits(u)'
  <1>1. Types /\ Silent(u) /\ Witnessed(u) /\ Waits(u)
    BY DEF PushInv
  <1>2. Silent(u)' /\ Witnessed(u)'
    BY <1>1 DEF Silent, Witnessed, Stays
  <1>3. Waits(u)'
    <2>1. /\ pc'[u] = pc[u] /\ goal'[u] = goal[u] /\ tries'[u] = tries[u]
          /\ faults'[u] = faults[u] /\ reply'[u] = reply[u] /\ delay'[u] = delay[u]
          /\ installed'[u] = installed[u]
      BY DEF Stays
    <2>2. SUFFICES ASSUME installed[u] # 0 PROVE Waits(u)'
      BY <2>1 DEF Waits
    <2>3. /\ warming[installed[u]] \in Nat /\ warming'[installed[u]] \in Nat
          /\ warming'[installed[u]] <= warming[installed[u]]
      <3>1. installed[u] \in 1 .. Len(warming)
        BY <1>1, <2>2 DEF Types, Cools
      <3>2. QED BY <3>1, PushAssumption, SMTT(30) DEF Cools
    <2>4. delay[u] \in Nat /\ reply[u].delay \in Nat
      BY <1>1, PushAssumption DEF Types, Message
    <2>5. QED BY <1>1, <2>1, <2>3, <2>4 DEF Waits, Remaining
  <1>4. QED BY <1>2, <1>3

\* The step of a thread is its own, and the thread keeps its promises.
LEMMA OwnStep ==
    ASSUME PushInv, NEW t \in Thread,
           Begin(t) \/ Ask(t) \/ FailExchange(t) \/ Receive(t) \/ Serve(t) \/ Refuse(t)
    PROVE  /\ Types' /\ Cools
           /\ \A u \in Thread \ {t} : Stays(u)
           /\ Silent(t)' /\ Witnessed(t)'
  <1>1. Types /\ Silent(t) /\ Witnessed(t)
    BY DEF PushInv
  <1>2. CASE Begin(t)
    BY <1>1, <1>2, Beginning, Cool DEF Silent, Witnessed
  <1>3. CASE Ask(t)
    <2>1. /\ reply'[t] = NoMessage
      BY <1>1, <1>3, Asking DEF Silent
    <2>2. QED BY <1>1, <1>3, <2>1, Asking DEF Silent, Witnessed
  <1>4. CASE FailExchange(t)
    BY <1>1, <1>4, Failing, Cool DEF Silent, Witnessed, ReturnsWith
  <1>5. CASE Receive(t)
    BY <1>1, <1>5, Receiving, Cool DEF Silent, Witnessed
  <1>6. CASE Serve(t)
    <2>1. /\ pc'[t] = "asked" /\ goal'[t] = goal[t] /\ subscribed' \in seen'[t]
          /\ IsSo(goal[t])'
          /\ goal[t] \in UsesHead => Success(reply'[t].status) = (TargetOf(goal[t]) \in subscribed')
      BY <1>1, <1>6, Serving DEF Underway
    <2>2. Silent(t)' /\ Witnessed(t)'
      BY <2>1 DEF Silent, Witnessed, IsSo
    <2>3. QED BY <1>1, <1>6, <2>2, Serving
  <1>7. CASE Refuse(t)
    <2>1. pc'[t] = "asked" /\ goal'[t] = goal[t] /\ ~Accepts(goal[t], reply'[t].status)
      BY <1>1, <1>7, Refusing DEF Underway
    <2>2. Silent(t)' /\ Witnessed(t)'
      BY <2>1 DEF Silent, Witnessed
    <2>3. QED BY <1>1, <1>7, <2>2, Refusing, Cool
  <1>8. QED BY <1>2, <1>3, <1>4, <1>5, <1>6, <1>7

\* The thread counts its failures.
LEMMA OwnCount ==
    ASSUME PushInv, NEW t \in Thread,
           Begin(t) \/ Ask(t) \/ FailExchange(t) \/ Receive(t) \/ Serve(t) \/ Refuse(t)
    PROVE  Waits(t)'
  <1>1. Types /\ Silent(t) /\ Waits(t)
    BY DEF PushInv
  <1>2. SUFFICES ASSUME goal'[t] = "getEndpoint", installed'[t] # 0 PROVE Waits(t)'
    BY DEF Waits
  <1>3. Cools
    BY OwnStep
  <1>4. tries[t] \in Nat /\ faults[t] \in Nat /\ delay[t] \in Nat /\ reply[t].delay \in Nat
    <2>1. /\ tries[t] \in 0 .. 2 /\ faults[t] \in 0 .. MaxFaults /\ delay[t] \in 0 .. Warmup
          /\ reply[t] \in Message
      BY <1>1 DEF Types, MaxTries
    <2>2. reply[t].delay \in 0 .. Warmup
      BY <2>1 DEF Message
    <2>3. QED BY <2>1, <2>2, PushAssumption
  <1>5. ASSUME installed[t] # 0
        PROVE  /\ installed[t] \in 1 .. Len(warming)
               /\ warming[installed[t]] \in Nat /\ warming'[installed[t]] \in Nat
               /\ warming'[installed[t]] <= warming[installed[t]]
    <2>1. installed[t] \in 1 .. Len(warming)
      BY <1>1, <1>3, <1>5 DEF Types, Cools
    <2>2. QED BY <1>3, <2>1, PushAssumption, SMTT(30) DEF Cools
  <1>6. CASE Begin(t)
    <2>1. pc'[t] = "ready" /\ tries'[t] = 0 /\ faults'[t] = 0
      BY <1>1, <1>6, Beginning
    <2>2. QED BY <2>1 DEF Waits
  <1>7. CASE Ask(t)
    <2>1. /\ pc[t] = "ready" /\ goal[t] = "getEndpoint" /\ installed'[t] = installed[t]
          /\ reply'[t] = NoMessage /\ delay'[t] = delay[t] /\ goal'[t] = goal[t]
          /\ warming[installed[t]] <= delay[t] => warming'[installed[t]] = 0
      BY <1>1, <1>2, <1>5, <1>7, Asking DEF Silent
    <2>2. /\ tries[t] <= faults[t] + 1
          /\ tries[t] > faults[t] => warming[installed[t]] <= delay[t]
      BY <1>1, <1>2, <2>1 DEF Waits, Remaining
    <2>3. CASE pc'[t] = "asked" /\ faults'[t] = faults[t] /\ tries'[t] = tries[t]
      BY <2>1, <2>2, <2>3 DEF Waits, Remaining
    <2>4. CASE faults'[t] = faults[t] + 1 /\ ReturnsWith(t, "LOWMEMORY")
      <3>1. warming'[installed'[t]] <= warming[installed[t]] /\ warming'[installed'[t]] \in Nat
        BY <1>2, <1>5, <2>1
      <3>2. pc'[t] = "ready" => tries'[t] = tries[t] + 1
        BY <2>1, <2>4 DEF ReturnsWith
      <3>3. pc'[t] = "gaveUp" => tries[t] + 1 >= 3
        BY <2>1, <2>4 DEF ReturnsWith, MaxTries
      <3>4. pc'[t] # "asked"
        BY <2>4 DEF ReturnsWith
      <3>5. warming[installed[t]] \in Nat
        BY <1>2, <1>5, <2>1
      <3>6. QED BY <1>4, <2>1, <2>2, <2>4, <3>1, <3>2, <3>3, <3>4, <3>5 DEF Waits, Remaining
    <2>5. QED BY <1>1, <1>7, <2>3, <2>4, Asking
  <1>8. CASE FailExchange(t)
    <2>1. /\ pc[t] = "asked" /\ goal[t] = "getEndpoint" /\ installed'[t] = installed[t]
          /\ delay'[t] = delay[t] /\ goal'[t] = goal[t] /\ warming' = warming
          /\ faults'[t] = faults[t] + 1 /\ ReturnsWith(t, "ADAPTER")
      BY <1>1, <1>2, <1>8, Failing
    <2>2. /\ tries[t] <= faults[t] + 1
          /\ tries[t] > faults[t] => warming[installed[t]] = 0
      BY <1>1, <1>2, <1>4, <2>1 DEF Waits, Remaining
    <2>3. pc'[t] = "ready" => tries'[t] = tries[t] + 1
      BY <2>1 DEF ReturnsWith
    <2>4. pc'[t] = "gaveUp" => tries[t] + 1 >= 3
      BY <2>1 DEF ReturnsWith, MaxTries
    <2>5. pc'[t] # "asked"
      BY <2>1 DEF ReturnsWith
    <2>6. QED BY <1>4, <2>1, <2>2, <2>3, <2>4, <2>5 DEF Waits, Remaining
  <1>9. CASE Receive(t)
    <2>1. /\ pc[t] = "asked" /\ reply[t] # NoMessage /\ goal'[t] = goal[t]
          /\ faults'[t] \in {faults[t], faults[t] + 1}
          /\ delay'[t] \in {delay[t], DelayAfter(reply[t], delay[t])}
          /\ goal[t] = "getEndpoint" => installed'[t] = installed[t]
          /\ warming' = warming
      BY <1>1, <1>9, Receiving
    <2>2. PICK result \in Result :
              /\ ReturnsWith(t, result)
              /\ goal[t] = "getEndpoint" => result \in {"OK", "FAIL", "LOWMEMORY"}
              /\ goal[t] = "getEndpoint" /\ reply[t].status = 503 /\ result # "LOWMEMORY" =>
                    delay'[t] = DelayAfter(reply[t], delay[t])
              /\ result = "LOWMEMORY" \/ (Success(reply[t].status) /\ result = "FAIL") =>
                    faults'[t] = faults[t] + 1
      BY <1>1, <1>9, Receiving
    <2>3. goal[t] = "getEndpoint" /\ installed'[t] = installed[t] /\ installed[t] # 0
      BY <1>2, <2>1
    <2>4. pc'[t] # "asked" /\ (result = "OK" => pc'[t] = "done")
      BY <2>2 DEF ReturnsWith
    <2>5. pc'[t] = "ready" => tries'[t] = tries[t] + 1
      BY <2>2, <2>3 DEF ReturnsWith
    <2>6. pc'[t] = "gaveUp" => tries[t] + 1 >= 3
      BY <2>2, <2>3 DEF ReturnsWith, MaxTries
    <2>7. PICK r \in Nat : r = warming[installed[t]]
      BY <1>5, <2>3
    <2>8. delay'[t] \in Nat
      BY <1>4, <2>1 DEF DelayAfter
    <2>9. ASSUME result # "OK"
          PROVE  /\ tries[t] <= faults'[t]
                 /\ tries[t] + 1 > faults'[t] => r <= delay'[t]
      <3>1. CASE /\ Success(reply[t].status)
                 /\ tries[t] <= faults[t] + 1
                 /\ tries[t] > faults[t] => r = 0
        <4>1. faults'[t] = faults[t] + 1
          BY <2>2, <2>3, <2>9, <3>1
        <4>2. QED BY <1>4, <2>8, <3>1, <4>1
      <3>2. CASE /\ reply[t].status = 503 /\ reply[t].delay > 0
                 /\ r <= reply[t].delay /\ tries[t] <= faults[t]
        <4>1. CASE result = "LOWMEMORY"
          BY <1>4, <2>2, <3>2, <4>1
        <4>2. CASE result # "LOWMEMORY"
          <5>1. delay'[t] = reply[t].delay
            BY <2>2, <2>3, <3>2, <4>2 DEF DelayAfter
          <5>2. QED BY <1>4, <2>1, <3>2, <5>1
        <4>3. QED BY <4>1, <4>2
      <3>3. CASE /\ ~Success(reply[t].status) /\ reply[t].delay = 0
                 /\ tries[t] <= faults[t]
                 /\ tries[t] = faults[t] => r = 0
        BY <1>4, <2>1, <2>8, <3>3
      <3>4. QED BY <1>1, <2>1, <2>3, <2>7, <3>1, <3>2, <3>3 DEF Waits, Remaining
    <2>10. QED
      BY <1>4, <2>1, <2>3, <2>4, <2>5, <2>6, <2>7, <2>9 DEF Waits, Remaining
  <1>10. CASE Serve(t)
    <2>1. /\ pc[t] = "asked" /\ reply[t] = NoMessage /\ pc'[t] = pc[t] /\ goal'[t] = goal[t]
          /\ tries'[t] = tries[t] /\ faults'[t] = faults[t] /\ installed'[t] = installed[t]
          /\ reply'[t] # NoMessage
      BY <1>1, <1>10, Serving DEF Underway
    <2>2. /\ warming' = warming
          /\ \/ Success(reply'[t].status) /\ warming[installed[t]] = 0
             \/ /\ reply'[t].status = 503 /\ reply'[t].delay > 0
                /\ warming[installed[t]] <= reply'[t].delay
                /\ warming[installed[t]] # 0
      BY <1>1, <1>2, <1>10, <2>1, Serving
    <2>3. /\ tries[t] <= faults[t] + 1
          /\ tries[t] > faults[t] => warming[installed[t]] = 0
      BY <1>1, <1>2, <1>4, <2>1 DEF Waits, Remaining
    <2>4. QED BY <1>4, <2>1, <2>2, <2>3 DEF Waits, Remaining
  <1>11. CASE Refuse(t)
    <2>1. /\ pc[t] = "asked" /\ reply[t] = NoMessage /\ pc'[t] = pc[t] /\ goal'[t] = goal[t]
          /\ tries'[t] = tries[t] /\ faults'[t] = faults[t] + 1 /\ installed'[t] = installed[t]
          /\ reply'[t] # NoMessage /\ reply'[t].delay = 0 /\ ~Success(reply'[t].status)
          /\ warming' = warming
      BY <1>1, <1>11, Refusing DEF Underway
    <2>2. /\ tries[t] <= faults[t] + 1
          /\ tries[t] > faults[t] => warming[installed[t]] = 0
      BY <1>1, <1>2, <1>4, <2>1 DEF Waits, Remaining
    <2>3. QED BY <1>4, <2>1, <2>2 DEF Waits, Remaining
  <1>12. QED BY <1>6, <1>7, <1>8, <1>9, <1>10, <1>11

\* What KIIE_OK says of some moment of the call, one claim for each kind of call.
AnswerIs(t) ==
    /\ goal[t] \in Subscribes => \E s \in seen[t] : TargetOf(goal[t]) \in s
    /\ goal[t] \in Unsubscribes => \E s \in seen[t] : TargetOf(goal[t]) \notin s
    /\ goal[t] \in UsesHead => \E s \in seen[t] : answer[t] = (TargetOf(goal[t]) \in s)

\* That is all that AnswersAreOfTheCall says.
LEMMA AnswersSplit == AnswersAreOfTheCall <=> \A t \in Thread : pc[t] = "done" => AnswerIs(t)
  <1>1. ASSUME NEW t \in Thread
        PROVE  (CASE goal[t] \in Subscribes   -> \E s \in seen[t] : TargetOf(goal[t]) \in s
                  [] goal[t] \in Unsubscribes -> \E s \in seen[t] : TargetOf(goal[t]) \notin s
                  [] goal[t] \in UsesHead     ->
                        \E s \in seen[t] : answer[t] = (TargetOf(goal[t]) \in s)
                  [] OTHER                    -> TRUE) <=> AnswerIs(t)
    BY DEF AnswerIs, Subscribes, Unsubscribes, UsesHead
  <1>2. QED BY <1>1, Zenon DEF AnswersAreOfTheCall

\* The answers stay those of the calls.
LEMMA AnswersStep ==
    ASSUME PushInv, [Next]_vars
    PROVE  AnswersAreOfTheCall'
  <1>1. Types /\ \A u \in Thread : (pc[u] = "done" => AnswerIs(u)) /\ Witnessed(u)
    BY AnswersSplit DEF PushInv
  <1>2. ASSUME NEW u \in Thread, Stays(u), pc'[u] = "done" PROVE AnswerIs(u)'
    <2>1. pc[u] = "done" /\ goal'[u] = goal[u] /\ answer'[u] = answer[u] /\ seen[u] \subseteq seen'[u]
      BY <1>2 DEF Stays
    <2>2. QED BY <1>1, <2>1 DEF AnswerIs
  <1>3. ASSUME NEW t \in Thread,
               Begin(t) \/ Ask(t) \/ FailExchange(t) \/ Receive(t) \/ Serve(t) \/ Refuse(t),
               pc'[t] = "done"
        PROVE  AnswerIs(t)'
    <2>1. ~Begin(t)
      BY <1>1, <1>3, Beginning
    <2>2. ~Ask(t)
      BY <1>1, <1>3, Asking DEF ReturnsWith
    <2>3. ~FailExchange(t)
      BY <1>1, <1>3, Failing DEF ReturnsWith
    <2>4. ~Serve(t) /\ ~Refuse(t)
      BY <1>1, <1>3, Serving, Refusing DEF Underway
    <2>5. Receive(t)
      BY <1>3, <2>1, <2>2, <2>3, <2>4
    <2>6. /\ pc[t] = "asked" /\ reply[t] # NoMessage /\ goal'[t] = goal[t]
          /\ Accepts(goal[t], reply[t].status)
          /\ goal[t] \in UsesHead => answer'[t] = Success(reply[t].status)
          /\ seen'[t] = seen[t]
      BY <1>1, <1>3, <2>5, Receiving DEF ReturnsWith
    <2>7. QED BY <1>1, <2>6 DEF Witnessed, AnswerIs
  <1>4. \A u \in Thread : pc'[u] = "done" => AnswerIs(u)'
    <2>1. CASE UNCHANGED vars
      BY <1>1, <2>1 DEF vars, program, AnswerIs
    <2>2. ASSUME NEW op \in Straggler, ServeLate(op)
          PROVE  \A u \in Thread : pc'[u] = "done" => AnswerIs(u)'
      BY <1>1, <1>2, <2>2, ServingLate
    <2>3. ASSUME NEW t \in Thread,
                 Begin(t) \/ Ask(t) \/ FailExchange(t) \/ Receive(t) \/ Serve(t) \/ Refuse(t)
          PROVE  \A u \in Thread : pc'[u] = "done" => AnswerIs(u)'
      BY <1>2, <1>3, <2>3, OwnStep
    <2>4. QED BY <2>1, <2>2, <2>3 DEF Next
  <1>5. (AnswersAreOfTheCall <=> \A t \in Thread : pc[t] = "done" => AnswerIs(t))'
    BY AnswersSplit, PTL
  <1>6. QED BY <1>4, <1>5

\* What was told to a call stays so.
Undone(t) == pc[t] = "done" => TopicSo(goal[t]) /\ (unopposed[t] => IsSo(goal[t]))

\* A step after which no call is contested that was not before.
Calm == \A op : Contested(op)' => Contested(op)

\* So is every step that puts no request under way.
LEMMA NothingNew ==
    ASSUME \A v \in Underway' : v \in Underway /\ goal'[v] = goal[v],
           \A o \in Straggler : late'[o] # 0 => late[o] # 0 \/ \E v \in Underway : goal[v] = o
    PROVE  Calm
  <1>1. ASSUME NEW op, Contested(op)' PROVE Contested(op)
    <2>1. CASE \E v \in Underway' : Opposes(goal'[v], op)
      BY <2>1 DEF Contested
    <2>2. CASE \E o \in Straggler : late'[o] # 0 /\ Opposes(o, op)
      BY <2>2 DEF Contested
    <2>3. QED BY <1>1, <2>1, <2>2 DEF Contested, Straggler
  <1>2. QED BY <1>1 DEF Calm

\* In a calm step that keeps what the server keeps for u, u stays as it was.
LEMMA CalmStep ==
    ASSUME PushInv, NEW u \in Thread, Calm, Stays(u), topic => topic',
           unopposed[u] /\ IsSo(goal[u]) => \A o : o = goal[u] => IsSo(o)'
    PROVE  Undisturbed(u)' /\ Told(u)' /\ Undone(u)'
  <1>1. Undisturbed(u) /\ Told(u) /\ Undone(u)
    BY DEF PushInv, OnlyStragglersUndo, Undone, TopicSo, IsSo
  <1>2. goal'[u] = goal[u] /\ pc'[u] = pc[u] /\ reply'[u] = reply[u]
        /\ (unopposed'[u] => unopposed[u])
    BY DEF Stays
  <1>3. Undisturbed(u)'
    BY <1>1, <1>2 DEF Undisturbed, Calm
  <1>4. TopicSo(goal[u]) => TopicSo(goal[u])'
    BY <1>2 DEF TopicSo
  <1>5. unopposed'[u] /\ IsSo(goal[u]) => IsSo(goal[u])'
    BY <1>2 DEF IsSo
  <1>6. Told(u)' /\ Undone(u)'
    BY <1>1, <1>2, <1>4, <1>5 DEF Told, Undone
  <1>7. QED BY <1>3, <1>6

\* Sending a request contests the calls for the opposite.
LEMMA AskingContests ==
    ASSUME NEW t \in Thread, \A v \in Thread \ {t} : Stays(v),
           UNCHANGED <<late, goal>>, NEW op, Contested(op)'
    PROVE  Contested(op) \/ Opposes(goal[t], op)
  <1>1. \A v \in Underway' : v = t \/ v \in Underway
    BY DEF Underway, Stays
  <1>2. CASE \E v \in Underway' : Opposes(goal'[v], op)
    BY <1>1, <1>2 DEF Contested
  <1>3. CASE \E o \in Straggler : late'[o] # 0 /\ Opposes(o, op)
    BY <1>3 DEF Contested
  <1>4. QED BY <1>2, <1>3 DEF Contested, Straggler

\* Every other step of a thread is calm.
LEMMA CalmUnlessAsked ==
    ASSUME Types, NEW t \in Thread,
           \/ Begin(t) \/ FailExchange(t) \/ Receive(t) \/ Serve(t) \/ Refuse(t)
           \/ (Ask(t) /\ pc'[t] # "asked"),
           \A v \in Thread \ {t} : Stays(v)
    PROVE  Calm
  <1>1. ASSUME t \notin Underway', late' = late PROVE Calm
    <2>1. \A v \in Underway' : v \in Underway /\ goal'[v] = goal[v]
      BY <1>1 DEF Underway, Stays
    <2>2. QED BY <1>1, <2>1, NothingNew
  <1>2. CASE Begin(t)
    BY <1>1, <1>2, Beginning DEF Underway
  <1>3. CASE FailExchange(t)
    <2>1. /\ pc[t] = "asked" /\ pc'[t] # "asked" /\ (reply[t] # NoMessage => late' = late)
          /\ \A o \in Straggler : o # goal[t] => late'[o] = late[o]
      BY <1>3, Failing DEF ReturnsWith
    <2>2. \A v \in Underway' : v \in Underway /\ goal'[v] = goal[v]
      BY <2>1 DEF Underway, Stays
    <2>3. \A o \in Straggler : late'[o] # 0 => late[o] # 0 \/ \E v \in Underway : goal[v] = o
      BY <2>1 DEF Underway
    <2>4. QED BY <2>2, <2>3, NothingNew
  <1>4. CASE Receive(t)
    BY <1>1, <1>4, Receiving DEF Underway, ReturnsWith
  <1>5. CASE Serve(t)
    BY <1>1, <1>5, Serving DEF Underway
  <1>6. CASE Refuse(t)
    BY <1>1, <1>6, Refusing DEF Underway
  <1>7. CASE Ask(t) /\ pc'[t] # "asked"
    BY <1>1, <1>7, Asking DEF Underway
  <1>8. QED BY <1>2, <1>3, <1>4, <1>5, <1>6, <1>7

\* What the others were told, the step of a thread keeps.
LEMMA OthersTold ==
    ASSUME PushInv, NEW t \in Thread,
           Begin(t) \/ Ask(t) \/ FailExchange(t) \/ Receive(t) \/ Serve(t) \/ Refuse(t),
           NEW u \in Thread \ {t}
    PROVE  Undisturbed(u)' /\ Told(u)' /\ Undone(u)'
  <1>1. Types /\ Undisturbed(u) /\ Told(u) /\ Undone(u)
    BY DEF PushInv, OnlyStragglersUndo, Undone, TopicSo, IsSo
  <1>2. \A v \in Thread \ {t} : Stays(v)
    BY OwnStep
  <1>3. ASSUME Calm, UNCHANGED <<subscribed, topic>>
        PROVE  Undisturbed(u)' /\ Told(u)' /\ Undone(u)'
    <2>1. \A o : IsSo(o) => IsSo(o)'
      BY <1>3 DEF IsSo
    <2>2. QED BY <1>2, <1>3, <2>1, CalmStep
  <1>4. CASE Begin(t)
    BY <1>1, <1>2, <1>3, <1>4, Beginning, CalmUnlessAsked
  <1>5. CASE FailExchange(t)
    BY <1>1, <1>2, <1>3, <1>5, Failing, CalmUnlessAsked
  <1>6. CASE Receive(t)
    BY <1>1, <1>2, <1>3, <1>6, Receiving, CalmUnlessAsked
  <1>7. CASE Refuse(t)
    BY <1>1, <1>2, <1>3, <1>7, Refusing, CalmUnlessAsked
  <1>8. CASE Ask(t) /\ pc'[t] # "asked"
    BY <1>1, <1>2, <1>3, <1>8, Asking, CalmUnlessAsked
  <1>9. CASE Ask(t) /\ pc'[t] = "asked"
    <2>1. /\ UNCHANGED <<subscribed, topic, late, goal>>
          /\ unopposed'[u] => ~Opposes(goal[t], goal[u])
      BY <1>1, <1>9, Asking DEF ReturnsWith
    <2>2. Undisturbed(u)'
      <3>1. SUFFICES ASSUME unopposed'[u], Contested(goal[u])' PROVE FALSE
        BY DEF Undisturbed
      <3>2. unopposed[u] /\ goal'[u] = goal[u]
        BY <1>2, <3>1 DEF Stays
      <3>3. PICK op : op = goal[u]
        OBVIOUS
      <3>4. Contested(op)'
        BY <2>1, <3>1, <3>3 DEF Contested
      <3>5. Contested(op) \/ Opposes(goal[t], op)
        BY <1>2, <2>1, <3>4, AskingContests
      <3>6. QED BY <1>1, <2>1, <3>1, <3>2, <3>3, <3>5 DEF Undisturbed
    <2>3. Told(u)' /\ Undone(u)'
      BY <1>1, <1>2, <2>1 DEF Told, Undone, TopicSo, IsSo, Stays
    <2>4. QED BY <2>2, <2>3
  <1>10. CASE Serve(t)
    <2>1. /\ t \in Underway /\ (topic => topic')
          /\ \A o : ~Opposes(goal[t], o) /\ IsSo(o) => IsSo(o)'
      BY <1>1, <1>10, Serving
    <2>2. unopposed[u] => ~Opposes(goal[t], goal[u])
      BY <1>1, <2>1 DEF Undisturbed, Contested
    <2>3. Calm
      BY <1>1, <1>2, <1>10, CalmUnlessAsked
    <2>4. QED BY <1>2, <2>1, <2>2, <2>3, CalmStep
  <1>11. QED BY <1>4, <1>5, <1>6, <1>7, <1>8, <1>9, <1>10

\* A call is told what the server keeps.
LEMMA OwnTold ==
    ASSUME PushInv, NEW t \in Thread,
           Begin(t) \/ Ask(t) \/ FailExchange(t) \/ Receive(t) \/ Serve(t) \/ Refuse(t)
    PROVE  Undisturbed(t)' /\ Told(t)' /\ Undone(t)'
  <1>1. Types /\ Silent(t) /\ Undisturbed(t) /\ Told(t)
    BY DEF PushInv
  <1>2. \A v \in Thread \ {t} : Stays(v)
    BY OwnStep
  <1>3. ASSUME ~unopposed'[t], pc'[t] \notin {"asked", "done"}
        PROVE  Undisturbed(t)' /\ Told(t)' /\ Undone(t)'
    BY <1>3 DEF Undisturbed, Told, Undone
  <1>4. ASSUME Calm, goal'[t] = goal[t], unopposed'[t] => unopposed[t] PROVE Undisturbed(t)'
    BY <1>1, <1>4 DEF Undisturbed, Calm
  <1>5. CASE Begin(t)
    BY <1>1, <1>3, <1>5, Beginning
  <1>6. CASE FailExchange(t)
    BY <1>1, <1>3, <1>6, Failing DEF ReturnsWith
  <1>7. CASE Ask(t) /\ pc'[t] # "asked"
    BY <1>1, <1>3, <1>7, Asking DEF ReturnsWith
  <1>8. CASE Ask(t) /\ pc'[t] = "asked"
    <2>1. /\ UNCHANGED <<late, goal>> /\ reply'[t] = NoMessage
          /\ unopposed'[t] => ~Contested(goal[t])
      BY <1>1, <1>8, Asking DEF ReturnsWith, Silent
    <2>2. ~Opposes(goal[t], goal[t])
      BY DEF Opposes, Subscribes, Unsubscribes
    <2>3. Undisturbed(t)'
      <3>1. SUFFICES ASSUME unopposed'[t], Contested(goal[t])' PROVE FALSE
        BY DEF Undisturbed
      <3>2. PICK op : op = goal[t]
        OBVIOUS
      <3>3. Contested(op)'
        BY <2>1, <3>1, <3>2 DEF Contested
      <3>4. Contested(op) \/ Opposes(goal[t], op)
        BY <1>2, <2>1, <3>3, AskingContests
      <3>5. QED BY <2>1, <2>2, <3>1, <3>2, <3>4
    <2>4. QED BY <1>8, <2>1, <2>3 DEF Told, Undone
  <1>9. CASE Receive(t)
    <2>1. CASE pc'[t] = "done"
      <3>1. /\ pc[t] = "asked" /\ reply[t] # NoMessage
            /\ unopposed'[t] => unopposed[t]
            /\ Accepts(goal[t], reply[t].status)
            /\ UNCHANGED <<subscribed, topic, late, goal>>
        BY <1>1, <1>9, <2>1, Receiving DEF ReturnsWith
      <3>2. TopicSo(goal[t])' /\ (unopposed'[t] => IsSo(goal[t])')
        BY <1>1, <3>1 DEF Told, TopicSo, IsSo
      <3>3. Undisturbed(t)'
        BY <1>1, <1>2, <1>4, <1>9, <3>1, CalmUnlessAsked
      <3>4. QED BY <2>1, <3>2, <3>3 DEF Told, Undone
    <2>2. CASE pc'[t] # "done"
      BY <1>1, <1>3, <1>9, <2>2, Receiving DEF ReturnsWith
    <2>3. QED BY <2>1, <2>2
  <1>10. CASE Serve(t)
    <2>1. /\ pc'[t] = "asked" /\ goal'[t] = goal[t] /\ (unopposed'[t] => unopposed[t])
          /\ TopicSo(goal[t])' /\ IsSo(goal[t])'
      BY <1>1, <1>10, Serving DEF Underway
    <2>2. Undisturbed(t)'
      BY <1>1, <1>2, <1>4, <1>10, <2>1, CalmUnlessAsked
    <2>3. QED BY <2>1, <2>2 DEF Told, Undone
  <1>11. CASE Refuse(t)
    <2>1. /\ pc'[t] = "asked" /\ goal'[t] = goal[t] /\ (unopposed'[t] => unopposed[t])
          /\ ~Accepts(goal[t], reply'[t].status)
      BY <1>1, <1>11, Refusing DEF Underway
    <2>2. Undisturbed(t)'
      BY <1>1, <1>2, <1>4, <1>11, <2>1, CalmUnlessAsked
    <2>3. QED BY <2>1, <2>2 DEF Told, Undone
  <1>12. QED BY <1>5, <1>6, <1>7, <1>8, <1>9, <1>10, <1>11

\* The invariant is kept.
LEMMA PushStep == PushInv /\ [Next]_vars => PushInv'
  <1> SUFFICES ASSUME PushInv, [Next]_vars PROVE PushInv'
    OBVIOUS
  <1>1. Types /\ AnswersAreOfTheCall'
    BY AnswersStep DEF PushInv
  <1>2. SUFFICES Types' /\ \A u \in Thread : /\ Silent(u)' /\ Witnessed(u)' /\ Undisturbed(u)'
                                             /\ Told(u)' /\ Waits(u)' /\ Undone(u)'
    BY <1>1 DEF PushInv, OnlyStragglersUndo, Undone, TopicSo, IsSo
  <1>3. CASE UNCHANGED vars
    <2>1. \A u \in Thread : Stays(u)
      BY <1>3 DEF vars, program, Stays
    <2>2. Cools /\ topic' = topic /\ subscribed' = subscribed
      BY <1>1, <1>3, Cool DEF vars, server
    <2>3. Types'
      BY <1>1, <1>3 DEF vars, server, program, Types
    <2>4. Calm
      BY <1>3, NothingNew DEF vars, Underway
    <2>5. \A o : IsSo(o) => IsSo(o)'
      BY <2>2 DEF IsSo
    <2>6. QED BY <2>1, <2>2, <2>3, <2>4, <2>5, OthersStay, CalmStep
  <1>4. ASSUME NEW op \in Straggler, ServeLate(op)
        PROVE  Types' /\ \A u \in Thread : /\ Silent(u)' /\ Witnessed(u)' /\ Undisturbed(u)'
                                           /\ Told(u)' /\ Waits(u)' /\ Undone(u)'
    <2>1. /\ late[op] # 0 /\ Cools /\ Types'
          /\ \A u \in Thread : Stays(u)
          /\ topic => topic'
          /\ \A o : ~Opposes(op, o) /\ IsSo(o) => IsSo(o)'
          /\ \A o \in Straggler : late'[o] # 0 => late[o] # 0
          /\ UNCHANGED <<pc, goal, reply>>
      BY <1>1, <1>4, ServingLate
    <2>2. Calm
      BY <2>1, NothingNew DEF Underway
    <2>3. ASSUME NEW u \in Thread, unopposed[u] PROVE ~Opposes(op, goal[u])
      BY <2>1, <2>3 DEF PushInv, Undisturbed, Contested
    <2>4. \A u \in Thread : Undisturbed(u)' /\ Told(u)' /\ Undone(u)'
      BY <2>1, <2>2, <2>3, CalmStep
    <2>5. QED BY <2>1, <2>4, OthersStay
  <1>5. ASSUME NEW t \in Thread,
               Begin(t) \/ Ask(t) \/ FailExchange(t) \/ Receive(t) \/ Serve(t) \/ Refuse(t)
        PROVE  Types' /\ \A u \in Thread : /\ Silent(u)' /\ Witnessed(u)' /\ Undisturbed(u)'
                                           /\ Told(u)' /\ Waits(u)' /\ Undone(u)'
    <2>1. Types' /\ Cools /\ (\A u \in Thread \ {t} : Stays(u)) /\ Silent(t)' /\ Witnessed(t)'
      BY <1>5, OwnStep
    <2>2. Waits(t)' /\ Undisturbed(t)' /\ Told(t)' /\ Undone(t)'
      BY <1>5, OwnCount, OwnTold
    <2>3. ASSUME NEW u \in Thread \ {t}
          PROVE  /\ Silent(u)' /\ Witnessed(u)' /\ Waits(u)'
                 /\ Undisturbed(u)' /\ Told(u)' /\ Undone(u)'
      BY <1>5, <2>1, OthersStay, OthersTold
    <2>4. QED BY <2>1, <2>2, <2>3
  <1>6. QED BY <1>3, <1>4, <1>5 DEF Next

\* Nobody has called at first.
LEMMA InitPushInv == Init => PushInv
  <1> SUFFICES ASSUME Init PROVE PushInv
    OBVIOUS
  <1>1. Types
    <2>1. NoMessage \in Message /\ NoMessage.installation = 0
      BY PushAssumption DEF NoMessage, Message
    <2>2. warming \in Seq(0 .. Warmup) /\ Len(warming) = 0
      BY DEF Init
    <2>3. 0 \in 0 .. Warmup /\ 0 \in 0 .. MaxFaults /\ 0 \in 0 .. MaxTries - 1
      BY PushAssumption DEF MaxTries
    <2>4. /\ tries \in [Thread -> 0 .. MaxTries - 1] /\ faults \in [Thread -> 0 .. MaxFaults]
          /\ delay \in [Thread -> 0 .. Warmup] /\ installed \in [Thread -> 0 .. Len(warming)]
      BY <2>2, <2>3 DEF Init
    <2>5. reply \in [Thread -> Message] /\ \A t \in Thread : reply[t] = NoMessage
      BY <2>1 DEF Init
    <2>6. topic \in BOOLEAN /\ answer \in [Thread -> BOOLEAN] /\ unopposed \in [Thread -> BOOLEAN]
      <3>1. PICK no \in BOOLEAN : no = FALSE
        OBVIOUS
      <3>2. topic = no /\ answer = [t \in Thread |-> no] /\ unopposed = [t \in Thread |-> no]
        BY <3>1 DEF Init
      <3>3. QED BY <3>2, Zenon
    <2>7. /\ pc \in [Thread -> {"idle", "ready", "asked", "done", "gaveUp"}]
          /\ goal \in [Thread -> Op \cup {"none"}]
          /\ \A t \in Thread : pc[t] = "idle"
      BY DEF Init
    <2>8. subscribed \subseteq Target /\ seen \in [Thread -> SUBSET SUBSET Target]
      BY DEF Init
    <2>9. late \in [Straggler -> Nat]
      BY DEF Init
    <2>10. \A t \in Thread : reply[t].installation <= Len(warming)
      BY <2>1, <2>2, <2>5
    <2>11. QED BY <2>2, <2>4, <2>5, <2>6, <2>7, <2>8, <2>9, <2>10 DEF Types
  <1>2. \A t \in Thread : Silent(t) /\ Witnessed(t) /\ Undisturbed(t) /\ Told(t) /\ Waits(t)
    BY DEF Init, Silent, Witnessed, Undisturbed, Told, Waits
  <1>3. AnswersAreOfTheCall /\ OnlyStragglersUndo
    BY DEF Init, AnswersAreOfTheCall, OnlyStragglersUndo
  <1>4. QED BY <1>1, <1>2, <1>3 DEF PushInv

-----------------------------------------------------------------------------
(* The theorems.                                                            *)

\* The invariant holds whatever the programs, the server and the network do.
THEOREM PushInvariance == Spec => []PushInv
  BY InitPushInv, PushStep, PTL DEF Spec

\* KIIE_OK tells the truth about some moment of the call.
THEOREM AnswersAreTrue == Spec => []AnswersAreOfTheCall
  <1>1. PushInv => AnswersAreOfTheCall
    BY DEF PushInv
  <1>2. QED BY <1>1, PushInvariance, PTL

\* Only a request for the opposite that was under way already can undo what
\* KIIE_OK reported.
THEOREM StragglersUndo == Spec => []OnlyStragglersUndo
  <1>1. PushInv => OnlyStragglersUndo
    BY DEF PushInv
  <1>2. QED BY <1>1, PushInvariance, PTL

\* A program that waits as it is told gives up only after two faults.
THEOREM WaitingSuffices == Spec => []WaitingAsToldSuffices
  <1>1. PushInv => WaitingAsToldSuffices
    BY DEF PushInv, Waits, WaitingAsToldSuffices
  <1>2. QED BY <1>1, PushInvariance, PTL

=============================================================================
