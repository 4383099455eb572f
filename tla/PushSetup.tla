----------------------------- MODULE PushSetup -----------------------------
(***************************************************************************)
(* Programs of one thing that prepare for pushes through kii_cloud.c: they *)
(* subscribe to a bucket and a topic, unsubscribe, ask whether they are    *)
(* subscribed, install push and ask for the endpoint until it is ready.    *)
(*                                                                         *)
(* A program repeats a call until it returns KIIE_OK, as testInstallPush   *)
(* repeats kii_get_mqtt_endpoint: there it sleeps before each call as long *)
(* as its variable retryAfter says, and calls three times at most.         *)
(*                                                                         *)
(* Requests travel as in ObjectStore, and KiiExchange reads the replies.   *)
(* The server is external, modelled by the statuses the SDK gives meaning. *)
(***************************************************************************)
EXTENDS KiiExchange, Sequences

CONSTANTS
    Thread,     \* threads of the programs
    Job,        \* the calls that each of them may repeat
    Warmup,     \* the time the server takes to make an endpoint ready
    MaxTasks,   \* bound: the tasks all threads take up
    MaxFaults   \* bound: what goes wrong in one task

ASSUME PushAssumption ==
    /\ Op \subseteq {"subscribeBucket", "unsubscribeBucket", "isBucketSubscribed",
                     "createTopic", "subscribeTopic", "unsubscribeTopic",
                     "isTopicSubscribed", "installPush", "getEndpoint"}
    /\ Job \in [Thread -> SUBSET Op]
    /\ {200, 404, 409, 503} \subseteq Status
    /\ Warmup \in Nat /\ MaxTasks \in Nat /\ MaxFaults \in Nat

VARIABLES
    subscribed, \* the server: what the thing is subscribed to
    topic,      \* the server: does the topic exist
    warming,    \* the server: the time each installation's endpoint still takes
    late,       \* requests under way whose callers no longer wait, by call
    tasks,      \* the number of tasks taken up
    pc,         \* "idle", "ready" to call, "asked", "done" or "gaveUp"
    goal,       \* the call that each thread's task repeats
    tries,      \* retryCount, a variable of the program
    faults,     \* what has gone wrong in the task
    reply,      \* the server's reply to the request, on its way
    answer,     \* out_is_subscribed
    delay,      \* retryAfter, a variable of the program
    installed,  \* the installation id the program holds, 0 for NULL
    seen,       \* ghost: what the thing was subscribed to since the call began
    unopposed   \* ghost: has nobody asked for the opposite, then or since

server == <<subscribed, topic, warming>>
program == <<tries, answer, delay, installed>>
vars == <<server, late, tasks, pc, goal, faults, reply, program, seen, unopposed>>

Target == {"bucket", "topic"}
TargetOf(op) ==
    IF op \in {"subscribeBucket", "unsubscribeBucket", "isBucketSubscribed"}
    THEN "bucket" ELSE "topic"
Subscribes == {"subscribeBucket", "subscribeTopic"}
Unsubscribes == {"unsubscribeBucket", "unsubscribeTopic"}

\* A late request matters when it changes what another call depends on.
Straggler == Op \cap (Subscribes \cup Unsubscribes \cup {"createTopic"})

MaxTries == 3
Installation == 0 .. MaxTasks * (1 + MaxFaults)
NoMessage == [status |-> 0, delay |-> 0, installation |-> 0]

TypeOK ==
    /\ subscribed \subseteq Target /\ topic \in BOOLEAN
    /\ warming \in Seq(0 .. Warmup) /\ Len(warming) \in Installation
    /\ late \in [Straggler -> 0 .. MaxTasks * MaxFaults]
    /\ tasks \in 0 .. MaxTasks
    /\ pc \in [Thread -> {"idle", "ready", "asked", "done", "gaveUp"}]
    /\ goal \in [Thread -> Op \cup {"none"}]
    /\ tries \in [Thread -> 0 .. MaxTries - 1]
    /\ faults \in [Thread -> 0 .. MaxFaults]
    /\ reply \in [Thread -> [status : Status \cup {0}, delay : 0 .. Warmup,
                             installation : Installation]]
    /\ answer \in [Thread -> BOOLEAN]
    /\ delay \in [Thread -> 0 .. Warmup]
    /\ installed \in [Thread -> 0 .. Len(warming)]
    /\ seen \in [Thread -> SUBSET SUBSET Target]
    /\ unopposed \in [Thread -> BOOLEAN]

Init ==
    /\ subscribed = {} /\ topic = FALSE /\ warming = <<>>
    /\ late = [op \in Straggler |-> 0]
    /\ tasks = 0
    /\ pc = [t \in Thread |-> "idle"]
    /\ goal = [t \in Thread |-> "none"]
    /\ tries = [t \in Thread |-> 0] /\ faults = [t \in Thread |-> 0]
    /\ reply = [t \in Thread |-> NoMessage]
    /\ answer = [t \in Thread |-> FALSE]
    /\ delay = [t \in Thread |-> 0]
    /\ installed = [t \in Thread |-> 0]
    /\ seen = [t \in Thread |-> {}]
    /\ unopposed = [t \in Thread |-> FALSE]

-----------------------------------------------------------------------------
(* The programs.                                                            *)

\* A task: repeat one call.  "retryAfter" and "retryCount" start as 0.
Begin(t) ==
    /\ pc[t] \in {"idle", "done", "gaveUp"} /\ tasks < MaxTasks
    /\ tasks' = tasks + 1
    /\ \E op \in Job[t] : goal' = [goal EXCEPT ![t] = op]
    /\ pc' = [pc EXCEPT ![t] = "ready"]
    /\ faults' = [faults EXCEPT ![t] = 0]
    /\ tries' = [tries EXCEPT ![t] = 0]
    /\ delay' = [delay EXCEPT ![t] = 0]
    /\ answer' = [answer EXCEPT ![t] = FALSE]
    /\ seen' = [seen EXCEPT ![t] = {}]
    /\ unopposed' = [unopposed EXCEPT ![t] = FALSE]
    /\ UNCHANGED <<server, late, reply, installed>>

Spoilt(t) ==
    /\ faults[t] < MaxFaults
    /\ faults' = [faults EXCEPT ![t] = @ + 1]

\* Is the call made again?  What is unsubscribed already cannot be unsubscribed.
GoesOn(op, result, status, n) ==
    /\ result # "OK"
    /\ op = "getEndpoint" => n < MaxTries
    /\ ~(op \in Unsubscribes /\ status = 404)

\* The call returns; retryCount is counted and tested.
Return(t, result, status) ==
    LET n == IF goal[t] = "getEndpoint" THEN tries[t] + 1 ELSE 0
        again == GoesOn(goal[t], result, status, n)
    IN  /\ pc' = [pc EXCEPT ![t] = IF again THEN "ready"
                                   ELSE IF result = "OK" THEN "done" ELSE "gaveUp"]
        /\ tries' = [tries EXCEPT ![t] = IF again THEN n ELSE 0]
        /\ seen' = [seen EXCEPT ![t] = IF result = "OK" THEN @ ELSE {}]
        /\ unopposed' = [unopposed EXCEPT ![t] = @ /\ result = "OK"]

Less(a, b) == IF a > b THEN a - b ELSE 0

Underway == {t \in Thread : pc[t] = "asked" /\ reply[t] = NoMessage}

\* One of the two subscribes to what the other unsubscribes from.
Opposes(o, op) ==
    /\ TargetOf(o) = TargetOf(op)
    /\ \/ o \in Subscribes /\ op \in Unsubscribes
       \/ o \in Unsubscribes /\ op \in Subscribes

\* A request for the opposite of op is under way, in time or late.
Contested(op) ==
    \/ \E u \in Underway : Opposes(goal[u], op)
    \/ \E o \in Straggler : late[o] # 0 /\ Opposes(o, op)

\* The program sleeps if it is to, and the call sends its request or finds no
\* memory to prepare it.
Ask(t) ==
    /\ pc[t] = "ready"
    /\ warming' = IF goal[t] = "getEndpoint"
                  THEN [i \in DOMAIN warming |-> Less(warming[i], delay[t])]
                  ELSE warming
    /\ \/ /\ pc' = [pc EXCEPT ![t] = "asked"]
          /\ seen' = [seen EXCEPT ![t] = {subscribed}]
          /\ unopposed' = [u \in Thread |->
                IF u = t THEN ~Contested(goal[t])
                ELSE unopposed[u] /\ ~Opposes(goal[t], goal[u])]
          /\ UNCHANGED <<faults, tries>>
       \/ /\ Spoilt(t)
          /\ Return(t, "LOWMEMORY", 0)
    /\ UNCHANGED <<subscribed, topic, late, tasks, goal, reply, answer, delay, installed>>

\* The adapter fails, whatever has become of the request.
FailExchange(t) ==
    /\ pc[t] = "asked"
    /\ Spoilt(t)
    /\ late' = IF reply[t] = NoMessage /\ goal[t] \in Straggler
               THEN [late EXCEPT ![goal[t]] = @ + 1] ELSE late
    /\ reply' = [reply EXCEPT ![t] = NoMessage]
    /\ Return(t, "ADAPTER", 0)
    /\ UNCHANGED <<server, tasks, goal, answer, delay, installed>>

IsSubscribedAnyway(s) == TRUE                \* mutant: 404 does not reset the flag

\* What kii_is_bucket_subscribed and kii_is_topic_subscribed make of a status.
IsSubscribed(s) == Success(s)

DelayNever(m, old) == old                    \* mutant: out_retry_after is not set

\* out_retry_after_in_second after a 503 that is JSON: set when positive.
DelayAfter(m, old) == IF m.delay > 0 THEN m.delay ELSE old

\* What a call can make of a reply with this status.
Readings == [op \in Op |-> [s \in Status |->
    UNION {{[ret    |-> o.ret,
             status |-> o.err.status,
             given  |-> o.given] :
               o \in ParseReply([op |-> op, ifMatch |-> FALSE, wantEtag |-> FALSE,
                                 wantId |-> FALSE], r)} :
           r \in {r \in ReplyTo(op) : r.status = s}}]]

\* The reply arrives and is read.  One whose body cannot be used, or read for
\* lack of memory, is a fault.  The body of a 503 is read twice: its details are
\* there only if the delay, which comes first, has been looked at.
Receive(t) ==
    /\ pc[t] = "asked" /\ reply[t] # NoMessage
    /\ \E o \in Readings[goal[t]][reply[t].status] :
          /\ goal[t] = "getEndpoint" /\ reply[t].status = 503 /\ o.ret = "FAIL" =>
                 "retryAfter" \in o.given
          /\ IF o.ret = "LOWMEMORY" \/ (Success(reply[t].status) /\ o.ret = "FAIL")
             THEN Spoilt(t) ELSE UNCHANGED faults
          /\ delay' = IF "retryAfter" \in o.given
                      THEN [delay EXCEPT ![t] = DelayAfter(reply[t], @)] ELSE delay
          /\ installed' = IF "installationId" \in o.given
                          THEN [installed EXCEPT ![t] = reply[t].installation]
                          ELSE installed
          /\ answer' = IF "isSubscribed" \in o.given
                       THEN [answer EXCEPT ![t] = IsSubscribed(reply[t].status)]
                       ELSE answer
          /\ Return(t, o.ret, o.status)
    /\ reply' = [reply EXCEPT ![t] = NoMessage]
    /\ UNCHANGED <<server, late, tasks, goal>>

-----------------------------------------------------------------------------
(* The server.                                                              *)

Says(s) == [NoMessage EXCEPT !.status = s]

\* What the server makes of a request ...
Serves(op) ==
    /\ subscribed' = CASE op \in Subscribes   -> subscribed \cup {TargetOf(op)}
                       [] op \in Unsubscribes -> subscribed \ {TargetOf(op)}
                       [] OTHER               -> subscribed
    /\ topic' = (topic \/ op \in {"createTopic", "subscribeTopic"})
    /\ warming' = IF op = "installPush" THEN Append(warming, Warmup) ELSE warming

\* ... and says: 409 if it has been done, 404 if there is nothing to undo or to
\* tell of.  It asks the caller to wait as long as the endpoint takes, or longer.
\* Without an installation id the URL names something else.
Replies(op, i) ==
    CASE op \in Subscribes -> {Says(IF TargetOf(op) \in subscribed THEN 409 ELSE 200)}
      [] op \in Unsubscribes \cup UsesHead ->
            {Says(IF TargetOf(op) \in subscribed THEN 200 ELSE 404)}
      [] op = "createTopic" -> {Says(IF topic THEN 409 ELSE 200)}
      [] op = "installPush" -> {[Says(200) EXCEPT !.installation = Len(warming) + 1]}
      [] op = "getEndpoint" /\ i = 0 -> {Says(404)}
      [] op = "getEndpoint" /\ i # 0 ->
            IF warming[i] = 0 THEN {Says(200)}
            ELSE {[Says(503) EXCEPT !.delay = d] : d \in warming[i] .. Warmup}

\* Every caller who waits is a witness of what the thing is subscribed to.
Witness == seen' = [t \in Thread |-> IF pc[t] = "asked" THEN seen[t] \cup {subscribed'}
                                                       ELSE seen[t]]

Serve(t) ==
    /\ t \in Underway
    /\ Serves(goal[t])
    /\ \E m \in Replies(goal[t], installed[t]) : reply' = [reply EXCEPT ![t] = m]
    /\ Witness
    /\ UNCHANGED <<late, tasks, pc, goal, faults, program, unopposed>>

\* A late request is served, and the reply goes nowhere; or it is lost.
ServeLate(op) ==
    /\ late[op] > 0
    /\ late' = [late EXCEPT ![op] = @ - 1]
    /\ Serves(op) \/ UNCHANGED server
    /\ Witness
    /\ UNCHANGED <<tasks, pc, goal, faults, reply, program, unopposed>>

\* The server refuses, for reasons of its own.
Refuse(t) ==
    /\ t \in Underway
    /\ Spoilt(t)
    /\ \E s \in {s \in Status : ~Success(s)} \ {404, 409} :
          reply' = [reply EXCEPT ![t] = Says(s)]
    /\ UNCHANGED <<server, late, tasks, pc, goal, program, seen, unopposed>>

Next ==
    \/ \E t \in Thread :
          Begin(t) \/ Ask(t) \/ FailExchange(t) \/ Receive(t) \/ Serve(t) \/ Refuse(t)
    \/ \E op \in Straggler : ServeLate(op)

\* A program goes on, and a request whose caller waits is answered.
Fairness == \A t \in Thread : WF_vars(Ask(t) \/ Serve(t) \/ Receive(t))

Spec == Init /\ [][Next]_vars /\ Fairness

-----------------------------------------------------------------------------
(* What the programs can rely on.                                           *)

\* KIIE_OK from kii_subscribe_*, kii_unsubscribe_* or kii_is_*_subscribed tells
\* the truth about some moment of the call, whatever other programs and late
\* requests did meanwhile -- also when it was 409 or 404 that said so.
AnswersAreOfTheCall ==
    \A t \in Thread : pc[t] = "done" =>
        CASE goal[t] \in Subscribes   -> \E s \in seen[t] : TargetOf(goal[t]) \in s
          [] goal[t] \in Unsubscribes -> \E s \in seen[t] : TargetOf(goal[t]) \notin s
          [] goal[t] \in UsesHead     -> \E s \in seen[t] : answer[t] = (TargetOf(goal[t]) \in s)
          [] OTHER                    -> TRUE

\* What a call was told stays so until somebody asks for the opposite, unless a
\* request for the opposite was under way when the call began: only such a
\* straggler, which a call that has long failed may have left, can undo what
\* KIIE_OK has reported.  Stragglers that ask for the same, and whatever else
\* other programs do, cannot; and nothing undoes the creation of a topic.
OnlyStragglersUndo ==
    \A t \in Thread : pc[t] = "done" =>
        /\ goal[t] \in {"createTopic", "subscribeTopic"} => topic
        /\ unopposed[t] =>
            /\ goal[t] \in Subscribes => TargetOf(goal[t]) \in subscribed
            /\ goal[t] \in Unsubscribes => TargetOf(goal[t]) \notin subscribed

\* A program that has an installation and waits as kii_get_mqtt_endpoint tells
\* it gets its endpoint within three calls, also when one of them goes wrong.
WaitingAsToldSuffices ==
    \A t \in Thread :
        pc[t] = "gaveUp" /\ goal[t] = "getEndpoint" /\ installed[t] # 0 => faults[t] >= 2

\* A program that repeats kii_subscribe_* or kii_create_topic is told KIIE_OK in
\* the end, though the reply to the request that did it may be lost.
RetriesSucceed ==
    \A t \in Thread :
        pc[t] = "ready" /\ goal[t] \in Subscribes \cup {"createTopic"} ~> pc[t] = "done"
=============================================================================
