---------------------------- MODULE ObjectStore ----------------------------
(***************************************************************************)
(* One object of a bucket and the programs that create, patch, replace,    *)
(* read and delete it through kii_cloud.c.  Requests travel: one may reach *)
(* the server late, even after its caller has been told that the exchange  *)
(* failed, or never; its reply may be lost, unreadable or too much for the *)
(* caller's memory after the server has acted.                             *)
(*                                                                         *)
(* What a call sends and how it reads the reply is KiiExchange's.  The     *)
(* server is external, modelled by the preconditions the SDK relies on.    *)
(* A program uses the SDK as its tests do: the ETag it passes as opt_etag  *)
(* is the out_etag of its last successful call, and what it then puts in   *)
(* the object's place is that version with its own update added.           *)
(***************************************************************************)
EXTENDS KiiExchange, Sequences

CONSTANTS
    Thread,   \* threads that share the object, of one thing or of several
    MaxCalls  \* bound: the calls all threads make

ASSUME StoreAssumption ==
    /\ Op \subseteq {"createWithId", "patch", "replace", "get", "delete"}
    /\ 200 \in Status
    /\ MaxCalls \in Nat

VARIABLES
    history,  \* the server's versions of the object; an ETag is a place in it
    network,  \* requests that may still reach the server
    calls,    \* the number of calls made
    pc,       \* "idle", "asked" or "returned"
    request,  \* each thread's present or last request
    reply,    \* the server's reply to it, on its way
    outcome,  \* the result the call returned and the status in its error details
    held      \* the version the thread's program holds: ETag and contents

server == <<history, network>>
client == <<pc, request, reply, outcome, held>>
vars == <<history, network, calls, client>>

\* Contents are the updates they carry, an update is known by its call's number.
Update == 1 .. MaxCalls
NoRequest == [id |-> 0, call |-> [op |-> "none", ifMatch |-> FALSE, wantEtag |-> FALSE,
                                  wantId |-> FALSE],
              headers |-> {}, etag |-> 0, contents |-> {}]
NoMessage == [status |-> 0, etag |-> 0, contents |-> {}]
NoOutcome == [ret |-> "OK", status |-> 0]
Nothing == [etag |-> 0, contents |-> {}]

Request ==
    [id : Update, call : Call, headers : SUBSET {"if-match", "if-none-match"},
     etag : 0 .. MaxCalls, contents : SUBSET Update]
Message == [status : Status, etag : 0 .. MaxCalls, contents : SUBSET Update]

TypeOK ==
    /\ history \in Seq([change : Request, exists : BOOLEAN, contents : SUBSET Update])
    /\ Len(history) <= calls
    /\ network \in SUBSET Request
    /\ calls \in 0 .. MaxCalls
    /\ pc \in [Thread -> {"idle", "asked", "returned"}]
    /\ request \in [Thread -> Request \cup {NoRequest}]
    /\ reply \in [Thread -> Message \cup {NoMessage}]
    /\ outcome \in [Thread -> [ret : Result, status : Status \cup {0}]]
    /\ held \in [Thread -> [etag : 0 .. MaxCalls, contents : SUBSET Update]]

Init ==
    /\ history = <<>> /\ network = {} /\ calls = 0
    /\ pc = [t \in Thread |-> "idle"]
    /\ request = [t \in Thread |-> NoRequest]
    /\ reply = [t \in Thread |-> NoMessage]
    /\ outcome = [t \in Thread |-> NoOutcome]
    /\ held = [t \in Thread |-> Nothing]

Return(t, o) ==
    /\ pc' = [pc EXCEPT ![t] = "returned"]
    /\ outcome' = [outcome EXCEPT ![t] = [ret |-> o.ret, status |-> o.err.status]]

-----------------------------------------------------------------------------
(* The calls.                                                               *)

\* The contents a call leaves in the object, as its program believes: its own
\* update, on top of the version it holds if it passes that version's ETag.
Believed(t, c) == {calls + 1} \cup IF c.ifMatch THEN held[t].contents ELSE {}

\* A call sends its request, or finds no memory to prepare it.
Ask(t) ==
    /\ pc[t] # "asked" /\ calls < MaxCalls
    /\ calls' = calls + 1
    /\ \E c \in Call :
          /\ c.ifMatch => held[t].etag # 0
          /\ request' = [request EXCEPT ![t] =
                            [id |-> calls + 1, call |-> c, headers |-> Precondition(c),
                             etag |-> IF c.ifMatch THEN held[t].etag ELSE 0,
                             contents |-> Believed(t, c)]]
    /\ reply' = [reply EXCEPT ![t] = NoMessage]
    /\ \/ /\ network' = network \cup {request'[t]}
          /\ pc' = [pc EXCEPT ![t] = "asked"]
          /\ outcome' = [outcome EXCEPT ![t] = NoOutcome]
       \/ /\ Return(t, NoMemory({}))
          /\ UNCHANGED network
    /\ UNCHANGED <<history, held>>

\* Mutant: the adapter repeats the request by itself.
FailExchangeRetrying(t) ==
    /\ pc[t] = "asked"
    /\ network' = network \cup {request[t]}
    /\ reply' = [reply EXCEPT ![t] = NoMessage]
    /\ UNCHANGED <<history, calls, pc, request, outcome, held>>

\* The adapter fails, whatever has become of the request.
FailExchange(t) ==
    /\ pc[t] = "asked"
    /\ Return(t, Ends("ADAPTER", NoError, {}))
    /\ UNCHANGED <<history, network, calls, request, reply, held>>

\* What the program holds after a call it was told has succeeded.  Without an
\* ETag it cannot pass one.
HeldAfter(q, m, o) ==
    CASE q.call.op = "get"    -> [etag     |-> IF "etag" \in o.given THEN m.etag ELSE 0,
                                  contents |-> m.contents]
      [] q.call.op = "delete" -> Nothing
      [] OTHER                -> [etag     |-> IF "etag" \in o.given THEN m.etag ELSE 0,
                                  contents |-> q.contents]

\* The reply arrives and is read.
Receive(t) ==
    /\ pc[t] = "asked" /\ reply[t] # NoMessage
    /\ \E r \in ReplyTo(request[t].call.op) :
          /\ r.status = reply[t].status
          /\ \E o \in ParseReply(request[t].call, r) :
                /\ Return(t, o)
                /\ held' = IF o.ret = "OK"
                           THEN [held EXCEPT ![t] = HeldAfter(request[t], reply[t], o)]
                           ELSE held
    /\ UNCHANGED <<history, network, calls, request, reply>>

-----------------------------------------------------------------------------
(* The server.                                                              *)

Version == Len(history)
Exists == Version > 0 /\ history[Version].exists
Contents == IF Exists THEN history[Version].contents ELSE {}

\* The preconditions of HTTP; a request without one but PUT needs the object.
Meets(q) ==
    /\ "if-match" \in q.headers => Exists /\ q.etag = Version
    /\ "if-none-match" \in q.headers => ~Exists
    /\ q.headers = {} /\ q.call.op # "replace" => Exists

Written(q) ==
    [change   |-> q,
     exists   |-> q.call.op # "delete",
     contents |-> CASE q.call.op = "patch"  -> Contents \cup {q.id}
                    [] q.call.op = "delete" -> {}
                    [] OTHER                -> q.contents]

\* A reply reaches only a caller who still waits for it.
Answer(q, m) ==
    reply' = [t \in Thread |-> IF pc[t] = "asked" /\ request[t] = q THEN m ELSE reply[t]]

Serve(q) ==
    /\ q \in network /\ Meets(q)
    /\ network' = network \ {q}
    /\ history' = IF q.call.op = "get" THEN history ELSE Append(history, Written(q))
    /\ \E s \in {s \in Status : Success(s)} :
          Answer(q, [status |-> s, etag |-> Len(history'),
                     contents |-> history'[Len(history')].contents])
    /\ UNCHANGED <<calls, pc, request, outcome, held>>

\* The server may refuse any request, for reasons of its own too.
Refuse(q) ==
    /\ q \in network
    /\ network' = network \ {q}
    /\ \E s \in {s \in Status : ~Success(s)} :
          Answer(q, [status |-> s, etag |-> 0, contents |-> {}])
    /\ UNCHANGED <<history, calls, pc, request, outcome, held>>

Next ==
    \/ \E t \in Thread : Ask(t) \/ FailExchange(t) \/ Receive(t)
    \/ \E q \in network : Serve(q) \/ Refuse(q)

Spec == Init /\ [][Next]_vars

-----------------------------------------------------------------------------
(* What the programs can rely on.                                           *)

Returned(t, result) == pc[t] = "returned" /\ outcome[t].ret = result
\* The ETag a program holds after a success is that of a version with the
\* contents it believes in, whatever other programs did before, during or after
\* the call: what it builds on that version loses nothing.
HeldIsAVersion ==
    \A t \in Thread : held[t].etag # 0 =>
        /\ held[t].etag \in DOMAIN history
        /\ history[held[t].etag].exists
        /\ history[held[t].etag].contents = held[t].contents

\* Only a replacement without an ETag, and a deletion, may take an update of
\* another call out of the object: the others name the version they change.
NoLostUpdate ==
    \A i \in DOMAIN history :
        LET c == history[i].change.call
        IN  i > 1 /\ c.op # "delete" /\ ~(c.op = "replace" /\ ~c.ifMatch) =>
                history[i - 1].contents \subseteq history[i].contents

\* kii_cloud.h:310 of kii_patch_object: "opt_etag if NULL apply patch
\* regardless of updates on server" -- such a patch meets no precondition that
\* an object with updates fails.
DocPatchIsUnconditional ==
    \A q \in network : q.call.op = "patch" /\ ~q.call.ifMatch /\ Exists => Meets(q)

-----------------------------------------------------------------------------
(* The calls share the object as SharedObject promises.                     *)

\* What the caller of c agrees to change.
Agrees(c) ==
    CASE c.op = "createWithId" -> "absent"
      [] c.op \in TakesEtag /\ c.ifMatch -> "version"
      [] c.op = "patch" /\ ~c.ifMatch -> "absent"
      [] c.op = "replace" /\ ~c.ifMatch -> "anything"
      [] OTHER -> "present"
Does(c) == IF c.op \in {"createWithId", "replace"} THEN "put" ELSE c.op

AbstractRequest(q) ==
    [id |-> q.id, agrees |-> Agrees(q.call), etag |-> q.etag, does |-> Does(q.call),
     contents |-> q.contents]

AbstractRequests ==
    {q \in [id : Update, agrees : {"anything", "absent", "present", "version"},
            etag : 0 .. MaxCalls, does : {"put", "patch", "delete", "get"},
            contents : SUBSET Update] :
        q.id \in q.contents /\ (q.agrees = "version" <=> q.etag # 0)}

\* What the program learns from the return of its call.
Learns(t) ==
    CASE pc[t] = "idle"       -> "none"
      [] pc[t] = "asked"      -> "waiting"
      [] Returned(t, "OK")    -> "ok"
      [] Returned(t, "FAIL") /\ outcome[t].status # 0 /\ ~Success(outcome[t].status)
                              -> "refused"
      [] OTHER                -> "unknown"

Abstract == INSTANCE SharedObject WITH
    Request   <- AbstractRequests,
    NoRequest <- AbstractRequest(NoRequest),
    history   <- [i \in DOMAIN history |->
                    [by |-> history[i].change.id, exists |-> history[i].exists,
                     contents |-> history[i].contents]],
    open      <- {AbstractRequest(q) : q \in network},
    asked     <- [t \in Thread |-> AbstractRequest(request[t])],
    result    <- [t \in Thread |-> Learns(t)]

ImplementsSharedObject == Abstract!Spec
=============================================================================
