------------------------------ MODULE KiiCall ------------------------------
(***************************************************************************)
(* One API call of the Kii Thing SDK, from its entry to its return, for    *)
(* every call of kii_cloud.c that talks to the server.  All sixteen share  *)
(* one shape: allocate a URL, a header object and a request body, execute  *)
(* one HTTP exchange, read the reply, free what was allocated for the      *)
(* exchange, record the outcome in the application object and return.      *)
(* They differ in what they allocate, in the order, in the preconditions   *)
(* they put on the request and in how they read the reply (KiiExchange).   *)
(*                                                                         *)
(* Any allocation may fail and the server may answer anything.  Several    *)
(* threads call the SDK, each with an application object of its own, as    *)
(* the thread-safety section of the README asks.                           *)
(***************************************************************************)
EXTENDS KiiExchange

CONSTANTS
    Thread,  \* the threads of the program
    App,     \* the application objects (kii_app_t)
    AppOf    \* the application object each thread passes to the SDK

\* README.md of the SDK: "Don't share instance which is passed to SDK apis as
\* non-const argument among the threads" -- kii_app_t is such an argument.
ASSUME CallAssumption ==
    /\ AppOf \in [Thread -> App]
    /\ \A s, t \in Thread : AppOf[s] = AppOf[t] => s = t

\* Every call prepares its headers before its body, installPush after it.
AfterUrl(op) == IF op = "installPush" THEN "body" ELSE "headers"
AfterHeaders(op) == IF op \in SendsBody \ {"installPush"} THEN "body" ELSE "execute"
AfterBody(op) == IF op = "installPush" THEN "headers" ELSE "execute"

-----------------------------------------------------------------------------
VARIABLES
    pc,       \* where each thread is in its call
    call,     \* the call and its arguments
    ret,      \* the local "ret"
    err,      \* the local "err" (kii_error_t)
    heap,     \* blocks allocated in this call and not freed
    precond,  \* conditional headers in the header object
    reply,    \* what kii_http_execute delivered
    given,    \* out parameters the call has set
    last      \* last_result and last_error of each application object

vars == <<pc, call, ret, err, heap, precond, reply, given, last>>

Step == {"idle", "url", "headers", "body", "execute", "parse", "exit", "returned"}
Last == [result : Result, error : Error]

NoCall == [op |-> "none", ifMatch |-> FALSE, wantEtag |-> FALSE, wantId |-> FALSE]

TypeOK ==
    /\ pc \in [Thread -> Step]
    /\ call \in [Thread -> Call \cup {NoCall}]
    /\ ret \in [Thread -> Result]
    /\ err \in [Thread -> Error]
    /\ heap \in [Thread -> SUBSET Block]
    /\ precond \in [Thread -> SUBSET {"if-match", "if-none-match"}]
    /\ reply \in [Thread -> Reply \cup {NoReply}]
    /\ given \in [Thread -> SUBSET Param]
    /\ last \in [App -> Last]

\* kii_init_app sets last_result and leaves last_error as malloc returned it.
Init ==
    /\ pc = [t \in Thread |-> "idle"]
    /\ call = [t \in Thread |-> NoCall]
    /\ ret = [t \in Thread |-> "FAIL"]
    /\ err = [t \in Thread |-> NoError]
    /\ heap = [t \in Thread |-> {}]
    /\ precond = [t \in Thread |-> {}]
    /\ reply = [t \in Thread |-> NoReply]
    /\ given = [t \in Thread |-> {}]
    /\ last = [a \in App |-> [result |-> "OK", error |-> Junk]]

\* Mutant: the details of the previous call are erased at the entry.
BeginErasing(t) ==
    /\ pc[t] \in {"idle", "returned"}
    /\ \E c \in Call : call' = [call EXCEPT ![t] = c]
    /\ pc' = [pc EXCEPT ![t] = "url"]
    /\ last' = [last EXCEPT ![AppOf[t]] = [result |-> "FAIL", error |-> NoError]]
    /\ UNCHANGED <<ret, err, heap, precond, reply, given>>

\* The caller has disposed of what the previous call gave it, or never will.
\* The locals are initialised and err is zeroed.
Begin(t) ==
    /\ pc[t] \in {"idle", "returned"}
    /\ \E c \in Call : call' = [call EXCEPT ![t] = c]
    /\ pc' = [pc EXCEPT ![t] = "url"]
    /\ ret' = [ret EXCEPT ![t] = "FAIL"]
    /\ err' = [err EXCEPT ![t] = NoError]
    /\ heap' = [heap EXCEPT ![t] = {}]
    /\ precond' = [precond EXCEPT ![t] = {}]
    /\ reply' = [reply EXCEPT ![t] = NoReply]
    /\ given' = [given EXCEPT ![t] = {}]
    /\ UNCHANGED last

\* "goto ON_EXIT" with the result r.
GotoExit(t, r) ==
    /\ ret' = [ret EXCEPT ![t] = r]
    /\ pc' = [pc EXCEPT ![t] = "exit"]

Allocate(t, blocks) == heap' = [heap EXCEPT ![t] = @ \cup blocks]

BuildUrl(t) ==
    /\ pc[t] = "url"
    /\ \/ /\ GotoExit(t, "LOWMEMORY")
          /\ UNCHANGED heap
       \/ /\ Allocate(t, {"url"})
          /\ pc' = [pc EXCEPT ![t] = AfterUrl(call[t].op)]
          /\ UNCHANGED ret
    /\ UNCHANGED <<call, err, precond, reply, given, last>>

PrepareHeadersUnchecked(t) ==   \* mutant: a conditional header that fails is ignored
    /\ pc[t] = "headers"
    /\ Allocate(t, {"headers"})
    /\ \E p \in {{}, Precondition(call[t])} : precond' = [precond EXCEPT ![t] = p]
    /\ pc' = [pc EXCEPT ![t] = AfterHeaders(call[t].op)]
    /\ UNCHANGED <<call, ret, err, reply, given, last>>

\* The header object, then the conditional header if the call has one; when
\* that one cannot be added the header object stays allocated.
PrepareHeaders(t) ==
    /\ pc[t] = "headers"
    /\ \/ /\ GotoExit(t, "LOWMEMORY")
          /\ UNCHANGED <<heap, precond>>
       \/ /\ Precondition(call[t]) # {}
          /\ Allocate(t, {"headers"})
          /\ GotoExit(t, "LOWMEMORY")
          /\ UNCHANGED precond
       \/ /\ Allocate(t, {"headers"})
          /\ precond' = [precond EXCEPT ![t] = Precondition(call[t])]
          /\ pc' = [pc EXCEPT ![t] = AfterHeaders(call[t].op)]
          /\ UNCHANGED ret
    /\ UNCHANGED <<call, err, reply, given, last>>

PrepareBody(t) ==
    /\ pc[t] = "body"
    /\ \/ /\ GotoExit(t, "LOWMEMORY")
          /\ UNCHANGED heap
       \/ /\ Allocate(t, {"body"})
          /\ pc' = [pc EXCEPT ![t] = AfterBody(call[t].op)]
          /\ UNCHANGED ret
    /\ UNCHANGED <<call, err, precond, reply, given, last>>

\* The blocks a reply consists of, when it arrived whole.
ReplyBlocks(r) ==
    (IF r.header = "none" THEN {} ELSE {"respHeader"}) \cup
    (IF r.body = "absent" THEN {} ELSE {"respBody"})

\* kii_http_execute fails, having possibly stored a part of the reply, or
\* delivers a reply.
Execute(t) ==
    /\ pc[t] = "execute"
    /\ \/ /\ \E r \in ReplyTo(call[t].op) : Allocate(t, ReplyBlocks(r))
          /\ GotoExit(t, "ADAPTER")
          /\ UNCHANGED reply
       \/ /\ \E r \in ReplyTo(call[t].op) :
                /\ reply' = [reply EXCEPT ![t] = r]
                /\ Allocate(t, ReplyBlocks(r))
          /\ pc' = [pc EXCEPT ![t] = "parse"]
          /\ UNCHANGED ret
    /\ UNCHANGED <<call, err, precond, given, last>>

Parse(t) ==
    /\ pc[t] = "parse"
    /\ \E o \in ParseReply(call[t], reply[t]) :
          /\ GotoExit(t, o.ret)
          /\ err' = [err EXCEPT ![t] = o.err]
          /\ given' = [given EXCEPT ![t] = o.given]
          /\ Allocate(t, o.blocks)
    /\ UNCHANGED <<call, precond, reply, last>>

\* prv_kii_set_last_error copies the result and the details, whatever they are.
Recorded(r, e) == [result |-> r, error |-> e]

ExitRecordingFailures(t) ==     \* mutant: only failures are recorded
    /\ pc[t] = "exit"
    /\ heap' = [heap EXCEPT ![t] = @ \ Local]
    /\ last' = IF ret[t] = "OK" THEN last
               ELSE [last EXCEPT ![AppOf[t]] = Recorded(ret[t], err[t])]
    /\ pc' = [pc EXCEPT ![t] = "returned"]
    /\ UNCHANGED <<call, ret, err, precond, reply, given>>

\* ON_EXIT: free what served the exchange, record the outcome, return.
Exit(t) ==
    /\ pc[t] = "exit"
    /\ heap' = [heap EXCEPT ![t] = @ \ Local]
    /\ last' = [last EXCEPT ![AppOf[t]] = Recorded(ret[t], err[t])]
    /\ pc' = [pc EXCEPT ![t] = "returned"]
    /\ UNCHANGED <<call, ret, err, precond, reply, given>>

Next ==
    \E t \in Thread :
        \/ Begin(t)
        \/ BuildUrl(t)
        \/ PrepareHeaders(t)
        \/ PrepareBody(t)
        \/ Execute(t)
        \/ Parse(t)
        \/ Exit(t)

Spec == Init /\ [][Next]_vars

-----------------------------------------------------------------------------
(* What the caller sees when a call has returned.                           *)

\* kii_get_last_error: a pointer to last_error, or NULL, written as the set
\* of the objects it leads to.
KiiGetLastError(a) == IF last[a].result = "FAIL" THEN {last[a].error} ELSE {}

\* A call frees everything it allocated except what it hands to the caller,
\* whichever allocation failed, whatever was answered, and never hands out a
\* block it freed.  The one exception is kii_register_thing short of memory
\* for the access token: the identifier of the thing it had built is lost.
NoLeak ==
    \A t \in Thread : pc[t] = "returned" =>
        \/ heap[t] = OwnedBy(given[t])
        \/ /\ call[t].op = "register"
           /\ ret[t] = "LOWMEMORY"
           /\ given[t] = {}
           /\ heap[t] = {"thingId"}

\* From the return of a call until the same thread's next one, the application
\* object tells that call's result, and kii_get_last_error gives its details,
\* never those of another thread's call, of an earlier call, or memory nobody
\* wrote, however the calls of the threads interleave.
LastErrorIsOfLastCall ==
    \A t \in Thread : pc[t] = "returned" =>
        /\ last[AppOf[t]].result = ret[t]
        /\ KiiGetLastError(AppOf[t]) = IF ret[t] = "FAIL" THEN {err[t]} ELSE {}
        /\ Junk \notin KiiGetLastError(AppOf[t])

\* The details of a failure carry the status the server answered with, except
\* in the two places where the code leaves it 0: an endpoint reply that lacks
\* a member, and a patch whose successful reply came without headers.  A reply
\* of refusal is told of with its status too, or taken for a lack of memory --
\* the latter only if its body had to be parsed, which a proxy's page, that is
\* no JSON, cannot be: the status of such a refusal is lost.
FailureTellsStatus ==
    \A t \in Thread : pc[t] = "returned" =>
        /\ ret[t] = "FAIL" =>
            \/ err[t].status = reply[t].status
            \/ /\ err[t].status = 0
               /\ Success(reply[t].status)
               /\ \/ call[t].op = "getEndpoint" /\ reply[t].body = "partial"
                  \/ call[t].op = "patch" /\ reply[t].header = "none"
        /\ reply[t] # NoReply /\ ~Accepts(call[t].op, reply[t].status) =>
            \/ ret[t] = "FAIL"
            \/ /\ ret[t] = "LOWMEMORY"
               /\ \/ reply[t].body # "absent"
                  \/ call[t].op = "getEndpoint" /\ reply[t].status = 503

\* KIIE_OK is returned only for a reply the call takes for a success, and then
\* every out parameter the caller relies on is set; the ETag too, unless the
\* reply came without headers.
OkIsComplete ==
    \A t \in Thread : pc[t] = "returned" /\ ret[t] = "OK" =>
        /\ reply[t] # NoReply
        /\ Accepts(call[t].op, reply[t].status)
        /\ Promised(call[t]) \subseteq given[t]
        /\ call[t].wantEtag /\ reply[t].header # "none" => "etag" \in given[t]

\* A call that fails has set no out parameter, but for what it could read of
\* the reply before the rest of it failed: create the ETag before the id, get
\* the contents before the ETag, and getEndpoint the delay of a 503.
FailureGivesNothing ==
    \A t \in Thread : pc[t] = "returned" /\ ret[t] # "OK" =>
        \/ given[t] = {}
        \/ /\ call[t].op = "create" /\ given[t] = {"etag"}
           /\ call[t].wantEtag /\ call[t].wantId
           /\ Success(reply[t].status) /\ reply[t].header = "etag"
        \/ /\ call[t].op = "get" /\ given[t] = {"contents"}
           /\ Success(reply[t].status) /\ reply[t].body \notin NotJson
           /\ reply[t].header # "none"
        \/ /\ call[t].op = "getEndpoint" /\ given[t] = {"retryAfter"}
           /\ reply[t].status = 503 /\ reply[t].body \notin NotJson

\* No request leaves without the condition its caller counts on, even when
\* memory ran out while the headers were put together: an unconditional PUT
\* would overwrite what createWithId, and a caller who gave an ETag, must not.
\* Nor does one leave with a condition nobody asked for, but that of a patch
\* without an ETag (DocPatchIsUnconditional of ObjectStore).
RequestIsGuarded ==
    \A t \in Thread : pc[t] = "execute" =>
        /\ call[t].op = "createWithId" => precond[t] = {"if-none-match"}
        /\ call[t].ifMatch => precond[t] = {"if-match"}
        /\ call[t].op \notin {"createWithId", "patch"} /\ ~call[t].ifMatch => precond[t] = {}
        /\ {"url", "headers"} \subseteq heap[t]
        /\ call[t].op \in SendsBody <=> "body" \in heap[t]

\* The error details of an application object change only by the return of a
\* call made on it: a caller may hold the pointer kii_get_last_error gave it
\* while other threads call the SDK.
ErrorHeldIsStable ==
    [][\A a \in App : last'[a] # last[a] =>
          \E t \in Thread : AppOf[t] = a /\ pc[t] # "returned" /\ pc'[t] = "returned"]_vars

=============================================================================
