---------------------------- MODULE KiiExchange ----------------------------
(***************************************************************************)
(* What each API function of kii_cloud.c asks of the server and how it     *)
(* reads the answer: the arguments and preconditions of the sixteen calls, *)
(* the replies the adapter delivers and, for each of the functions that    *)
(* read a reply, the outcomes it can reach.  No state: KiiCall runs a call *)
(* step by step, ObjectStore sends its request over a network.             *)
(***************************************************************************)
EXTENDS Naturals

CONSTANTS
    Op,      \* the API functions the program calls
    Status   \* the HTTP status codes the server may answer with

\* The API functions of kii_cloud.h that execute an HTTP exchange.
ApiFunction ==
    {"register", "create", "createWithId", "patch", "replace", "get", "delete",
     "subscribeBucket", "unsubscribeBucket", "isBucketSubscribed",
     "createTopic", "subscribeTopic", "unsubscribeTopic", "isTopicSubscribed",
     "installPush", "getEndpoint"}

ASSUME ExchangeAssumption == Op \subseteq ApiFunction /\ Status \subseteq Nat \ {0}

-----------------------------------------------------------------------------
(* What distinguishes the API functions.                                   *)

\* Calls that send a request body.
SendsBody == {"register", "create", "createWithId", "patch", "replace", "installPush"}

\* Calls that ask the adapter for the response headers.
ReadsHeader == {"create", "createWithId", "patch", "replace", "get"}

\* Calls that use HEAD, whose reply has no body.
UsesHead == {"isBucketSubscribed", "isTopicSubscribed"}

\* Calls whose caller may give the ETag of the version it means to change.
TakesEtag == {"patch", "replace"}

\* A call with its optional arguments: is opt_etag given, are out_etag and
\* out_object_id wanted.  patch and get assert that out_etag is not NULL.
Call ==
    {c \in [op : Op, ifMatch : BOOLEAN, wantEtag : BOOLEAN, wantId : BOOLEAN] :
        /\ c.ifMatch => c.op \in TakesEtag
        /\ c.wantEtag => c.op \in ReadsHeader
        /\ c.op \in {"patch", "get"} => c.wantEtag
        /\ c.wantId => c.op = "create"}

\* Mutants: without an ETag patch and replace are unconditional; replace
\* forgets its caller's ETag.
PreconditionAsDocumented(c) ==
    CASE c.op = "createWithId" -> {"if-none-match"}
      [] c.ifMatch             -> {"if-match"}
      [] OTHER                 -> {}
PreconditionOfPatch(c) ==
    CASE c.op = "createWithId" -> {"if-none-match"}
      [] c.op = "patch"        -> IF c.ifMatch THEN {"if-match"} ELSE {"if-none-match"}
      [] OTHER                 -> {}

\* The conditional headers a call adds to the common ones.
Precondition(c) ==
    CASE c.op = "createWithId" -> {"if-none-match"}
      [] c.op = "patch"        -> IF c.ifMatch THEN {"if-match"} ELSE {"if-none-match"}
      [] c.op = "replace"      -> IF c.ifMatch THEN {"if-match"} ELSE {}
      [] OTHER                 -> {}

-----------------------------------------------------------------------------
(* Replies, errors and what a call hands to its caller.                    *)

\* kii_error_code_t; KIIE_RESPWRITE is declared and never produced.
Result == {"OK", "FAIL", "LOWMEMORY", "RESPWRITE", "ADAPTER"}

\* kii_error_t.  The code is what the server named, the whole body when it
\* named none, the SDK's own PARSE_ERROR, or empty.  "junk" stands for memory
\* nobody wrote.
Code == {"empty", "server", "body", "PARSE_ERROR", "junk"}
Error == [status : Status \cup {0}, code : Code]
NoError == [status |-> 0, code |-> "empty"]
Junk == [status |-> 0, code |-> "junk"]

\* What kii_http_execute delivered: the status, the response header object
\* (NULL, one without an etag, one with) and the body (NULL, not JSON, JSON
\* that lacks a member the call reads, JSON with all of them, each of the type
\* the call reads).
Reply == [status : Status,
          header : {"none", "noetag", "etag"},
          body   : {"absent", "garbled", "partial", "full"}]
NoReply == [status |-> 0, header |-> "none", body |-> "absent"]

NotJson == {"absent", "garbled"}

\* A reply the adapter can produce for a call of op.
ReplyTo(op) ==
    {r \in Reply : /\ op \notin ReadsHeader => r.header = "none"
                   /\ op \in UsesHead => r.body = "absent"}

Success(s) == 200 <= s /\ s < 300

\* The out parameters, and the blocks a caller who holds one can dispose of.
Param == {"thing", "token", "objectId", "etag", "contents", "isSubscribed",
          "installationId", "endpoint", "retryAfter"}
EndpointBlock == {"endpoint", "username", "password", "topic", "host"}
Owned(p) ==
    CASE p = "thing"                       -> {"thing", "thingId"}
      [] p = "endpoint"                    -> EndpointBlock
      [] p \in {"isSubscribed", "retryAfter"} -> {}
      [] OTHER                             -> {p}
OwnedBy(P) == UNION {Owned(p) : p \in P}

\* The blocks a call allocates for the exchange and must free itself.
Local == {"url", "headers", "body", "respHeader", "respBody"}
Block == Local \cup OwnedBy(Param)

-----------------------------------------------------------------------------
(* Reading the reply.  Each operator returns the set of outcomes the code   *)
(* may reach: the result, the error details it leaves, the out parameters   *)
(* it sets and the blocks it leaves allocated.                              *)

Outcome == [ret : Result, err : Error, given : SUBSET Param, blocks : SUBSET Block]

Ends(result, error, got) ==
    [ret |-> result, err |-> error, given |-> got, blocks |-> OwnedBy(got)]

Succeeds(got) == Ends("OK", NoError, got)
NoMemory(got) == Ends("LOWMEMORY", NoError, got)
\* Mutants: the details left zeroed; the status stored as its class.
MalformedSilently(r, got) == Ends("FAIL", NoError, got)
MalformedByClass(r, got) ==
    Ends("FAIL", [status |-> r.status \div 100, code |-> "PARSE_ERROR"], got)
Malformed(r, got) ==
    Ends("FAIL", [status |-> r.status, code |-> "PARSE_ERROR"], got)

Refused(r, code, got) == Ends("FAIL", [status |-> r.status, code |-> code], got)

\* json_loads answers NULL for a body that is not JSON and for one it finds no
\* memory to hold: its callers report either as a lack of memory.

\* prv_parse_response_error_code.  Only a body is parsed; when that fails the
\* error details stay empty.
ErrorReply(r, got) ==
    CASE r.body = "absent"  -> {Refused(r, "empty", got)}
      [] r.body = "garbled" -> {NoMemory(got)}
      [] r.body = "partial" -> {Refused(r, "body", got), NoMemory(got)}
      [] r.body = "full"    -> {Refused(r, "server", got), NoMemory(got)}

\* The access token and the thing are copied; when either copy fails both are
\* released, but of the thing only the structure: its identifier stays.
RegisterRollback(made) == {"thingId"} \cap made

ParseRegisterDangling(r) ==               \* mutant: released, the pointers not set to NULL
    CASE r.body \in NotJson   -> {NoMemory({})}
      [] r.body = "partial"   -> {Malformed(r, {}), NoMemory({})}
      [] r.body = "full"      ->
            {Succeeds({"thing", "token"})} \cup
            {[NoMemory(made) EXCEPT !.blocks = RegisterRollback(OwnedBy(made))] :
                made \in {{}, {"thing"}, {"token"}}}

ParseRegister(r) ==
    CASE r.body \in NotJson   -> {NoMemory({})}
      [] r.body = "partial"   -> {Malformed(r, {}), NoMemory({})}
      [] r.body = "full"      ->
            {Succeeds({"thing", "token"})} \cup
            {[NoMemory({}) EXCEPT !.blocks = RegisterRollback(OwnedBy(made))] :
                made \in {{}, {"thing"}, {"token"}}}

\* The header is read before the body, so the ETag is already given to the
\* caller when the body turns out to be unusable.
CreatedId(c, r, got) ==
    CASE ~c.wantId                          -> {Succeeds(got)}
      [] c.wantId /\ r.body \in NotJson     -> {NoMemory(got)}
      [] c.wantId /\ r.body = "partial"     -> {Malformed(r, got), NoMemory(got)}
      [] c.wantId /\ r.body = "full"        ->
            {Succeeds(got \cup {"objectId"}), NoMemory(got)}
ParseCreate(c, r) ==
    CASE c.wantEtag /\ r.header = "noetag" -> {Malformed(r, {})}
      [] c.wantEtag /\ r.header = "etag"   ->
            {NoMemory({})} \cup CreatedId(c, r, {"etag"})
      [] OTHER                             -> CreatedId(c, r, {})

\* Copy the ETag when it is wanted and there are headers to read it from.
ParseEtag(c, r, otherwise) ==
    CASE c.wantEtag /\ r.header = "noetag" -> {Malformed(r, {})}
      [] c.wantEtag /\ r.header = "etag"   -> {Succeeds({"etag"}), NoMemory({})}
      [] OTHER                             -> {otherwise}
\* createWithId and replace do without the headers, patch does not: its result
\* keeps the initial KIIE_FAIL and its error details stay zeroed.
ParsePut(c, r) == ParseEtag(c, r, Succeeds({}))
ParsePatchAsPut(c, r) == ParsePut(c, r)   \* mutant: the else branch of its siblings
ParsePatch(c, r) == ParseEtag(c, r, Ends("FAIL", NoError, {}))

\* The contents are given to the caller before the ETag is looked for.
ParseGet(r) ==
    CASE r.body \in NotJson -> {NoMemory({})}
      [] r.body \notin NotJson /\ r.header = "none"   ->
            {NoMemory({}), Succeeds({"contents"})}
      [] r.body \notin NotJson /\ r.header = "noetag" ->
            {NoMemory({}), Malformed(r, {"contents"})}
      [] r.body \notin NotJson /\ r.header = "etag"   ->
            {NoMemory({}), NoMemory({"contents"}), Succeeds({"contents", "etag"})}

ParseInstall(r) ==
    CASE r.body \in NotJson -> {NoMemory({})}
      [] r.body = "partial" -> {Malformed(r, {}), NoMemory({})}
      [] r.body = "full"    -> {Succeeds({"installationId"}), NoMemory({})}

\* 503: the endpoint is not ready.  The body is parsed twice: for the delay,
\* set when it is positive, then for the error, which may find no memory with
\* the delay already set.
ParseNotReady(r) ==
    IF r.body \in NotJson
    THEN {NoMemory({})}
    ELSE ErrorReply(r, {}) \cup ErrorReply(r, {"retryAfter"})

EndpointRollbackButHost(made) == made \ (EndpointBlock \ {"host"})   \* mutant

\* A missing member leaves status 0 in the error.  Five blocks are allocated
\* and all released when one of them could not be.
EndpointRollback(made) == made \ EndpointBlock
ParseEndpoint(r) ==
    CASE r.body \in NotJson -> {NoMemory({})}
      [] r.body = "partial" ->
            {Ends("FAIL", [status |-> 0, code |-> "PARSE_ERROR"], {}), NoMemory({})}
      [] r.body = "full"    ->
            {Succeeds({"endpoint"})} \cup
            {[NoMemory({}) EXCEPT !.blocks = EndpointRollback(made)] :
                made \in (SUBSET EndpointBlock) \ {EndpointBlock}}

AcceptsOnlySuccess(op, s) == Success(s)   \* mutant: 409 and 404 are failures
AcceptsAbove(op, s) == s >= 200           \* mutant: no upper bound on the status

\* The status codes a call does not hand to prv_parse_response_error_code:
\* "already subscribed" and "already created" are successes, and a missing
\* subscription is an answer.
Accepts(op, s) ==
    \/ Success(s)
    \/ s = 409 /\ op \in {"subscribeBucket", "createTopic", "subscribeTopic"}
    \/ s = 404 /\ op \in UsesHead

ParseAccepted(c, r) ==
    CASE c.op = "register"                     -> ParseRegister(r)
      [] c.op = "create"                       -> ParseCreate(c, r)
      [] c.op \in {"createWithId", "replace"}  -> ParsePut(c, r)
      [] c.op = "patch"                        -> ParsePatch(c, r)
      [] c.op = "get"                          -> ParseGet(r)
      [] c.op \in UsesHead                     -> {Succeeds({"isSubscribed"})}
      [] c.op = "installPush"                  -> ParseInstall(r)
      [] c.op = "getEndpoint"                  -> ParseEndpoint(r)
      [] OTHER                                 -> {Succeeds({})}

ParseReply(c, r) ==
    CASE Accepts(c.op, r.status) -> ParseAccepted(c, r)
      [] ~Accepts(c.op, r.status) /\ c.op = "getEndpoint" /\ r.status = 503
                                 -> ParseNotReady(r)
      [] OTHER                   -> ErrorReply(r, {})

\* The out parameters a caller may rely on after KIIE_OK.
Promised(c) ==
    CASE c.op = "register"    -> {"thing", "token"}
      [] c.op = "create"      -> IF c.wantId THEN {"objectId"} ELSE {}
      [] c.op = "patch"       -> {"etag"}
      [] c.op = "get"         -> {"contents"}
      [] c.op \in UsesHead    -> {"isSubscribed"}
      [] c.op = "installPush" -> {"installationId"}
      [] c.op = "getEndpoint" -> {"endpoint"}
      [] OTHER                -> {}

=============================================================================
