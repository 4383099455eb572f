--------------------------- MODULE KiiCall_proofs ---------------------------
(***************************************************************************)
(* Proofs about KiiCall, for any set of threads that own their application *)
(* objects, any API functions and any HTTP status codes.                   *)
(*                                                                         *)
(* The argument: what a call owes its caller is a relation Settled between *)
(* the call, the reply, the result and what is left allocated.  Every      *)
(* reader of replies establishes it (GoodReply, one lemma per reader),     *)
(* every early exit does too and ON_EXIT, which frees the locals only,     *)
(* keeps it.                                                               *)
(***************************************************************************)
EXTENDS KiiCall, TLAPS

-----------------------------------------------------------------------------
(* What a call leaves to its caller.                                        *)

\* The reply has a body to parse, or is one whose body is parsed regardless.
IsParsed(c, r) == r.body # "absent" \/ (c.op = "getEndpoint" /\ r.status = 503)

\* What a failing call may have given before the failure.
GivenBefore(c, r, got) ==
    \/ got = {}
    \/ /\ c.op = "create" /\ got = {"etag"} /\ c.wantEtag /\ c.wantId
       /\ Success(r.status) /\ r.header = "etag"
    \/ /\ c.op = "get" /\ got = {"contents"}
       /\ Success(r.status) /\ r.body \notin NotJson /\ r.header # "none"
    \/ /\ c.op = "getEndpoint" /\ got = {"retryAfter"}
       /\ r.status = 503 /\ r.body \notin NotJson

\* The four invariants about a returned call, as a relation between the call,
\* the reply, the result, the error details, the out parameters set and the
\* blocks left.
Settled(c, r, result, e, got, blocks) ==
    /\ \/ blocks = OwnedBy(got)
       \/ c.op = "register" /\ result = "LOWMEMORY" /\ got = {} /\ blocks = {"thingId"}
    /\ result = "FAIL" =>
        \/ e.status = r.status
        \/ /\ e.status = 0
           /\ Success(r.status)
           /\ \/ c.op = "getEndpoint" /\ r.body = "partial"
              \/ c.op = "patch" /\ r.header = "none"
    /\ r # NoReply /\ ~Accepts(c.op, r.status) =>
        result = "FAIL" \/ (result = "LOWMEMORY" /\ IsParsed(c, r))
    /\ result = "OK" =>
        /\ r # NoReply
        /\ Accepts(c.op, r.status)
        /\ Promised(c) \subseteq got
        /\ c.wantEtag /\ r.header # "none" => "etag" \in got
    /\ result # "OK" => GivenBefore(c, r, got)

GoodOutcome(c, r, o) ==
    /\ o \in Outcome
    /\ o.err # Junk
    /\ Settled(c, r, o.ret, o.err, o.given, o.blocks)

\* A failure told of with the status of the reply is settled.
LEMMA SettledFailure ==
    ASSUME NEW c, NEW r, NEW e, NEW got, e.status = r.status, GivenBefore(c, r, got)
    PROVE  Settled(c, r, "FAIL", e, got, OwnedBy(got))
  BY DEF Settled

\* So is a lack of memory, or of a reply, unless it hides a refusal that had
\* nothing to parse.
LEMMA SettledShort ==
    ASSUME NEW c, NEW r, NEW e, NEW got, NEW result \in {"LOWMEMORY", "ADAPTER"},
           \/ r = NoReply
           \/ Accepts(c.op, r.status)
           \/ result = "LOWMEMORY" /\ IsParsed(c, r),
           GivenBefore(c, r, got)
    PROVE  Settled(c, r, result, e, got, OwnedBy(got))
  BY DEF Settled

\* A call that owns nothing hands out no block.
LEMMA OwnedByNone == OwnedBy({}) = {}
  BY DEF OwnedBy

\* What a caller may own is among the blocks the SDK allocates.
LEMMA OwnedByType == ASSUME NEW P \in SUBSET Param PROVE OwnedBy(P) \in SUBSET Block
  BY DEF OwnedBy, Block

\* A block handed to the caller is never one of the exchange's.
LEMMA OwnedNotLocal == ASSUME NEW P \in SUBSET Param PROVE OwnedBy(P) \cap Local = {}
  <1>1. ASSUME NEW p \in Param PROVE Owned(p) \cap Local = {}
    BY DEF Owned, Local, Param, EndpointBlock
  <1>2. QED BY <1>1 DEF OwnedBy

\* The identifier of a thing is a block the SDK allocates, and not one of the
\* exchange's.
LEMMA ThingIdBlock == "thingId" \in Block \ Local
  BY DEF Block, Local, OwnedBy, Owned, Param

\* Errors the readers of replies build are well formed.
LEMMA ErrorType ==
    /\ NoError \in Error /\ NoError # Junk
    /\ Junk \in Error
    /\ \A s \in Status \cup {0}, k \in Code \ {"junk"} :
          [status |-> s, code |-> k] \in Error \ {Junk}
  BY DEF NoError, Junk, Error, Code

\* An outcome that sets the out parameters got and leaves what they own.
LEMMA EndsType ==
    ASSUME NEW result \in Result, NEW e \in Error, NEW got \in SUBSET Param
    PROVE  /\ Ends(result, e, got) \in Outcome
           /\ Ends(result, e, got).ret = result
           /\ Ends(result, e, got).err = e
           /\ Ends(result, e, got).given = got
           /\ Ends(result, e, got).blocks = OwnedBy(got)
  BY OwnedByType DEF Ends, Outcome

-----------------------------------------------------------------------------
(* Every reader of replies reaches good outcomes only.                      *)

\* Every call takes a 2xx reply for a success.
LEMMA SuccessAccepted == ASSUME NEW op, NEW s, Success(s) PROVE Accepts(op, s)
  BY DEF Accepts

\* Running out of memory with nothing given is good for any call, unless the
\* reply was a refusal with nothing to parse.
LEMMA GoodNoMemory ==
    ASSUME NEW c \in Call, NEW r \in Reply, Success(r.status) \/ IsParsed(c, r)
    PROVE  GoodOutcome(c, r, NoMemory({}))
  <1>1. GivenBefore(c, r, {}) /\ (Accepts(c.op, r.status) \/ IsParsed(c, r))
    BY SuccessAccepted DEF GivenBefore
  <1>2. Settled(c, r, "LOWMEMORY", NoError, {}, OwnedBy({}))
    BY <1>1, SettledShort
  <1>3. QED BY <1>2, EndsType, ErrorType DEF GoodOutcome, NoMemory, Result

\* So is a malformed successful reply.
LEMMA GoodMalformed ==
    ASSUME NEW c \in Call, NEW r \in Reply
    PROVE  GoodOutcome(c, r, Malformed(r, {}))
  <1>1. [status |-> r.status, code |-> "PARSE_ERROR"] \in Error \ {Junk}
    BY ErrorType DEF Reply, Code
  <1> DEFINE e == [status |-> r.status, code |-> "PARSE_ERROR"]
  <1>2. e.status = r.status /\ GivenBefore(c, r, {}) /\ Malformed(r, {}) = Ends("FAIL", e, {})
    BY DEF GivenBefore, Malformed
  <1> HIDE DEF e
  <1>3. Settled(c, r, "FAIL", e, {}, OwnedBy({}))
    BY <1>2, SettledFailure
  <1>4. QED BY <1>1, <1>2, <1>3, EndsType DEF GoodOutcome, Result, e

\* And a reply of refusal, whether its body is read or memory was short for
\* it; for getEndpoint also with the delay of a 503.
LEMMA GoodErrorReply ==
    ASSUME NEW c \in Call, NEW r \in Reply, NEW got \in SUBSET Param,
           \/ got = {}
           \/ /\ c.op = "getEndpoint" /\ got = {"retryAfter"}
              /\ r.status = 503 /\ r.body \notin NotJson,
           NEW o \in ErrorReply(r, got)
    PROVE  GoodOutcome(c, r, o)
  <1>0. GivenBefore(c, r, got)
    BY DEF GivenBefore
  <1>1. CASE o = NoMemory(got) /\ r.body # "absent"
    <2>1. o = Ends("LOWMEMORY", NoError, got)
      BY <1>1 DEF NoMemory
    <2>2. Settled(c, r, "LOWMEMORY", NoError, got, OwnedBy(got))
      BY <1>0, <1>1, SettledShort DEF IsParsed
    <2>3. QED BY <2>1, <2>2, EndsType, ErrorType DEF GoodOutcome, Result
  <1>2. CASE \E k \in Code \ {"junk"} : o = Refused(r, k, got)
    <2>1. PICK k \in Code \ {"junk"} : o = Refused(r, k, got)
      BY <1>2
    <2> DEFINE e == [status |-> r.status, code |-> k]
    <2>2. r.status \in Status \cup {0}
      BY DEF Reply
    <2>3. e \in Error \ {Junk} /\ e.status = r.status
      BY <2>2, ErrorType
    <2>4. o = Ends("FAIL", e, got)
      BY <2>1 DEF Refused
    <2> HIDE DEF e
    <2>5. Settled(c, r, "FAIL", e, got, OwnedBy(got))
      BY <1>0, <2>3, SettledFailure
    <2>6. QED BY <2>3, <2>4, <2>5, EndsType DEF GoodOutcome, Result
  <1>3. QED BY <1>1, <1>2 DEF ErrorReply, Reply, Code

\* KIIE_OK is good when the reply is one the call takes for a success and what
\* the caller relies on is given.
LEMMA GoodSuccess ==
    ASSUME NEW c \in Call, NEW r \in Reply, NEW got \in SUBSET Param,
           Accepts(c.op, r.status),
           Promised(c) \subseteq got,
           c.wantEtag /\ r.header # "none" => "etag" \in got
    PROVE  GoodOutcome(c, r, Succeeds(got))
  <1>1. r # NoReply
    BY ExchangeAssumption DEF Reply, NoReply
  <1>2. QED BY <1>1, EndsType, ErrorType DEF GoodOutcome, Settled, Succeeds, Result

\* kii_register_thing: the rollback loses the identifier, nothing else.
LEMMA GoodRegister ==
    ASSUME NEW c \in Call, NEW r \in Reply, c.op = "register", Success(r.status),
           NEW o \in ParseRegister(r)
    PROVE  GoodOutcome(c, r, o)
  <1>1. CASE r.body \in NotJson
    BY <1>1, GoodNoMemory DEF ParseRegister, NotJson
  <1>2. CASE r.body = "partial"
    BY <1>2, GoodMalformed, GoodNoMemory DEF ParseRegister, NotJson
  <1>3. CASE r.body = "full" /\ o = Succeeds({"thing", "token"})
    <2>1. c.op = "register" /\ Accepts(c.op, r.status) /\ ~c.wantEtag
      BY DEF Accepts, Call, ReadsHeader
    <2>2. {"thing", "token"} \in SUBSET Param /\ Promised(c) = {"thing", "token"}
      BY DEF Param, Promised, UsesHead
    <2>3. QED BY <1>3, <2>1, <2>2, GoodSuccess
  <1>4. CASE /\ r.body = "full"
             /\ \E made \in {{}, {"thing"}, {"token"}} :
                  o = [NoMemory({}) EXCEPT !.blocks = RegisterRollback(OwnedBy(made))]
    <2>1. PICK B \in {{}, {"thingId"}} : o = [NoMemory({}) EXCEPT !.blocks = B]
      BY <1>4 DEF RegisterRollback
    <2>2. o = [ret |-> "LOWMEMORY", err |-> NoError, given |-> {}, blocks |-> B]
      BY <2>1 DEF NoMemory, Ends
    <2>3. B \in SUBSET Block
      BY ThingIdBlock
    <2>4. Settled(c, r, "LOWMEMORY", NoError, {}, B)
      BY OwnedByNone, SuccessAccepted DEF Settled, GivenBefore
    <2>5. QED BY <2>2, <2>3, <2>4, ErrorType DEF GoodOutcome, Outcome, Result
  <1>5. QED BY <1>1, <1>2, <1>3, <1>4 DEF ParseRegister, NotJson, Reply

\* The part of a creation that reads the body, with the ETag given before.
LEMMA GoodCreatedId ==
    ASSUME NEW c \in Call, NEW r \in Reply, c.op = "create", Success(r.status),
           NEW got \in SUBSET {"etag"}, got # {} => c.wantEtag /\ r.header = "etag",
           c.wantEtag /\ r.header # "none" => got = {"etag"},
           NEW o \in CreatedId(c, r, got)
    PROVE  GoodOutcome(c, r, o)
  <1>1. /\ Accepts(c.op, r.status) /\ got \in SUBSET Param
    BY DEF Accepts, Param
  <1>2. ASSUME c.wantId PROVE GivenBefore(c, r, got)
    BY <1>2 DEF GivenBefore
  <1>3. ASSUME c.wantId PROVE GoodOutcome(c, r, NoMemory(got))
    <2>1. NoMemory(got) \in Outcome
      BY <1>1, EndsType, ErrorType DEF NoMemory, Result
    <2>2. /\ NoMemory(got).ret = "LOWMEMORY" /\ NoMemory(got).err = NoError
          /\ NoMemory(got).given = got /\ NoMemory(got).blocks = OwnedBy(got)
      BY DEF NoMemory, Ends
    <2>3. Settled(c, r, "LOWMEMORY", NoError, got, OwnedBy(got))
      BY <1>1, <1>2, <1>3, SettledShort
    <2>4. QED BY <2>1, <2>2, <2>3, ErrorType DEF GoodOutcome
  <1>4. ASSUME c.wantId PROVE GoodOutcome(c, r, Malformed(r, got))
    <2> DEFINE e == [status |-> r.status, code |-> "PARSE_ERROR"]
    <2>1. e \in Error \ {Junk} /\ e.status = r.status
      BY ErrorType DEF Reply, Code
    <2>2. Malformed(r, got) = Ends("FAIL", e, got)
      BY DEF Malformed
    <2> HIDE DEF e
    <2>3. Malformed(r, got) \in Outcome
      <3>1. "FAIL" \in Result /\ e \in Error /\ got \in SUBSET Param
        BY <1>1, <2>1 DEF Result
      <3>2. Ends("FAIL", e, got) \in Outcome
        BY <3>1, EndsType, Zenon
      <3>3. QED BY <2>2, <3>2, Zenon
    <2>4. /\ Malformed(r, got).ret = "FAIL" /\ Malformed(r, got).err = e
          /\ Malformed(r, got).given = got /\ Malformed(r, got).blocks = OwnedBy(got)
      BY <2>2 DEF Ends
    <2>5. Settled(c, r, "FAIL", e, got, OwnedBy(got))
      BY <1>2, <1>4, <2>1, SettledFailure
    <2>6. QED BY <2>1, <2>3, <2>4, <2>5 DEF GoodOutcome
  <1>5. CASE ~c.wantId
    BY <1>1, <1>5, GoodSuccess DEF CreatedId, Promised, UsesHead
  <1>6. CASE c.wantId
    <2>1. GoodOutcome(c, r, Succeeds(got \cup {"objectId"}))
      <3>1. got \cup {"objectId"} \in SUBSET Param
        BY DEF Param
      <3>2. Promised(c) \subseteq got \cup {"objectId"}
        BY <1>6 DEF Promised, UsesHead
      <3>3. c.wantEtag /\ r.header # "none" => "etag" \in got \cup {"objectId"}
        OBVIOUS
      <3>4. QED BY <1>1, <3>1, <3>2, <3>3, GoodSuccess
    <2>2. QED BY <1>3, <1>4, <1>6, <2>1 DEF CreatedId, NotJson, Reply
  <1>7. QED BY <1>5, <1>6

\* kii_create_new_object.
LEMMA GoodCreate ==
    ASSUME NEW c \in Call, NEW r \in Reply, c.op = "create", Success(r.status),
           NEW o \in ParseCreate(c, r)
    PROVE  GoodOutcome(c, r, o)
  <1>1. CASE c.wantEtag /\ r.header = "noetag"
    BY <1>1, GoodMalformed DEF ParseCreate
  <1>2. CASE c.wantEtag /\ r.header = "etag"
    BY <1>2, GoodNoMemory, GoodCreatedId DEF ParseCreate
  <1>3. CASE ~c.wantEtag \/ r.header = "none"
    BY <1>3, GoodCreatedId DEF ParseCreate
  <1>4. QED BY <1>1, <1>2, <1>3 DEF Reply

\* kii_create_new_object_with_id and kii_replace_object.
LEMMA GoodPut ==
    ASSUME NEW c \in Call, NEW r \in Reply, c.op \in {"createWithId", "replace"},
           Success(r.status), NEW o \in ParsePut(c, r)
    PROVE  GoodOutcome(c, r, o)
  <1>1. Accepts(c.op, r.status) /\ Promised(c) = {} /\ {"etag"} \in SUBSET Param
    BY DEF Accepts, Promised, Param, UsesHead
  <1>2. QED
    BY <1>1, GoodMalformed, GoodNoMemory, GoodSuccess DEF ParsePut, ParseEtag, Reply

\* kii_patch_object, which fails without details when there are no headers.
LEMMA GoodPatch ==
    ASSUME NEW c \in Call, NEW r \in Reply, c.op = "patch",
           Success(r.status), NEW o \in ParsePatch(c, r)
    PROVE  GoodOutcome(c, r, o)
  <1>1. /\ Accepts(c.op, r.status) /\ Promised(c) = {"etag"}
        /\ {"etag"} \in SUBSET Param /\ c.wantEtag
    BY DEF Accepts, Promised, Param, Call, UsesHead
  <1>2. CASE r.header = "none"
    <2>1. o = Ends("FAIL", NoError, {})
      BY <1>2 DEF ParsePatch, ParseEtag
    <2>2. Settled(c, r, "FAIL", NoError, {}, OwnedBy({}))
      BY <1>1, <1>2 DEF Settled, GivenBefore, NoError
    <2>3. QED BY <2>1, <2>2, EndsType, ErrorType DEF GoodOutcome, Result
  <1>3. CASE r.header # "none"
    BY <1>1, <1>3, GoodMalformed, GoodNoMemory, GoodSuccess
    DEF ParsePatch, ParseEtag, Reply
  <1>4. QED BY <1>2, <1>3

\* kii_get_object, which may fail with the contents given.
LEMMA GoodGet ==
    ASSUME NEW c \in Call, NEW r \in Reply, c.op = "get",
           Success(r.status), NEW o \in ParseGet(r)
    PROVE  GoodOutcome(c, r, o)
  <1>1. /\ Accepts(c.op, r.status) /\ Promised(c) = {"contents"}
        /\ {"contents"} \in SUBSET Param /\ {"contents", "etag"} \in SUBSET Param
    BY DEF Accepts, Promised, Param, UsesHead
  <1>2. ASSUME r.body \notin NotJson, r.header # "none"
        PROVE  GoodOutcome(c, r, NoMemory({"contents"}))
    <2>1. Settled(c, r, "LOWMEMORY", NoError, {"contents"}, OwnedBy({"contents"}))
      BY <1>1, <1>2, SettledShort DEF GivenBefore
    <2>2. QED BY <1>1, <2>1, EndsType, ErrorType DEF GoodOutcome, NoMemory, Result
  <1>3. ASSUME r.body \notin NotJson, r.header # "none"
        PROVE  GoodOutcome(c, r, Malformed(r, {"contents"}))
    <2> DEFINE e == [status |-> r.status, code |-> "PARSE_ERROR"]
    <2>1. e \in Error \ {Junk} /\ e.status = r.status
      BY ErrorType DEF Reply, Code
    <2>2. Malformed(r, {"contents"}) = Ends("FAIL", e, {"contents"})
      BY DEF Malformed
    <2> HIDE DEF e
    <2>3. Settled(c, r, "FAIL", e, {"contents"}, OwnedBy({"contents"}))
      BY <1>3, <2>1, SettledFailure DEF GivenBefore
    <2>4. QED BY <1>1, <2>1, <2>2, <2>3, EndsType DEF GoodOutcome, Result
  <1>4. CASE r.body \in NotJson
    BY <1>4, GoodNoMemory DEF ParseGet, NotJson
  <1>5. CASE r.body \notin NotJson
    BY <1>1, <1>2, <1>3, <1>5, GoodNoMemory, GoodSuccess DEF ParseGet, Reply
  <1>6. QED BY <1>4, <1>5

\* kii_install_thing_push.
LEMMA GoodInstall ==
    ASSUME NEW c \in Call, NEW r \in Reply, c.op = "installPush",
           Success(r.status), NEW o \in ParseInstall(r)
    PROVE  GoodOutcome(c, r, o)
  <1>1. /\ Accepts(c.op, r.status) /\ Promised(c) = {"installationId"}
        /\ {"installationId"} \in SUBSET Param /\ ~c.wantEtag
    BY DEF Accepts, Promised, Param, Call, ReadsHeader, UsesHead
  <1>2. QED
    BY <1>1, GoodMalformed, GoodNoMemory, GoodSuccess DEF ParseInstall, NotJson, Reply

\* kii_get_mqtt_endpoint, when the server sent an endpoint.
LEMMA GoodEndpoint ==
    ASSUME NEW c \in Call, NEW r \in Reply, c.op = "getEndpoint",
           Success(r.status), NEW o \in ParseEndpoint(r)
    PROVE  GoodOutcome(c, r, o)
  <1>1. /\ Accepts(c.op, r.status) /\ Promised(c) = {"endpoint"}
        /\ {"endpoint"} \in SUBSET Param /\ ~c.wantEtag
    BY DEF Accepts, Promised, Param, Call, ReadsHeader, UsesHead
  <1>2. CASE r.body \in NotJson
    BY <1>2, GoodNoMemory DEF ParseEndpoint, NotJson
  <1>3. CASE r.body = "partial"
    <2> DEFINE e == [status |-> 0, code |-> "PARSE_ERROR"]
    <2>1. e \in Error \ {Junk} /\ e.status = 0
      BY ErrorType DEF Code
    <2>2. o = Ends("FAIL", e, {}) \/ o = NoMemory({})
      BY <1>3 DEF ParseEndpoint, NotJson
    <2> HIDE DEF e
    <2>3. Settled(c, r, "FAIL", e, {}, OwnedBy({}))
      BY <1>1, <1>3, <2>1 DEF Settled, GivenBefore
    <2>4. QED
      BY <2>1, <2>2, <2>3, EndsType, GoodNoMemory DEF GoodOutcome, Result
  <1>4. CASE r.body = "full" /\ o = Succeeds({"endpoint"})
    BY <1>1, <1>4, GoodSuccess
  <1>5. CASE /\ r.body = "full"
             /\ \E made \in (SUBSET EndpointBlock) \ {EndpointBlock} :
                  o = [NoMemory({}) EXCEPT !.blocks = EndpointRollback(made)]
    <2>1. o = [NoMemory({}) EXCEPT !.blocks = {}]
      BY <1>5 DEF EndpointRollback
    <2>2. o = NoMemory({})
      BY <2>1, OwnedByNone DEF NoMemory, Ends
    <2>3. QED BY <2>2, GoodNoMemory
  <1>6. QED BY <1>2, <1>3, <1>4, <1>5 DEF ParseEndpoint, NotJson, Reply

\* Whatever the server answers to whatever call.
LEMMA GoodReply ==
    ASSUME NEW c \in Call, NEW r \in Reply, NEW o \in ParseReply(c, r)
    PROVE  GoodOutcome(c, r, o)
  <1>1. CASE Accepts(c.op, r.status) /\ c.op \in
               {"register", "create", "createWithId", "replace", "patch", "get",
                "installPush", "getEndpoint"}
    <2>1. Success(r.status)
      BY <1>1 DEF Accepts, UsesHead
    <2>2. o \in ParseAccepted(c, r)
      BY <1>1 DEF ParseReply
    <2>3. QED
      BY <1>1, <2>1, <2>2, GoodRegister, GoodCreate, GoodPut, GoodPatch, GoodGet,
         GoodInstall, GoodEndpoint DEF ParseAccepted, UsesHead
  <1>2. CASE Accepts(c.op, r.status) /\ c.op \in UsesHead
    <2>1. o = Succeeds({"isSubscribed"})
      BY <1>2 DEF ParseReply, ParseAccepted, UsesHead
    <2>2. Promised(c) = {"isSubscribed"} /\ ~c.wantEtag
      BY <1>2 DEF Promised, UsesHead, Call, ReadsHeader
    <2>3. {"isSubscribed"} \in SUBSET Param
      BY DEF Param
    <2>4. QED BY <1>2, <2>1, <2>2, <2>3, GoodSuccess
  <1>3. CASE /\ Accepts(c.op, r.status)
             /\ c.op \in {"delete", "subscribeBucket", "unsubscribeBucket", "createTopic",
                          "subscribeTopic", "unsubscribeTopic"}
    <2>1. o = Succeeds({})
      BY <1>3 DEF ParseReply, ParseAccepted, UsesHead
    <2>2. Promised(c) = {} /\ ~c.wantEtag
      BY <1>3 DEF Promised, UsesHead, Call, ReadsHeader
    <2>3. QED BY <1>3, <2>1, <2>2, GoodSuccess
  <1>4. CASE ~Accepts(c.op, r.status) /\ c.op = "getEndpoint" /\ r.status = 503
    <2>1. o \in ParseNotReady(r)
      BY <1>4 DEF ParseReply
    <2>2. CASE r.body \in NotJson
      BY <1>4, <2>1, <2>2, GoodNoMemory DEF ParseNotReady, IsParsed
    <2>3. CASE r.body \notin NotJson
      <3>1. PICK got \in {{}, {"retryAfter"}} : o \in ErrorReply(r, got)
        BY <2>1, <2>3 DEF ParseNotReady
      <3>2. got \in SUBSET Param
        BY DEF Param
      <3>3. QED BY <1>4, <2>3, <3>1, <3>2, GoodErrorReply
    <2>4. QED BY <2>2, <2>3
  <1>5. CASE ~Accepts(c.op, r.status) /\ ~(c.op = "getEndpoint" /\ r.status = 503)
    <2>1. o \in ErrorReply(r, {})
      BY <1>5 DEF ParseReply
    <2>2. QED BY <2>1, GoodErrorReply
  <1>6. c.op \in ApiFunction
    BY ExchangeAssumption DEF Call
  <1>7. QED BY <1>1, <1>2, <1>3, <1>4, <1>5, <1>6 DEF ApiFunction, UsesHead

-----------------------------------------------------------------------------
(* The inductive invariant: what a call holds at each of its steps.         *)

Preparing == {"url", "headers", "body", "execute"}

\* Until the exchange, nothing has been read or handed out, and the blocks
\* allocated so far are known exactly.
PrepareInv(t) ==
    /\ pc[t] \in Preparing \cup {"parse"} => given[t] = {} /\ err[t] = NoError
    /\ pc[t] \in Preparing => reply[t] = NoReply
    /\ pc[t] = "url" => heap[t] = {} /\ precond[t] = {}
    /\ pc[t] = "headers" =>
        /\ heap[t] = IF call[t].op = "installPush" THEN {"url", "body"} ELSE {"url"}
        /\ precond[t] = {}
    /\ pc[t] = "body" =>
        /\ call[t].op \in SendsBody
        /\ heap[t] = IF call[t].op = "installPush" THEN {"url"} ELSE {"url", "headers"}
        /\ precond[t] = Precondition(call[t])
    /\ pc[t] = "execute" =>
        /\ heap[t] = IF call[t].op \in SendsBody THEN {"url", "headers", "body"}
                                                 ELSE {"url", "headers"}
        /\ precond[t] = Precondition(call[t])
    /\ pc[t] = "parse" => reply[t] \in Reply /\ heap[t] \subseteq Local

\* From ON_EXIT on, the call is settled but for the locals, and once it has
\* returned the application object tells so.
SettledInv(t) ==
    /\ pc[t] \in {"exit", "returned"} =>
        /\ err[t] # Junk
        /\ Settled(call[t], reply[t], ret[t], err[t], given[t], heap[t] \ Local)
    /\ pc[t] = "returned" =>
        /\ heap[t] \cap Local = {}
        /\ last[AppOf[t]] = Recorded(ret[t], err[t])

CallInv(t) ==
    /\ pc[t] # "idle" => call[t] \in Call
    /\ PrepareInv(t)
    /\ SettledInv(t)

IInv == TypeOK /\ \A t \in Thread : CallInv(t)

\* The inductive invariant holds initially.
LEMMA InitIInv == Init => IInv
  <1> SUFFICES ASSUME Init PROVE IInv
    OBVIOUS
  <1>1. TypeOK
    BY ErrorType DEF Init, TypeOK, Step, Result, Last
  <1>2. \A t \in Thread : CallInv(t)
    BY DEF Init, CallInv, PrepareInv, SettledInv, Preparing
  <1>3. QED BY <1>1, <1>2 DEF IInv

\* A step of one thread touches the locals of that thread only; CallInv of
\* another thread reads nothing else, besides its own application object.
LEMMA OtherThread ==
    ASSUME NEW t \in Thread, NEW s \in Thread \ {t}, CallInv(s),
           pc'[s] = pc[s], call'[s] = call[s], ret'[s] = ret[s], err'[s] = err[s],
           heap'[s] = heap[s], precond'[s] = precond[s], reply'[s] = reply[s],
           given'[s] = given[s], last'[AppOf[s]] = last[AppOf[s]]
    PROVE  CallInv(s)'
  BY DEF CallInv, PrepareInv, SettledInv, Settled, Recorded, Promised, Accepts, Owned, OwnedBy

-----------------------------------------------------------------------------
(* One lemma per action.                                                    *)

LOCALS(t) == <<pc[t], call[t], ret[t], err[t], heap[t], precond[t], reply[t], given[t]>>

\* It is enough to look at the thread that takes the step.
LEMMA StepOfThread ==
    ASSUME IInv, NEW t \in Thread, TypeOK', CallInv(t)',
           \A s \in Thread \ {t} : /\ LOCALS(s)' = LOCALS(s)
                                   /\ last'[AppOf[s]] = last[AppOf[s]]
    PROVE  IInv'
  <1>1. ASSUME NEW s \in Thread \ {t} PROVE CallInv(s)'
    <2>1. CallInv(s)
      BY DEF IInv
    <2>2. QED BY <2>1, OtherThread DEF LOCALS
  <1>2. QED BY <1>1 DEF IInv

\* A new call starts with its locals reset: it owns and owes nothing.
LEMMA BeginStep == ASSUME IInv, NEW t \in Thread, Begin(t) PROVE IInv'
  <1>1. TypeOK'
    BY ErrorType DEF Begin, IInv, TypeOK, Step, Result
  <1>2. CallInv(t)'
    BY DEF Begin, IInv, TypeOK, CallInv, PrepareInv, SettledInv, Preparing
  <1>3. \A s \in Thread \ {t} : LOCALS(s)' = LOCALS(s) /\ last'[AppOf[s]] = last[AppOf[s]]
    BY DEF Begin, IInv, TypeOK, LOCALS
  <1>4. QED BY <1>1, <1>2, <1>3, StepOfThread

\* Leaving early owes the caller nothing: out of memory, or without a reply.
LEMMA ExitEarly ==
    ASSUME NEW t \in Thread, CallInv(t), pc[t] \in Preparing, pc'[t] = "exit",
           ret'[t] \in {"LOWMEMORY", "ADAPTER"}, heap'[t] \ Local = {},
           call'[t] = call[t], err'[t] = err[t], given'[t] = given[t], reply'[t] = reply[t]
    PROVE  CallInv(t)'
  <1>1. /\ call'[t] \in Call /\ given'[t] = {} /\ err'[t] = NoError /\ reply'[t] = NoReply
        /\ heap'[t] \ Local = OwnedBy(given'[t])
    BY OwnedByNone DEF CallInv, PrepareInv, Preparing
  <1>2. GivenBefore(call'[t], reply'[t], given'[t])
    BY <1>1 DEF GivenBefore
  <1>3. Settled(call'[t], reply'[t], ret'[t], err'[t], given'[t], heap'[t] \ Local)
    BY <1>1, <1>2, SettledShort
  <1>4. QED BY <1>1, <1>3, ErrorType DEF CallInv, PrepareInv, SettledInv, Preparing

\* The URL is allocated, or the call ends for lack of memory.
LEMMA BuildUrlStep == ASSUME IInv, NEW t \in Thread, BuildUrl(t) PROVE IInv'
  <1>0. TypeOK /\ CallInv(t) /\ pc[t] = "url"
    BY DEF IInv, BuildUrl
  <1>1. TypeOK'
    BY <1>0 DEF BuildUrl, GotoExit, Allocate, TypeOK, Step, Result, Block, Local, AfterUrl
  <1>2. CallInv(t)'
    <2>1. CASE GotoExit(t, "LOWMEMORY") /\ UNCHANGED heap
      <3>1. heap'[t] \ Local = {}
        BY <1>0, <2>1 DEF CallInv, PrepareInv
      <3>2. QED BY <1>0, <2>1, <3>1, ExitEarly DEF BuildUrl, GotoExit, TypeOK, Preparing
    <2>2. CASE /\ Allocate(t, {"url"})
               /\ pc' = [pc EXCEPT ![t] = AfterUrl(call[t].op)]
               /\ UNCHANGED ret
      <3>1. call[t].op = "installPush" => Precondition(call[t]) = {}
        BY DEF Precondition
      <3>2. QED
        BY <1>0, <2>2, <3>1
        DEF BuildUrl, Allocate, AfterUrl, TypeOK, CallInv, PrepareInv, SettledInv,
            Preparing, SendsBody
    <2>3. QED BY <2>1, <2>2 DEF BuildUrl
  <1>3. \A s \in Thread \ {t} : LOCALS(s)' = LOCALS(s) /\ last'[AppOf[s]] = last[AppOf[s]]
    BY <1>0 DEF BuildUrl, GotoExit, Allocate, TypeOK, LOCALS
  <1>4. QED BY <1>1, <1>2, <1>3, StepOfThread

\* The conditional headers a call adds are among the two the SDK knows.
LEMMA PreconditionType ==
    ASSUME NEW c PROVE Precondition(c) \in SUBSET {"if-match", "if-none-match"}
  BY DEF Precondition

\* The header object, complete with the call's precondition, or an early end.
LEMMA PrepareHeadersStep == ASSUME IInv, NEW t \in Thread, PrepareHeaders(t) PROVE IInv'
  <1>0. TypeOK /\ CallInv(t) /\ pc[t] = "headers"
    BY DEF IInv, PrepareHeaders
  <1>1. TypeOK'
    BY <1>0, PreconditionType
    DEF PrepareHeaders, GotoExit, Allocate, TypeOK, Step, Result, Block, Local, AfterHeaders
  <1>2. CallInv(t)'
    <2>1. CASE GotoExit(t, "LOWMEMORY") /\ heap'[t] \in {heap[t], heap[t] \cup {"headers"}}
      <3>1. heap'[t] \ Local = {}
        BY <1>0, <2>1 DEF CallInv, PrepareInv, Local
      <3>2. QED
        BY <1>0, <2>1, <3>1, ExitEarly DEF PrepareHeaders, GotoExit, TypeOK, Preparing
    <2>2. CASE /\ Allocate(t, {"headers"})
               /\ precond' = [precond EXCEPT ![t] = Precondition(call[t])]
               /\ pc' = [pc EXCEPT ![t] = AfterHeaders(call[t].op)]
               /\ UNCHANGED ret
      BY <1>0, <2>2
      DEF PrepareHeaders, Allocate, AfterHeaders, TypeOK, CallInv, PrepareInv,
          SettledInv, Preparing, SendsBody
    <2>3. QED BY <1>0, <2>1, <2>2 DEF PrepareHeaders, Allocate, TypeOK
  <1>3. \A s \in Thread \ {t} : LOCALS(s)' = LOCALS(s) /\ last'[AppOf[s]] = last[AppOf[s]]
    BY <1>0 DEF PrepareHeaders, GotoExit, Allocate, TypeOK, LOCALS
  <1>4. QED BY <1>1, <1>2, <1>3, StepOfThread

\* The request body, or an early end.
LEMMA PrepareBodyStep == ASSUME IInv, NEW t \in Thread, PrepareBody(t) PROVE IInv'
  <1>0. TypeOK /\ CallInv(t) /\ pc[t] = "body"
    BY DEF IInv, PrepareBody
  <1>1. TypeOK'
    BY <1>0
    DEF PrepareBody, GotoExit, Allocate, TypeOK, Step, Result, Block, Local, AfterBody
  <1>2. CallInv(t)'
    <2>1. CASE GotoExit(t, "LOWMEMORY") /\ UNCHANGED heap
      <3>1. heap'[t] \ Local = {}
        BY <1>0, <2>1 DEF CallInv, PrepareInv, Local
      <3>2. QED
        BY <1>0, <2>1, <3>1, ExitEarly DEF PrepareBody, GotoExit, TypeOK, Preparing
    <2>2. CASE /\ Allocate(t, {"body"})
               /\ pc' = [pc EXCEPT ![t] = AfterBody(call[t].op)]
               /\ UNCHANGED ret
      <3>1. call[t].op = "installPush" => Precondition(call[t]) = {}
        BY DEF Precondition
      <3>2. QED
        BY <1>0, <2>2, <3>1
        DEF PrepareBody, Allocate, AfterBody, TypeOK, CallInv, PrepareInv, SettledInv,
            Preparing
    <2>3. QED BY <2>1, <2>2 DEF PrepareBody
  <1>3. \A s \in Thread \ {t} : LOCALS(s)' = LOCALS(s) /\ last'[AppOf[s]] = last[AppOf[s]]
    BY <1>0 DEF PrepareBody, GotoExit, Allocate, TypeOK, LOCALS
  <1>4. QED BY <1>1, <1>2, <1>3, StepOfThread

\* The exchange: a failed adapter owes the caller nothing, a reply is stored.
LEMMA ExecuteStep == ASSUME IInv, NEW t \in Thread, Execute(t) PROVE IInv'
  <1>0. TypeOK /\ CallInv(t) /\ pc[t] = "execute"
    BY DEF IInv, Execute
  <1>1. \A r : ReplyBlocks(r) \subseteq Local /\ ReplyBlocks(r) \subseteq Block
    BY DEF ReplyBlocks, Local, Block
  <1>2. \A op : ReplyTo(op) \subseteq Reply
    BY DEF ReplyTo
  <1>3. TypeOK'
    BY <1>0, <1>1, <1>2 DEF Execute, GotoExit, Allocate, TypeOK, Step, Result
  <1>4. heap'[t] \subseteq Local
    BY <1>0, <1>1
    DEF Execute, Allocate, GotoExit, TypeOK, CallInv, PrepareInv, Preparing, Local
  <1>5. CallInv(t)'
    <2>1. CASE GotoExit(t, "ADAPTER") /\ UNCHANGED reply
      <3>1. heap'[t] \ Local = {}
        BY <1>4
      <3>2. QED
        BY <1>0, <2>1, <3>1, ExitEarly DEF Execute, GotoExit, TypeOK, Preparing
    <2>2. CASE /\ \E r \in ReplyTo(call[t].op) : reply' = [reply EXCEPT ![t] = r]
               /\ pc' = [pc EXCEPT ![t] = "parse"]
               /\ UNCHANGED ret
      BY <1>0, <1>2, <1>4, <2>2
      DEF Execute, TypeOK, CallInv, PrepareInv, SettledInv, Preparing
    <2>3. QED BY <2>1, <2>2 DEF Execute
  <1>6. \A s \in Thread \ {t} : LOCALS(s)' = LOCALS(s) /\ last'[AppOf[s]] = last[AppOf[s]]
    BY <1>0 DEF Execute, GotoExit, Allocate, TypeOK, LOCALS
  <1>7. QED BY <1>3, <1>5, <1>6, StepOfThread

\* Reading a reply reaches a good outcome, by GoodReply.
LEMMA ParseStep == ASSUME IInv, NEW t \in Thread, Parse(t) PROVE IInv'
  <1>0. /\ TypeOK /\ CallInv(t) /\ pc[t] = "parse"
        /\ call[t] \in Call /\ reply[t] \in Reply /\ heap[t] \subseteq Local
    BY DEF IInv, Parse, CallInv, PrepareInv
  <1>1. PICK o \in ParseReply(call[t], reply[t]) :
            /\ GotoExit(t, o.ret)
            /\ err' = [err EXCEPT ![t] = o.err]
            /\ given' = [given EXCEPT ![t] = o.given]
            /\ Allocate(t, o.blocks)
    BY DEF Parse
  <1>2. GoodOutcome(call[t], reply[t], o)
    BY <1>0, GoodReply
  <1>3. o \in Outcome
    BY <1>2 DEF GoodOutcome
  <1>4. TypeOK'
    BY <1>0, <1>1, <1>3 DEF Parse, GotoExit, Allocate, TypeOK, Step, Outcome
  <1>5. o.blocks \cap Local = {}
    BY <1>2, <1>3, OwnedNotLocal, ThingIdBlock DEF GoodOutcome, Settled, Outcome
  <1>6. heap'[t] \ Local = o.blocks
    BY <1>0, <1>1, <1>5 DEF Allocate, TypeOK
  <1>7. CallInv(t)'
    <2>1. /\ pc'[t] = "exit" /\ ret'[t] = o.ret /\ err'[t] = o.err /\ given'[t] = o.given
          /\ call'[t] = call[t] /\ reply'[t] = reply[t]
      BY <1>0, <1>1 DEF Parse, GotoExit, TypeOK
    <2>2. SettledInv(t)'
      <3>1. Settled(call[t], reply[t], o.ret, o.err, o.given, o.blocks)
        BY <1>2 DEF GoodOutcome
      <3>2. Settled(call[t], reply[t], ret[t], err[t], given[t], heap[t] \ Local)'
        BY <1>6, <2>1, <3>1 DEF Settled
      <3>3. QED BY <1>2, <2>1, <3>2 DEF SettledInv, GoodOutcome
    <2>3. QED BY <1>0, <2>1, <2>2 DEF CallInv, PrepareInv, Preparing
  <1>8. \A s \in Thread \ {t} : LOCALS(s)' = LOCALS(s) /\ last'[AppOf[s]] = last[AppOf[s]]
    BY <1>0, <1>1 DEF Parse, GotoExit, Allocate, TypeOK, LOCALS
  <1>9. QED BY <1>4, <1>7, <1>8, StepOfThread

\* The only step that writes an application object: that of its own thread.
LEMMA ExitStep == ASSUME IInv, NEW t \in Thread, Exit(t) PROVE IInv'
  <1>0. TypeOK /\ CallInv(t) /\ pc[t] = "exit"
    BY DEF IInv, Exit
  <1>1. AppOf[t] \in App /\ \A s \in Thread \ {t} : AppOf[s] # AppOf[t]
    BY CallAssumption
  <1>2. TypeOK'
    BY <1>0, <1>1 DEF Exit, TypeOK, Step, Last, Recorded
  <1>3. CallInv(t)'
    <2>1. /\ heap'[t] = heap[t] \ Local /\ heap'[t] \ Local = heap[t] \ Local
          /\ pc'[t] = "returned"
      BY <1>0 DEF Exit, TypeOK
    <2>2. last'[AppOf[t]] = Recorded(ret[t], err[t])
      BY <1>0, <1>1 DEF Exit, TypeOK
    <2>3. Settled(call[t], reply[t], ret[t], err[t], given[t], heap[t] \ Local)'
      BY <1>0, <2>1 DEF Exit, CallInv, SettledInv, Settled
    <2>4. QED
      BY <1>0, <2>1, <2>2, <2>3 DEF Exit, CallInv, PrepareInv, SettledInv, Preparing, Recorded
  <1>4. \A s \in Thread \ {t} : LOCALS(s)' = LOCALS(s) /\ last'[AppOf[s]] = last[AppOf[s]]
    BY <1>0, <1>1 DEF Exit, TypeOK, LOCALS
  <1>5. QED BY <1>2, <1>3, <1>4, StepOfThread

-----------------------------------------------------------------------------
(* The theorems.                                                            *)

\* IInv is an invariant: it holds initially and every step of every thread,
\* and stuttering, keeps it.
THEOREM Invariance == Spec => []IInv
  <1>1. ASSUME IInv, [Next]_vars PROVE IInv'
    <2>1. CASE UNCHANGED vars
      <3>1. TypeOK'
        BY <1>1, <2>1 DEF vars, IInv, TypeOK
      <3>2. ASSUME NEW t \in Thread PROVE CallInv(t)'
        BY <1>1, <2>1
        DEF vars, IInv, CallInv, PrepareInv, SettledInv, Settled, Recorded
      <3>3. QED BY <3>1, <3>2 DEF IInv
    <2>2. ASSUME NEW t \in Thread,
                 \/ Begin(t) \/ BuildUrl(t) \/ PrepareHeaders(t) \/ PrepareBody(t)
                 \/ Execute(t) \/ Parse(t) \/ Exit(t)
          PROVE  IInv'
      BY <1>1, <2>2, BeginStep, BuildUrlStep, PrepareHeadersStep, PrepareBodyStep,
         ExecuteStep, ParseStep, ExitStep
    <2>3. QED BY <1>1, <2>1, <2>2 DEF Next
  <1>2. QED BY <1>1, InitIInv, PTL DEF Spec

\* The variables keep their types.
THEOREM TypeCorrect == Spec => []TypeOK
  <1>1. IInv => TypeOK
    BY DEF IInv
  <1>2. QED BY <1>1, Invariance, PTL

\* Once returned, a call is settled with all that it left allocated.
LEMMA SettledOnReturn ==
    ASSUME IInv, NEW t \in Thread, pc[t] = "returned"
    PROVE  Settled(call[t], reply[t], ret[t], err[t], given[t], heap[t])
  <1>1. heap[t] \ Local = heap[t]
    BY DEF IInv, CallInv, SettledInv
  <1>2. QED BY <1>1 DEF IInv, CallInv, SettledInv

\* A call returns having freed all it allocated but what its caller owns.
THEOREM NothingLeaks == Spec => []NoLeak
  <1>1. IInv => NoLeak
    BY SettledOnReturn DEF Settled, NoLeak
  <1>2. QED BY <1>1, Invariance, PTL

\* After a return the application object tells of that call, until the next.
THEOREM LastErrorTells == Spec => []LastErrorIsOfLastCall
  <1>1. ASSUME IInv, NEW t \in Thread, pc[t] = "returned"
        PROVE  /\ last[AppOf[t]].result = ret[t] /\ last[AppOf[t]].error = err[t]
               /\ err[t] # Junk
    <2>1. last[AppOf[t]] = [result |-> ret[t], error |-> err[t]] /\ err[t] # Junk
      BY <1>1 DEF IInv, CallInv, SettledInv, Recorded
    <2>2. QED BY <2>1
  <1>2. ASSUME IInv, NEW t \in Thread, pc[t] = "returned"
        PROVE  /\ KiiGetLastError(AppOf[t]) = IF ret[t] = "FAIL" THEN {err[t]} ELSE {}
               /\ Junk \notin KiiGetLastError(AppOf[t])
    <2>1. CASE ret[t] = "FAIL"
      BY <1>1, <1>2, <2>1 DEF KiiGetLastError
    <2>2. CASE ret[t] # "FAIL"
      BY <1>1, <1>2, <2>2 DEF KiiGetLastError
    <2>3. QED BY <2>1, <2>2
  <1>3. IInv => LastErrorIsOfLastCall
    BY <1>1, <1>2 DEF LastErrorIsOfLastCall
  <1>4. QED BY <1>3, Invariance, PTL

\* The details of a failure carry the server's status, and a refusal is told of.
THEOREM FailuresTellStatus == Spec => []FailureTellsStatus
  <1>1. IInv => FailureTellsStatus
    BY SettledOnReturn DEF Settled, IsParsed, FailureTellsStatus
  <1>2. QED BY <1>1, Invariance, PTL

\* KIIE_OK means an accepted reply and complete out parameters.
THEOREM OkCompletes == Spec => []OkIsComplete
  <1>1. IInv => OkIsComplete
    BY SettledOnReturn DEF Settled, OkIsComplete
  <1>2. QED BY <1>1, Invariance, PTL

\* A failure hands out nothing but what was read before the rest failed.
THEOREM FailuresGiveNothing == Spec => []FailureGivesNothing
  <1>1. IInv => FailureGivesNothing
    BY SettledOnReturn DEF Settled, GivenBefore, FailureGivesNothing
  <1>2. QED BY <1>1, Invariance, PTL

\* No request is sent without the condition its caller counts on.
THEOREM RequestsAreGuarded == Spec => []RequestIsGuarded
  <1>1. ASSUME NEW c \in Call
        PROVE  /\ c.op = "createWithId" => Precondition(c) = {"if-none-match"}
               /\ c.ifMatch => Precondition(c) = {"if-match"}
               /\ c.op \notin {"createWithId", "patch"} /\ ~c.ifMatch => Precondition(c) = {}
    BY DEF Precondition, Call, TakesEtag
  <1>2. IInv => RequestIsGuarded
    BY <1>1 DEF IInv, CallInv, PrepareInv, Preparing, RequestIsGuarded, SendsBody
  <1>3. QED BY <1>2, Invariance, PTL

\* Only the return of a call on an application object changes its details.
THEOREM HeldErrorsAreStable == Spec => ErrorHeldIsStable
  <1> DEFINE A == \A a \in App : last'[a] # last[a] =>
                    \E t \in Thread : AppOf[t] = a /\ pc[t] # "returned" /\ pc'[t] = "returned"
  <1>1. ASSUME TypeOK, [Next]_vars PROVE [A]_vars
    <2>1. CASE UNCHANGED vars
      BY <2>1
    <2>2. CASE Next
      <3>1. ASSUME NEW a \in App, last'[a] # last[a]
            PROVE \E t \in Thread : AppOf[t] = a /\ pc[t] # "returned" /\ pc'[t] = "returned"
        <4>1. PICK t \in Thread : Exit(t)
          BY <2>2, <3>1
          DEF Next, Begin, BuildUrl, PrepareHeaders, PrepareBody, Execute, Parse
        <4>2. pc[t] = "exit" /\ pc'[t] = "returned" /\ AppOf[t] = a
          BY <1>1, <3>1, <4>1, CallAssumption DEF Exit, TypeOK
        <4>3. QED BY <4>2
      <3>2. QED BY <3>1
    <2>3. QED BY <1>1, <2>1, <2>2
  <1>2. QED BY <1>1, TypeCorrect, PTL DEF Spec, ErrorHeldIsStable
=============================================================================
