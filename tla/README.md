# Verification of the Kii Thing SDK

TLA+ models of the Kii Thing SDK (`src/KiiThingSDK`), the TLC runs that check
them and TLAPS proofs about them. `PROJECT.json` lists every run, theorem,
finding and hazard, and gives for each definition the source lines it models.

## The system

The SDK is a C library for devices ("things"). A program makes an application
object (`kii_app_t`), registers a thing, and creates, patches, replaces, reads
and deletes objects in the thing's buckets on a server, subscribes to buckets
and topics, and asks for an MQTT endpoint to receive pushes from. Every call
blocks, performs exactly one HTTP exchange and never retries.

| Part | State | Operations | Talks to |
|---|---|---|---|
| API calls, `kii_cloud.c` | locals of the call; blocks it allocates | 16 calls with an exchange | adapter, jansson, application object |
| Last error, `kii_prv_types.h` | `last_result`, `last_error` of `kii_app_t` | `prv_kii_set_last_error`, `kii_get_last_error` | written by every call |
| Handles, `kii_cloud.c` | heap structures of app, thing, bucket, topic, endpoint | init, serialize, deserialize, dispose | read by the calls |
| URL and header builders, `kii_prv_utils.c` | none | `prv_build_url`, `prv_new_header_string` | calls and adapter |
| libcurl adapter, `kii_prv_http_execute_curl.c` | one libcurl handle per call; process-wide `curl_error_code`, `adapter_error_code` | `kii_http_execute`, two callbacks | libcurl |
| OpenSSL adapter, `kii_prv_http_execute_ssl.c` | one socket per call; process-wide `http_error_code` | `kii_http_execute` | OpenSSL, sockets |
| jansson (vendored and built with the SDK) | reference-counted values, hash tables, one process-wide hash seed | parse, print, object and array operations | every part |
| Kii Cloud server (external) | objects with ETags, subscriptions, installations | HTTP | the adapter |

What is hard about it: several threads call the SDK and share, besides what the
program shares, the adapter's error variable and jansson's seed; every call has
many allocations whose failure must be rolled back; a reply may be lost after
the server acted; the server's answer may be malformed in any way; a retry may
meet its own first attempt.

### What makes each part correct

* **API calls.** Nothing leaks and nothing freed is handed out; `KIIE_OK` comes
  with complete out parameters, a failure with none but what was read before the
  rest failed; a request leaves with the precondition its caller counts on; the
  error details tell the server's status.
* **Last error.** It tells of the last call made with that application object,
  and a pointer to it stays good while only other threads call.
* **Adapter.** `KII_TRUE` comes with the server's whole answer to this very
  request; an exchange that succeeded is not reported as failed; a call closes
  its own connection and nothing else, and ends when its timeout says so.
* **Hash seed.** Set once, before any key is stored; a key that was stored is
  found; nobody waits for it forever.
* **Objects on the server.** A conditional update is applied only to the version
  its caller saw; `KIIE_OK` means applied once, a refusal means not applied.
* **Pushes.** A subscription call tells the truth about the time of the call;
  repeating it helps; waiting as told gets the endpoint.
* **Hash table.** A map: what is stored last under a key is what is found; a
  failed call changes nothing.
* **Values.** A count is the number of references; nothing is freed in use,
  nothing but a cycle stays behind; a deep copy is equal and shares nothing.
* **Parser and printer.** Exactly JSON is accepted, and what is printed reads back
  as the same value, also when memory runs out on the way.
* **Builders, buffers.** What is measured is what is written.

## Modules

| Module | Models | Runs | Proofs |
|---|---|---|---|
| `KiiExchange` | what each of the 16 calls asks of the server and how it reads the answer; no state | those of its users | in `KiiCall_proofs` |
| `KiiCall` | one API call from entry to return, with application objects | `call` | `KiiCall_proofs` |
| `HttpAdapter` | what `kii_cloud.c` relies on when it calls `kii_http_execute` | as a property of `curl_one` | the refinement, in `CurlAdapter_proofs` |
| `CurlAdapter` | the libcurl adapter, statement by statement where threads meet | `curl_one`, `curl_doc_threads` | `CurlAdapter_proofs` |
| `SslAdapter` | the OpenSSL adapter, with its timeout and its limits | `ssl_one` | `SslAdapter_proofs` |
| `ObjectStore` | programs that share one object on the server, over a network | `store`, `store_doc_patch` | `ObjectStore_proofs` |
| `SharedObject` | what they are promised: at most one effect, at one moment, on an agreed version | as a property of `store` | the refinement, in `ObjectStore_proofs` |
| `PushSetup` | programs that subscribe, unsubscribe, install push and wait for the endpoint | `push` | `PushSetup_proofs` |
| `JsonSeed` | the race for jansson's hash seed | `seed_race`, `seed_doc` | `JsonText_proofs` |
| `Hashtable` | jansson's hash table, with rehash and iteration | `table` | `Hashtable_proofs` |
| `KeyMap` | the map it is promised to be | as a property of `table` | the refinement, in `Hashtable_proofs` |
| `JsonValue` | jansson's values: reference counts, objects, arrays, copies | `values` | `JsonValue_proofs` |
| `StrBuffer`, `JsonSymbols` | the growing text and its memory; bytes, numbers and values as the next modules see them | `text` | appends, in `JsonText_proofs` |
| `JsonLoad`, `JsonDump` | the parser byte by byte, the printer piece by piece | `text` | `JsonText_proofs` |
| `JsonText` | load, dump, load again | `text` | `JsonText_proofs` |
| `JsonGrammar` | JSON, generated by its grammar, with the meaning of each text; what the parser accepts, against it | `text` | |

`KiiCall`, `ObjectStore` and `PushSetup` extend `KiiExchange`; `JsonText` extends
`JsonLoad` and `JsonDump`, and these, through `JsonSymbols`, `StrBuffer`;
`JsonGrammar` extends `JsonText`. `JsonSeed` stands alone: its specification is
called `SeedSpec`, and its names are apart from those of `JsonText`, so that one
module, `JsonText_proofs`, holds the proofs about both. `CurlAdapter` refines `HttpAdapter`, `ObjectStore` refines
`SharedObject`, `Hashtable` refines `KeyMap`. The modules whose names begin with
`MC` hold the constants of the instances TLC checks. `TypeOK` of each module says
what its variables hold; `KiiCall`'s is checked and proved, those of
`CurlAdapter`, `JsonSeed`, `SslAdapter`, `ObjectStore` and `Hashtable` are part of
the proved inductive invariants (`PushSetup`'s without the bounds that only
`MaxTasks` and `MaxFaults` impose) and `JsonValue`'s follows from its own
(`JsonValue_proofs!TypeCorrect`); that of `JsonSeed` is called `SeedTypeOK`; the others may be added to the configurations,
where they hold.

### KiiExchange

A `Call` is a function with its optional arguments. `SendsBody`, `ReadsHeader`,
`UsesHead` and `Precondition` say what it asks, `Accepts` which statuses it takes
for a success, and the readers `ParseRegister` ... `ParseEndpoint` translate the
`prv_parse_*` functions (or the lines of the call that stand for one): each is
the set of `Outcome`s its function can reach with a reply, that is, the result,
the error details, the out parameters given and the blocks left allocated. A
`Reply` is a status, a header with or without ETag, and a body that is absent,
not JSON, JSON without a member the call reads, or complete; the reply a failed
adapter leaves behind may be any part of one. `json_loads` gives the whole value
or NULL, and NULL both for a text that is not JSON and for a lack of memory, which
its callers do not tell apart: a refusal whose body has to be parsed may end in
`KIIE_LOWMEMORY` without details (`ErrorReply`). The body of a 503 is parsed twice,
once for the delay and, when that is given, again for the details
(`ParseNotReady`), and either may lack memory. What a byte lost inside the parser
does is `JsonText`'s matter. `Settled` is the relation between
call, reply and outcome the properties of `KiiCall` follow from.

### KiiCall

All sixteen calls share one shape, so there is one state machine, with `pc[t]`
the place of thread `t`: `Begin` (entry, locals reset), `BuildUrl`,
`PrepareHeaders` (common headers, then the conditional one), `PrepareBody`,
`Execute` (`kii_http_execute`), `Parse` (the `prv_parse_*` function or the
inline test of the status), `Exit` (`ON_EXIT`). What distinguishes the calls is
in `KiiExchange` and in the order `AfterUrl`, `AfterHeaders`, `AfterBody`. `heap`
holds the blocks allocated and not freed, `given` the out parameters set, `last`
the application objects. A block is a name, and a structure's strings are blocks
of their own where the code allocates them apart.

Left out: the assertions on arguments (`M_KII_ASSERT`), the texts of URLs and
headers (their lengths belong to `UrlBuilder` of the plan), members of the wrong
JSON type, and the `port` and `ttl` numbers of an endpoint.

### HttpAdapter and CurlAdapter

`HttpAdapter` is the contract `KiiCall`'s action `Execute` assumes: success
delivers exactly the answer that arrived, failure promises that it did not
arrive whole. `CurlAdapter` models `kii_http_execute`: convert the headers, set
up the handle (storing the default in `curl_error_code`), let libcurl call back
for every header line and body piece, then assign its result to
`curl_error_code` and, in a step of its own, test that variable. libcurl's part
(`Connect`, `TransferBreaks`, `TransferEnds`, the order of the callbacks) is
external and modelled from how the callbacks are installed and what they
return. `ImplementsAdapter` is the refinement, with `ExchangeState`, `Arrived`
and `Given` as the mapping.

### SslAdapter

`Call`, `ParseUrl`, `SocketConnect` and `SslConnect` are the code up to the
request; `ReadStatus`, `ReadField`, `ReadBody`, `EndBody`, `Timeout` and
`ReadFails` are `ssl_recv_response` and the functions it reads lines and bytes
with; `CleanUp` is `END_FUNC`; `Assign` and `Test` are the two statements of
`kii_http_execute` on `http_error_code`. `Send` and `Close` are the server's.

A line of the head and a piece of the body stand for their bytes. The code waits
with `select` before every byte, but OpenSSL takes a whole record off the socket
and keeps what was not asked for: `conn` tells what was sent, in which records,
what is decrypted and what is read, so that `Readable` (what `select` sees) and
`Pending` (what OpenSSL holds) differ. `owner` gives every file descriptor to
a thread, to the rest of the program or to nobody.

Three of the code's ways are named in the properties as what they are:

* a reply without `Content-Length` loses its body, and after `HeaderMax` header
  lines the rest of them is read as body (`DeliveredWhole`);
* after HEAD the adapter waits for the body `Content-Length` announces, which
  never comes, and reports a failure (`AnsweredIsReported`);
* a URL it cannot use makes it close descriptor 0, for "sock" is 0 until a
  socket is made (`ClosesItsOwn`);
* an ETag in a line of a block or more may have bytes added (`DeliveredWhole`).

`select` does not know of the bytes OpenSSL holds: on a connection that stays open
a reply that is there in full may end in a "read timeout"
(`kii_prv_http_execute_ssl.c:210`), as `Timeout` allows when `Pending` holds and
`Readable` does not. The request asks for `Connection: close`, and the end of the
connection makes the socket readable: what `AnsweredIsReported` says of a reply
sent in full is that, once the server has closed, nothing of it is given up.

A header line is read into a buffer that grows by blocks, and its terminator is
put one byte behind the text. `TextsOf` is what the line may be read as: itself
when it is shorter than a block, and from a block on perhaps itself with bytes
added that nobody has sent (`Garbled`). A line that fills its blocks has its
terminator written behind the byte `realloc` was asked for, which may end the
process (`WriteBehindLine`).

Left out: a CR in the middle of a line, errors of sending
(the code ignores them, so they look like a silent server), and `gethostbyname`,
which is not safe to call from two threads. The run has one thread, since two
share `http_error_code` as they share `curl_error_code` (`curl_doc_threads`).

### ObjectStore and SharedObject

Programs on several threads, of one thing or of several, call the SDK on one
object. `Ask` is a call up to its request (or its failure to prepare one),
`FailExchange` an adapter that reports failure, `Receive` the reply read by
`KiiExchange!ParseReply`: the preconditions, the refusals and the losses on the
way out are the code's own. The request stays in `network` until the server
takes it, also when its caller has given up. `Serve` and `Refuse` are the server,
external and modelled by the preconditions the SDK sends. An ETag is the place
of a version in `history`; contents are the set of updates they carry, which
makes a lost update visible. A program uses the SDK as its tests do: it passes
the ETag of its last successful call, and replaces an object by what it holds
plus its own update.

`kii_create_new_object` makes a new object at each call, so it shares none and
is left out.

`SharedObject` is the abstract specification; `AbstractRequest` (what the caller
agrees to change) and `Learns` (what the result tells it) are the mapping. That
`KIIE_OK` means applied once, that a refusal means not applied, now and later,
and that of several changes naming one ETag (retries among them) one at most is
applied, are what `SharedObject` says.

### PushSetup

A program takes up a task: it repeats one call until it returns `KIIE_OK`, and
asks for the endpoint three times at most, sleeping before each call as long as
its variable `retryAfter` says, as `testInstallPush` of the tests does. `Ask` is
a call up to its request, `FailExchange` an adapter that reports failure,
`Receive` the reply read by `KiiExchange!ParseReply`; `Readings` keeps what a
call can make of each status. The request of a failed exchange becomes `late`:
the server serves it at any time, or it is lost. `Serve`, `ServeLate` and
`Refuse` are the server, external and modelled by the statuses the code gives
meaning to: 409 for what has been done already, 404 for what is not there, 503
with a delay for an endpoint that is not ready. `seen` and `unopposed` are ghosts:
what the thing was subscribed to in the course of a call, and whether no request
for the opposite was under way when it began and none was made since (`Opposes`,
`Contested`).

What the module shows, besides its properties: a repeated unsubscribe is answered
404 and returns `KIIE_FAIL`, so that its caller cannot tell a retry that was not
needed from an error; a delay left from an earlier answer makes a caller wait
longer than needed and does no other harm; a late request for the
opposite can undo what `KIIE_OK` has told, and only such a one (`OnlyStragglersUndo`
is false without `unopposed`, while stragglers for the same thing, and all other
requests, are in it). That undoing is the server's to prevent: the SDK sends
nothing by which it could tell a late request from a new one.

### JsonSeed

`hashtable_seed.c` holds four ways to set the seed; `variant` is the one the
build chose, out of the constant `Variants`, and never changes. Each read and
each write of the seed is a step. A pair is stored with the seed it was hashed
with; a lookup finds the pair whose seed is the present one, that is, two seeds
are taken to give a key two hashes.

### Hashtable and KeyMap

`BeginSet`, `Rehash` and `Set` are `hashtable_set`, whose rehash frees the
buckets, looks for memory for the larger ones, and moves the pairs one by one;
`Get`, `Del`, `Clear`, `CloseAndInit` and the four iterator calls take a step
each. The doubly linked list is a sequence of keys, a bucket its first and its
last pair, and `Chain` the part of the list between them: what
`hashtable_find_pair` compares. `given`, `pending` and `again` record what a
caller who iterates has been given.

A rehash that fails leaves a table without buckets; nothing but `hashtable_close`
may be done with it, which is why `KeyMap` has `usable`. An iteration that goes
on after a rehash may meet pairs twice or not at all: `IterationIsComplete` is
about those without one. Left out: the serial numbers, which only
`JSON_PRESERVE_ORDER` reads, and `lookup3.h`, which is the constant `Hash`.

### JsonValue

A value is a node of the heap with its count, its content and, for an array, the
size of its table. One thread makes one call after the other: `ObjectSetNew`,
`ArrayAppendNew`, `ArraySetNew`, `ArrayInsertNew`, `IterSetNew` with the caller's
reference (`taken`) or one of their own, `RemoveMember`, `Clear`, `ArrayExtend`,
the updates and `json_copy` as a loop (`LoopStep`), `json_deep_copy` as a stack
of calls (`DeepCopyMember`, `DeepCopyReturn`). What is to be given back waits in
`todo`, a value at a time (`Decref`), as `json_delete` recurses. Objects are the
maps of `KeyMap`.

What the code does and the properties say: `json_object_iter_set_new` without an
iterator drops the value it owns (`lost`); it and `json_array_extend` can make a
container its own member, which the other calls refuse, and a cycle is never
released; a deep copy passes over members it finds no memory for, so that it may
be short (`kii_cloud.c:257` uses one); `json_object_update` stops at the first
failure, half done, and `update_existing`, `update_missing` and `json_copy` do
not look at theirs. Left out: numbers and strings beyond one text per scalar.

### StrBuffer, JsonSymbols, JsonLoad, JsonDump, JsonGrammar, JsonText

`StrBuffer` gives for each append the set of its outcomes, with the sizes of a
`size_t` that wraps at `SizeMax`. `JsonSymbols` says what a byte is: a letter of
a small alphabet, where the four digits after `\u`, the literal `true` and all
control characters but the newline are one symbol each.

`JsonLoad` is the stream (`Gets`, `Ungot`: a buffer of one character, with
position, line and column), the lexical analyzer, a step for each byte it asks
for (`Scan`, `ScanString`, `ScanNumber`, `ScanPoint`, `ScanWord`), and the
parser, a step for each token (`Parse`), with the containers it is in as a stack.
The text is not given beforehand: each byte is chosen when it is read, so that
every text up to the length of the instance is parsed, and a text is no longer
than what has been read of it. `JsonDump` is `do_dump` as an agenda of pieces for
the callback, in any order of an object's pairs, or sorted. `JsonGrammar`
generates, independently of the parser, all texts up to a length with their
values, for the flags given, and `AcceptsExactlyJson` compares. `JsonText` loads a text, dumps its value and loads
the dump.

The properties name what the code does when memory runs out: `lex_save` does not
say that a byte was lost, after which an assertion of `lex_unget_unsave` fails
(`"aborted"`) or the loop for the closing quote runs past the text
(`"overrun"`); and what `dump_string` returns for a key is ignored, so that
`json_dumps` returns a text that is no JSON (`keyLost`). An integer too large is
an error even under `JSON_DECODE_INT_AS_REAL`.

Left out: the sources of `json_loadb`, `json_loadf`, `json_load_file` and
`json_load_callback`, the sinks of `json_dumpf` and `json_dump_file`,
`JSON_ESCAPE_SLASH`, `JSON_PRESERVE_ORDER`, the printer's precision and its check
for cycles, the locale, and the wording of errors.

## Runs

| Run | Instance | Shows |
|---|---|---|
| `call` | 2 threads with an application object each; one makes the 16 calls, with statuses 200, 404, 409, 412, 503, all replies and all failures, the other deletes beside it | what a call leaves, gives and reports, in every path; the last error is that of the own last call in every interleaving |
| `curl_one` | 1 thread, 6 methods, replies of 0 to 3 pieces and 0 to 2 ETags | whole replies or failures; refinement of `HttpAdapter` |
| `ssl_one` | 1 thread, 2 descriptors, 8 replies in records of every size, `HeaderMax` 3, `BlockSize` 2 | whole replies, nothing left open, the timeout ends every wait |
| `store` | 2 threads, 5 calls, 3 calls in all, statuses 200 and 412 | no lost update; refinement of `SharedObject` |
| `push` | 2 threads, 6 calls, 3 tasks in all, 2 faults in each, statuses 200, 404, 409, 503, an endpoint that takes 2 | answers are true of the call, retries help, waiting as told suffices |
| `seed_race` | 3 threads, 2 keys, 2 seeds, the three synchronised variants | keys stay found, no use before the seed, the seed set once, no endless wait |
| `table` | 4 keys of which some collide at every size, 2 values, 2 to 8 buckets | bucket ranges, iteration; refinement of `KeyMap` |
| `values` | 4 values, 2 keys and one that is not UTF-8, 2 texts | counts, leaks, deep copies |
| `text` | 15 alphabets and sets of flags, texts of up to 4 to 12 symbols, 1 failing allocation, buffers from 3 to 15 | exactly JSON, positions, room, round trip, an end |

Violations, each a disagreement between the repository's words and its code:

| Run | Says | Does |
|---|---|---|
| `curl_doc_threads` | threads need share no instance (`README.md:16`) | they share `curl_error_code` |
| `seed_doc` | threads need share no instance (`README.md:16`) | the `Makefile`'s jansson seeds without synchronisation |
| `store_doc_patch` | a patch without an ETag is applied "regardless of updates on server" (`kii_cloud.h:310`) | it sends `If-None-Match: *` (`kii_cloud.c:758`), which any existing object fails |

Other disagreements are visible in the models and have no run:

* `out_etag` is "NULL if failed to create" (`kii_cloud.h:263`), and is given before
  the body is read (`kii_cloud.c:448`); `FailureGivesNothing` names it.
* `kii_cloud.h:231` speaks of details of every failure, and `kii_get_last_error`
  returns NULL unless the result is `KIIE_FAIL` (`LastErrorIsOfLastCall`). A refusal
  whose body is not JSON, a proxy's page, is `KIIE_LOWMEMORY` (`kii_cloud.c:204`) and
  its status is lost; `FailureTellsStatus` says where that can happen.
* A failed allocation of the body ends the transfer, says the code's test at
  `kii_prv_http_execute_curl.c:68`, which tests another pointer (`CallbackWrite`).
* The "read timeout" of `kii_prv_http_execute_ssl.c:210` may come with the whole
  reply in OpenSSL's hands, unless the server has closed (`AnsweredIsReported`).
* The assertion in `lex_unget_unsave` (`load.c:271`) that the byte put back is the
  last one saved fails after a save that failed (`OnlyALostByteBreaksTheLexer`).

### Bounds, and why they are enough

A call of `KiiCall` depends on its own locals and its application object only,
and the proofs remove the bounds altogether; in the instance one thread meets every
call, every class of reply and every failing allocation, and a second, which only
deletes (`MCKiiCall!SecondDeletes`), succeeds, fails and is refused between any two
of its steps. `curl_one` has a reply with three
pieces, so that a piece can be lost in the middle, and one with two ETags.

`ssl_one`'s `HeaderMax` is 3 (1024 in the code), so that replies of fewer, of as
many and of more lines exist, and its `BlockSize` 2 (256), so that lines of less
than a block, of a block and of more exist; descriptor 0 is the program's or free;
its replies are a complete one, one after an interim one, one of another version,
one with two ETags, one without its length, one with a line too many, and two with
long ETag lines.

`store` needs two programs and three calls for each of its hazards: a change, a
second one behind the first one's ETag, and a late or repeated third. The bound
is `MaxCalls`, in the guard of `Ask`; nothing distinguishes the threads, so they
are a symmetry set. 200 and 412 stand for a success and a refusal: the readers
of these calls tell no others apart.

`push` has `MaxTasks` 3, in the guard of `Begin`, and `MaxFaults` 2: one task to
subscribe, one to undo it and a late request of either; two faults are one more
than three calls for an endpoint can bear. An endpoint that takes longer than one
unit lets a stale delay, a right one and a longer one differ. The calls on a
bucket are the same code as those on a topic and are left to `KiiCall`.

`table` starts with 2 buckets (8 in the code), so that two rehashes happen, and
the hashes 0, 4, 8, 1 give chains of one, two and three pairs which some rehashes
split and others do not. The values are symmetric.

`values` bounds the values and their members together (`MaxWeight` 4) and the
references a program holds to one value (`MaxOwned` 1): enough for a value in
two containers, in one twice, in itself and in a cycle of two, and for a copy of
a nested container. An array has room for one member at first (8 in the code),
so that it grows. The nodes are symmetric.

`text` has an alphabet for each part of the grammar, long enough for the longest
construct of it: a pair of escaped surrogates, two members with the same key, a
fraction with an exponent. Buffers start at 3 and sizes wrap at 15, so that they
grow twice and then overflow; `MaxFailures` is 1, for what one failure leaves
behind is where the code goes wrong. Integers have 2 digits at most, exponents are
at most 10, and doubles print with 5 digits.

`JsonSeed` with three threads has a winner and two losers; with two seeds the
loser's differs from the winner's. No state space is cut by a constraint: the
named bounds apart, all of them are finite as they stand.

Deadlock is not checked where the system may really stop: the process may crash
in `CurlAdapter` (`CallbackWrite`) and `SslAdapter` (`SslConnect`,
`WriteBehindLine`, `LackMemory`), the programs of `ObjectStore` and `PushSetup`
stop after their last call, `JsonText` after its text, and a program of
`JsonValue` may have leaked every value it can allocate.

### Fairness

Four modules state any. In `JsonSeed` a thread inside `json_object_seed` is
scheduled again and again, which is what the scheduler gives a runnable thread;
nothing is assumed about the order. In `SslAdapter` a thread that has sent its
request runs on, and the minute `select` waits passes; the server owes nothing,
and a process that has crashed does nothing. `ReadingEnds` rests on that alone. In
`JsonText` the one thread runs on. In `PushSetup` a program goes on with its task,
and a request whose caller waits is answered; faults are bounded in each task,
which is what `RetriesSucceed` is about: that nothing but faults keeps a retry
from its success. No call through libcurl is claimed to return: it is used
without a timeout, so a silent server blocks it.

## Proofs

| Theorem | Says |
|---|---|
| `KiiCall_proofs!TypeCorrect`, `NothingLeaks`, `LastErrorTells`, `FailuresTellStatus`, `OkCompletes`, `FailuresGiveNothing`, `RequestsAreGuarded`, `HeldErrorsAreStable` | every property of `call`, for any threads, application objects, calls and statuses |
| `CurlAdapter_proofs!DeliversWhole`, `ReportsSuccess`, `FreesRequest`, `CurlImplementsAdapter` | the properties of `curl_one`, for any replies, ETags and numbers of pieces, from one thread |
| `SslAdapter_proofs!ClosesConnection`, `ClosesOnlyItsOwn` | a call closes what it opened and no more, for any threads, replies and limits |
| `SslAdapter_proofs!SslDeliversWhole`, `SslReportsAnswer` | the other invariants of `ssl_one`, for any replies, records and limits, from one thread |
| `ObjectStore_proofs!HeldIsVersion`, `NoUpdateIsLost`, `SharesTheObject` | every property of `store`, for any programs, calls and statuses |
| `PushSetup_proofs!AnswersAreTrue`, `StragglersUndo`, `WaitingSuffices` | the invariants of `push`, for any programs, tasks, faults and warm-up |
| `JsonText_proofs!KeysStayFound`, `SeedsBeforeUse`, `SeedsOnce` | for any threads, keys and seeds, for every variant but the fallback |
| `Hashtable_proofs!BucketsArePartition`, `IterationsAreComplete`, `TableIsAMap` | every property of `table`, for any keys, values, hash and first size |
| `JsonValue_proofs!CountsStayExact`, `CyclesAloneLeak`, `DeepCopiesKeepApart` | every property of `values`, for any values, keys, texts and calls |
| `JsonText_proofs!PositionsAreExact`, `OnlyLostBytes`, `BuffersKeepRoom` | three invariants of `text`, for any inputs, characters, flags, sizes and failing allocations |

The inductive invariants behind them are theorems too: `SslExchange`,
`SslOwnership`, `StoreInvariance`, `PushInvariance`, `SeedInvariance`,
`TableInvariance`, `IInvHolds` of `JsonValue_proofs`.

**KiiCall.** Assumed (`CallAssumption`): no two threads use the same application
object, as the README of the SDK asks, and no status is 0. The properties speak
of returned calls; the inductive invariant `IInv` says of every place of the call
what is allocated, and that from `Parse` on the call, the reply, the result, the
details and what is left allocated stand in the relation `Settled`. That every
reader of replies establishes it is proved with one lemma per reader, joined in
`GoodReply`; `Exit` frees the exchange's blocks only, and `OwnedNotLocal` says these are not the
caller's. A step of one thread leaves the others' locals and application objects
alone (`StepOfThread`).

**CurlAdapter.** Assumed: `OneThread`, for with two the theorems are false
(`curl_doc_threads`). The invariant says that the callbacks have built the first
`line` lines and `piece` pieces of the reply (`Built`), so that it is whole when
libcurl succeeds, and that `curl_error_code` is this call's result when it is
tested (`Judged`). The refinement maps the end of the transfer to `Arrive` and the
return to `Succeed` or `Fail`; the other steps stutter.

**SslAdapter.** Two arguments that do not need each other. `Owned`: a descriptor
a thread owns is its `sock`, and the thread is between opening and closing it;
the only descriptor closed that was never opened is 0, after a URL that could not
be used. That holds with any number of threads, so `ClosesConnection` and
`ClosesOnlyItsOwn` do. `Parsed`: what the parser holds is a function of how many
units it has read (`HeadTaken`, `BodyTaken`: header lines up to `count`, the body
from `BodyStart` on), and `Ordered`: no unit is read that was not decrypted, none
decrypted that was not sent. Where the call fails, `Excused` says what was
missing. Of a reply that was sent in full, `ArrivedInv` says that none of it is
missing when a closed connection is given up: the last record ends where the
server stopped (`LastIsSent`), and the read that fails on a closed connection has
found neither a record nor a byte pending (`SslReadsAll`). That too needs no
assumption about threads (`SslExchange`); only that
the result *returned* is this exchange's (`Judged`) does, for `http_error_code`
belongs to all threads. `SslDeliversWhole` and `SslReportsAnswer` therefore assume
`OneThread`.

**ObjectStore.** No assumption but the constants' own. The two invariants are not
inductive: that a program builds on a true version depends on what its reply
said, and that on when the request was served. The invariant counts: requests
under way and versions in the history have numbers, all different and all given
out (`Counted`, `Numbered`, `NamesOne`), so that a request is served at most once
(`TakesEffectOnce`), and a reply that is waited for tells of the one version its
request made or saw (`AnsweredTruly`). `Formed` says that a request with an ETag
carries the contents of that version and its own update; the server takes it only
while that version is the last, and so nothing is lost. `SharesTheObject` maps the
requests by `AbstractRequest`, and each action to one of `SharedObject`'s: `Ask` to
one that sends a request or, when none could be prepared, is `"unknown"`; `Serve` to its taking
effect, or to closing it when it reads, `Refuse` to closing it, `Receive` and
`FailExchange` to a return.

**PushSetup.** `Witnessed`: a reply that is accepted was made when the caller was
already a witness (`seen`) of what it says. `Undisturbed` and `Told`: while the
call of an unopposed program lasts, no request exists that asks for the opposite of
what it asks, and afterwards only a new one can undo what it was told, which takes
`unopposed` away (`AskingContests`, `CalmUnlessAsked`). Of a topic this holds
without any condition (`TopicSo`), for nothing in the SDK deletes one.
`Waits` is an account of the calls for an endpoint: all that failed but one are
faults, and when one is not, the endpoint is ready after the delay the program
has been told; three tries and less than two faults thus end in success.

**JsonSeed.** Assumed: `"fallback" \notin Variants`, for the fallback makes the
theorems false (`seed_doc`). The invariant says that a
thread about to store under a claim is alone and finds the seed zero
(`Exclusive`), so that a store never overwrites a seed (`StoreFinds`), and all
pairs are hashed with the seed of now.

**Hashtable.** No assumption but the constants' own. The property speaks of the
time between calls, the invariant of the middle of a rehash as well: the keys in
the list and those still to be moved are apart (`Apart`), and each bucket is a
`Span` of the list, from its first pair to its last, that holds the keys of its
index and only those (`Parted`). `InsertSound` and `DeleteSound` are the heart: a
key put at the front of its own bucket or at the end of the list, or taken out,
moves every place behind it by one, and no span is torn apart. An iteration has
given the keys up to its place and has yet to give those behind it (`Ordered`),
and insertion and deletion keep the order of the other keys; a rehash does not,
which is why it ends the claim. `TableIsAMap` uses that `Chain`, what
`hashtable_find_pair` compares, is the set of keys of the index, so that each
lookup answers as the map does; a rehash stutters, and a failed one is
`KeyMap!SetFails`, which makes the table unusable. That the number of buckets is
never zero is not arithmetic the provers know: `SizeIsPositive` counts the subsets
of a set instead.

**JsonValue.** Assumed (`JsonValueAssumption`): nodes and keys are finitely many, as a
program's memory is finite. `CountsAreExact` is stated of the heap, and its
invariant `Counts` as well, but of every state: a count is the number of handles
the program owns, of references lost, of those that wait in `todo` and of the
places of the heap that hold the value, and a node is free when that is 0. The
places are a set, and what an operation on a sequence or on an object does to
their number is a bijection (`CountMoved`, `CountOneMore`): an insertion moves
what is behind it, `Clear` moves all members to `todo`. Every action then turns
out to move references between those four without making or losing one:
`Balances` compares the contents before and after, `Stored` and `HandedCounts`
carry that over to the heap, and there is one lemma for each function, with the
failures in it. The loops and the deep copies need more than counts, for they
write to containers a step at a time: `LoopInv` says that the program holds both
of them and that no member still to be set has gone; `FramesInv` that each
nested copy has its only reference in its call, so that no two calls write to
the same one and none of them to a container that is being copied, and that the
calls are nested as the containers are, so that the copy of a member is stored
where that member is. The
members that the outer calls have still to copy stay where they are while the
inner ones run (`CallsGoOn`). `OnlyCyclesLeak` is about what can be reached, as a
least closed set: a value that is left over has a count, so it is a member of
another (`HasParent`), which is left over as well; if none is on a cycle, a member
reaches strictly less than its container does, and of finitely many sets one is
in no other (`Maximal`).

`DeepCopiesAreEqualAndApart` speaks of a copy that was returned, so its invariant,
`CopyInv`, has to say what is true of one under way. Let A be the values made so
far: they refer to each other only, each has the one reference from its place or its
call, nothing outside refers to one, and the original is not among them (`Made`).
While no call has failed, each value of A mirrors the one it was made of, member by
member, except that the calls under way have still to fill in theirs: those that
wait in the frame, and the one that the next call is copying (`Mirrors`, `InTurn`).
A failure keeps the first half, for what is given back is given back from A
(`DecrefMade`). When the outermost call returns nothing remains to be filled in, and
values that mirror each other are equal to every depth (`MirrorsAreEqual`): `Alike`,
by which `Equal` counts up the depth, is not known to the provers to be what its
recursion says, so a function that solves it for each depth is shown to exist first
(`SomeSolve`). TLC had found `CopyInv` to hold on the four values of `values`.

**JsonText.** Assumed, of the constants: `StrBufferAssumption`, that a buffer begins
smaller than the largest `size_t` (16 and 2^64 in the code); `MultiByteAssumption`,
that a character of more than one byte has no first byte of another and no newline
inside, and that its first byte tells how many there are, which is how UTF-8 is made;
`EscapedAssumption`, that an escape stands for bytes; `HexAssumption`, that the end of a
text is no digit. There are three arguments, each with an invariant of its own.

*The position* (`GoodStream`). What has been taken of a text is a beginning of what was
read (`Consumed`), and the rest of it, in the stream's buffer, is less than one
character. The numbers in the stream are those of that beginning (`Exact`): a byte
taken, put back, or skipped with the rest of its character moves them as it moves
the end, since no byte inside a character counts for a column or a line. A newline
that is put back is the last byte taken, so `last` is the column it was taken at.

*The lexical analyzer* (`LexerInv`). Either a byte was lost, or what is saved has the
form of the state that saved it (`Fits`). For numbers this is a case for each state:
after a sign, digits alone, a fraction, an exponent (`NumberSaved`); so what is handed
to `strtoll` and `strtod` is read by them to its end (`IsInteger`, `IsReal`), and the
byte that `lex_unget_unsave` takes back is the last one saved. For strings the loop
that decodes runs over the text again, so `StringSaved` says that there is a set of
places (`Units`), with the first byte among them, from each of which a byte, an escape
or the digits of one lead to another; the last is where the next byte goes. When the
closing quote is saved there, the loop goes from place to place and stops at it:
`Decode` is a function on finitely many places, and that it ends in no failed assertion
and does not run past the text is shown from the last place backwards. A surrogate pair is two
of these steps in one, and an escape that is no character stops the loop as it should.
`expect` is always one of the parser's places, so a token is always answered by it.

*The buffers* (`TextInv`). An append that fits leaves the size; one that does not and is
not refused by `Overflows` takes the greater of two sums, neither of which wraps, and the
second has room for the text and the NUL (`AppendsHasRoom`, for any text appended to any
buffer). The parser appends bytes, so its buffer has room (`SavedSteps`). The printer
appends pieces of what was loaded, so the invariant follows a value from the one buffer
to the other. A token, a container under way and the result are values (`IsValue`, of a
set that has its members too): the invariant of the parser (`ParserFits`) is kept by a
token of any text (`TokenIsGood`, `DecodedIsText`) and by each piece of the parser, and
it says that a container is under way where the parser waits for what is in one. Of a
value, the agenda of the printer has values and pieces that are texts only
(`AgendaFits`): `DumpsFit` goes through the types, with any order of an object's pairs,
`PrintedIsText` through a number, and `DumpStringIsTexts` through a string, whose
characters end in it as their first bytes tell (`CharacterEnds`). What the recursive
functions compute is typed by two lemmas about functions that count down
(`ByRecursion`: one exists; `ByMeasure`: what each step keeps, all places have).

Some definitions were reworded so that they could be reasoned about, without a change of
meaning for the code's states: `ObjectStore!Meets`, whose cases overlapped,
`SslAdapter!Read`, and in `JsonValue` the number of `References`, which is that of the
places instead of a sum over the containers, `Reachable`, which is the least closed set
instead of the last of a sequence of sets, `ObjectPut`, and `Equal`, which recurs on the
depth alone over sets of pairs; in `JsonText` the lines and columns of
`PositionIsExact`, which are numbers of places instead of those of a filtered text, in
`JsonSymbols` the single point of `IsReal` and of `RealOf` (with its `Placed` and
`Positional`), the first place of `At` and the recursion of `NatOf`, in `JsonDump` that
of `Found`, which recurs on the characters instead of folding over them, and in
`JsonLoad` the domain of `Decode`, which has the places behind the text that an escape
at its end looks at.

Only model-checked: `SeedingEnds`, `ReadingEnds`, `RetriesSucceed` and
`Terminates`, since liveness is outside what the proof system does; and
`AcceptsExactlyJson` and `DumpRoundTrips`, which compare what is computed for a text
with what is computed for a value, by recursion on both, and would need induction
over data.

## Not modelled

* **Handles** (`kii_init_app`, `kii_init_thing_bucket`, `kii_init_thing_topic`,
  serialize, deserialize, dispose): sequential, each allocates with roll-back, and
  none meets another call. `KiiCall` has the application object from
  `kii_init_app` on.
* **URL and header builders** (`kii_prv_utils.c`): two passes over the arguments
  that must agree on a size; sequential and without state. `KiiCall` has them as
  calls that may fail.
* **One-line wrappers** of `kii_custom.c`, the **vendored libcurl headers**, and
  `adapter_error_code`, which is written and never read.
* **`json_pack` and `json_unpack`**, which the SDK does not call; the other
  sources and sinks of the parser and the printer, named above.
* A successful reply with a member of the wrong type: `kii_cloud.c:1741` and
  `1609` test the member and hand `json_string_value`'s NULL to `kii_strdup`.
* Tests, build files and the Xcode project.

## Plan

What is left, in this order:

1. `SslAdapter` with two threads: `http_error_code`, descriptor 0 taken from
   another thread, `gethostbyname`'s shared result.
2. `Handles`, `UrlBuilder`: allocation with roll-back; two passes that agree.
