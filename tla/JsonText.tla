------------------------------ MODULE JsonText ------------------------------
(***************************************************************************)
(* A text is loaded, the value that comes of it is dumped, and what is     *)
(* dumped is loaded again, as the SDK does with what the server answers    *)
(* and with what it sends.  Any allocation may fail, up to a bound.        *)
(***************************************************************************)
EXTENDS JsonLoad, JsonDump

VARIABLES
    phase,   \* "load", "dump", "reload" or "end"
    loaded   \* the value of the first load

vars == <<input, failures, source, stream, saved, lost, lex, token, expect, stack, status,
          result, out, agenda, keyLost, dumped, phase, loaded>>

Init ==
    /\ input \in Inputs /\ failures = 0
    /\ InitLoad /\ InitDump
    /\ phase = "load" /\ loaded = NoResult

Begin ==
    /\ phase = "load" /\ status = "idle"
    /\ Load(Unknown)
    /\ UNCHANGED <<input, phase, loaded>> /\ UNCHANGED dumping

Loading ==
    /\ phase \in {"load", "reload"}
    /\ LoadStep
    /\ UNCHANGED <<phase, loaded>> /\ UNCHANGED dumping

\* The value is all that is left of a text.
BeginDump ==
    /\ phase = "load" /\ status = "accepted"
    /\ phase' = "dump" /\ loaded' = result
    /\ Dump(result)
    /\ source' = Unknown /\ stream' = NewStream /\ saved' = NewBuffer /\ lost' = FALSE
    /\ lex' = "start" /\ token' = NoToken /\ expect' = "top" /\ stack' = <<>>
    /\ status' = "idle" /\ result' = NoResult
    /\ UNCHANGED input

Dumping ==
    /\ phase = "dump"
    /\ DumpStep
    /\ UNCHANGED <<input, phase, loaded>> /\ UNCHANGED loading

BeginReload ==
    /\ phase = "dump" /\ dumped = "dumped"
    /\ phase' = "reload"
    /\ Load(out.value)
    /\ UNCHANGED <<input, loaded>> /\ UNCHANGED dumping

\* Nothing more is done of the text.
Finish ==
    /\ \/ phase = "load" /\ status \in {"rejected", "aborted", "overrun"}
       \/ phase = "dump" /\ dumped = "failed"
       \/ phase = "reload" /\ status \in {"accepted", "rejected", "aborted", "overrun"}
    /\ phase' = "end"
    /\ UNCHANGED <<input, failures, loaded>> /\ UNCHANGED loading /\ UNCHANGED dumping

Next == Begin \/ Loading \/ BeginDump \/ Dumping \/ BeginReload \/ Finish

\* The program runs on.
Spec == Init /\ [][Next]_vars /\ WF_vars(Next)

-----------------------------------------------------------------------------
(* Properties.                                                              *)

\* Every variable has a value of its kind: the buffers are texts in a memory of
\* some size, the stream is at a place of its buffer.
TypeOK ==
    /\ input \in Inputs /\ failures \in 0 .. MaxFailures
    /\ {saved.size, out.size} \subseteq 1 .. SizeMax
    /\ stream.at \in 0 .. Len(stream.buffer)
    /\ stream.state \in {"ok"} \cup End
    /\ stream.position \in Nat /\ stream.line \in Nat /\ stream.column \in Nat
    /\ lost \in BOOLEAN /\ keyLost \in BOOLEAN
    /\ status \in {"idle", "run", "accepted", "rejected", "aborted", "overrun"}
    /\ dumped \in {"idle", "run", "dumped", "failed"}
    /\ phase \in {"load", "dump", "reload", "end"}

\* What has been taken of a text, without what is still in the stream's buffer.
Consumed == SubSeq(stream.read, 1, Len(stream.read) - (Len(stream.buffer) - stream.at))

\* The position, the line and the column that an error is reported at are those
\* of the bytes taken so far, however often some were put back.
PositionIsExact ==
    LET newlines == {i \in DOMAIN Consumed : Consumed[i] = "newline"}
    IN  /\ stream.position = Len(Consumed)
        /\ stream.line = 1 + Cardinality(newlines)
        /\ stream.column = Cardinality({i \in DOMAIN Consumed :
                 CheckFirst(Consumed[i]) > 0 /\ \A n \in newlines : n < i})

\* A buffer has room for its text and for the NUL behind it, however it has grown
\* in sizes that wrap around.
BuffersHaveRoom == Len(saved.value) < saved.size /\ Len(out.value) < out.size

\* The assertions of the parser about its saved text, and the loop that looks for
\* the closing quote in it, fail only when a byte of that text was lost.
OnlyALostByteBreaksTheLexer == status \in {"aborted", "overrun"} => lost

\* What json_dumps returns is a text of the value it was given: json_loads takes
\* it, and makes the same value of it, unless a key was lost on the way out or a
\* byte on the way in.
DumpRoundTrips ==
    phase = "reload" /\ ~keyLost =>
        /\ status = "accepted" /\ ~lost => result = loaded
        /\ status = "rejected" => failures > 0

\* A load and a dump come to an end on every text and whatever memory there is;
\* a failed assertion and a loop that runs past the text count as one, for they
\* end the process (OnlyALostByteBreaksTheLexer says when).
Terminates == <>(phase = "end")
=============================================================================
