------------------------------ MODULE JsonLoad ------------------------------
(***************************************************************************)
(* jansson's load.c, with the part of utf.c it reads by: the stream, the   *)
(* lexical analyzer, a step for each byte it asks for, and the parser, a   *)
(* step for each token.  The calls of parse_value, parse_object and        *)
(* parse_array that wait for an inner one are a stack.                     *)
(***************************************************************************)
EXTENDS JsonSymbols

VARIABLES
    source,  \* the text that is left, when it is known
    stream,  \* lex->stream: buffer, position, state, line, column
    saved,   \* lex->saved_text
    lost,    \* has a byte not been saved
    lex,     \* where the lexical analyzer is
    token,   \* lex->token and lex->value
    expect,  \* where the parser is
    stack,   \* the containers it is in
    status,  \* "run", or how json_loads has ended
    result

loading == <<source, stream, saved, lost, lex, token, expect, stack, status, result>>

\* Mutant: the end of the text is a byte like another.
EndIsError == {"error"}

End == {"eof", "error"}

NoToken == [type |-> "invalid", value |-> <<>>]
NoResult == <<"none">>
Unknown == <<"unknown">>
NewStream == [read |-> <<>>, bad |-> <<>>, buffer |-> <<>>, at |-> 0, state |-> "ok",
              position |-> 0, line |-> 1, column |-> 0, last |-> 0]

InitLoad ==
    /\ source = Unknown
    /\ stream = NewStream /\ saved = NewBuffer /\ lost = FALSE
    /\ lex = "start" /\ token = NoToken
    /\ expect = "top" /\ stack = <<>>
    /\ status = "idle" /\ result = NoResult

\* json_loads of s, or of a text that is not known yet.
Load(s) ==
    /\ source' = s
    /\ stream' = NewStream /\ saved' = NewBuffer /\ lost' = FALSE
    /\ lex' = "start" /\ token' = NoToken
    /\ expect' = "top" /\ stack' = <<>> /\ result' = NoResult
    /\ \E m \in Mallocs : After(m) /\ status' = IF m.ok THEN "run" ELSE "rejected"

-----------------------------------------------------------------------------
(* The stream.                                                              *)

\* What the source may give next.
Bytes ==
    IF source # Unknown
    THEN IF source = <<>> THEN {"eof"} ELSE {Head(source)}
    ELSE {"eof"} \cup
            IF Len(stream.read) >= input.length THEN {}
            ELSE {b \in IF lex \in {"string", "escape", "hex"} THEN input.inside
                        ELSE input.symbols :
                     b \in Hex => lex = "hex"}

\* The next byte of the buffer is given to the lexical analyzer.
Given(s) ==
    LET c == s.buffer[s.at + 1]
        next == [s EXCEPT !.at = @ + 1, !.position = @ + 1]
    IN  [c |-> c,
         stream |-> CASE c = "newline" ->
                            [next EXCEPT !.line = @ + 1, !.last = s.column, !.column = 0]
                      [] c # "newline" /\ CheckFirst(c) > 0 ->
                            [next EXCEPT !.column = @ + 1]
                      [] OTHER -> next]

EndOf(s, state) == [c |-> state, stream |-> [s EXCEPT !.state = state]]

\* The bytes that follow a first one: those of the text, or any.
Following(b, n) ==
    IF source # Unknown
    THEN {SubSeq(source, 1, n)}
    ELSE {<<b>> \o t : t \in [1 .. n - 1 -> (input.inside \ Hex) \cup {"eof"}]}

\* stream_get.
Gets ==
    IF stream.state # "ok" THEN {EndOf(stream, stream.state)}
    ELSE IF stream.at < Len(stream.buffer) THEN {Given(stream)}
    ELSE UNION {
        LET n == CheckFirst(b)
        IN  CASE b = "eof" -> {EndOf(stream, "eof")}
              [] b # "eof" /\ n = 0 -> {EndOf([stream EXCEPT !.bad = <<b>>], "error")}
              [] OTHER ->
                   {IF n = 1 \/ s \in MultiByte
                    THEN Given([stream EXCEPT !.buffer = s, !.at = 0, !.read = @ \o s])
                    ELSE EndOf([stream EXCEPT !.bad = s], "error")
                       : s \in IF n = 1 THEN {<<b>>} ELSE Following(b, n)}
        : b \in Bytes}

\* The text is as long as what has been read of it.
Left(s) ==
    IF source = Unknown THEN source
    ELSE SubSeq(source, Len(s.read) - Len(stream.read) + 1, Len(source))
Reading(s) == stream' = s /\ source' = Left(s)

\* Mutant: the position is not put back.
UngotHalf(s, c) ==
    IF c \in End THEN s
    ELSE LET back == [s EXCEPT !.at = @ - 1]
         IN  CASE c = "newline" -> [back EXCEPT !.line = @ - 1, !.column = s.last]
               [] c # "newline" /\ CheckFirst(c) > 0 -> [back EXCEPT !.column = @ - 1]
               [] OTHER -> back

\* stream_unget.
Ungot(s, c) ==
    IF c \in End THEN s
    ELSE LET back == [s EXCEPT !.at = @ - 1, !.position = @ - 1]
         IN  CASE c = "newline" -> [back EXCEPT !.line = @ - 1, !.column = s.last]
               [] c # "newline" /\ CheckFirst(c) > 0 -> [back EXCEPT !.column = @ - 1]
               [] OTHER -> back

-----------------------------------------------------------------------------
(* The lexical analyzer.                                                    *)

\* lex_save, which minds no failure.
Saves(c) ==
    IF c \in End THEN {[ok |-> TRUE, buffer |-> saved, failed |-> 0]}
    ELSE Appends(saved, <<c>>)
Saving(r) == saved' = r.buffer /\ lost' = (lost \/ ~r.ok)

Lexed(type, value) == lex' = "done" /\ token' = [type |-> type, value |-> value]
Invalid == Lexed("invalid", <<>>)
Goto(state) == lex' = state /\ UNCHANGED token
Running == UNCHANGED <<input, expect, stack, status, result>>

\* lex_get_save brought c, and the lexical analyzer goes on, or gives up.
Keep(g, r, state) == Reading(g.stream) /\ Saving(r) /\ After(r) /\ Goto(state)
GiveUp(g, r) == Reading(g.stream) /\ Saving(r) /\ After(r) /\ Invalid
\* An assertion fails.
Abort(g, r) ==
    /\ Reading(g.stream) /\ Saving(r) /\ After(r) /\ status' = "aborted"
    /\ UNCHANGED <<input, lex, token, expect, stack, result>>

-----------------------------------------------------------------------------
(* Numbers.                                                                 *)

\* Mutant: the range of a number is not looked at, nor the letters of a word.
TokenOfAnySize(type, t) ==
    [type |-> type, value |-> CASE type = "integer" -> IntegerOf(t)
                                [] type = "real"    -> RealOf(t)
                                [] OTHER            -> <<>>]

\* The token the saved text is, or that an assertion about it fails.
Token(type, t) ==
    LET is(v) == [type |-> type, value |-> v]
    IN  CASE type = "integer" /\ IsInteger(t) /\ ~TooBig(t) -> is(IntegerOf(t))
          [] type = "integer" /\ ~IsInteger(t)              -> [NoToken EXCEPT !.type = "abort"]
          [] type = "real" /\ IsReal(t) /\ ~TooReal(t)      -> is(RealOf(t))
          [] type = "real" /\ ~IsReal(t)                    -> [NoToken EXCEPT !.type = "abort"]
          [] type = "true" /\ t = <<"true">>                -> is(<<>>)
          [] OTHER                                          -> NoToken

\* lex_unget_unsave, which asserts that it is c it takes back from the saved
\* text, and the token that ends there.
PutBack(g, r, type) ==
    LET left == IF g.c \in End THEN r.buffer ELSE Popped(r.buffer)
        token1 == Token(type, left.value)
    IN  IF (g.c \notin End /\ Last(r.buffer.value) # g.c) \/ token1.type = "abort"
        THEN Abort(g, r)
        ELSE /\ Reading(Ungot(g.stream, g.c))
             /\ saved' = left /\ lost' = (lost \/ ~r.ok)
             /\ After(r)
             /\ lex' = "done" /\ token' = token1
             /\ Running

\* lex_scan_number, from the first byte on.
ScanNumber ==
    /\ lex \in {"minus", "zero", "digits", "fraction", "exponent", "sign", "power"}
    /\ \E g \in Gets : \E r \in Saves(g.c) :
          LET c == g.c
              keep(state) == Keep(g, r, state) /\ Running
              \* What follows an integer or a fraction.
              ended(type) ==
                  CASE c = "." /\ type = "integer" -> keep("point")
                    [] c = "e"                     -> keep("exponent")
                    [] OTHER                       -> PutBack(g, r, type)
          IN  CASE lex = "minus" /\ c = "0"         -> keep("zero")
                [] lex = "minus" /\ c \in Digit \ {"0"} -> keep("digits")
                [] lex = "zero" /\ c \notin Digit   -> ended("integer")
                [] lex = "digits" /\ c \in Digit    -> keep("digits")
                [] lex = "digits" /\ c \notin Digit -> ended("integer")
                [] lex = "fraction" /\ c \in Digit  -> keep("fraction")
                [] lex = "fraction" /\ c \notin Digit -> ended("real")
                [] lex = "exponent" /\ c = "-"      -> keep("sign")
                [] lex \in {"exponent", "sign", "power"} /\ c \in Digit -> keep("power")
                [] lex = "power" /\ c \notin Digit  -> PutBack(g, r, "real")
                [] OTHER                            -> PutBack(g, r, "invalid")

\* The byte after the point is saved only when it is a digit.
ScanPoint ==
    /\ lex = "point"
    /\ \E g \in Gets :
          \/ /\ g.c \in Digit
             /\ \E r \in Saves(g.c) : Keep(g, r, "fraction")
          \/ /\ g.c \notin Digit
             /\ Reading(Ungot(g.stream, g.c)) /\ Invalid
             /\ UNCHANGED <<saved, lost, failures>>
    /\ Running

-----------------------------------------------------------------------------
(* Strings.                                                                 *)

\* The value of the saved text of a string: how the loop over it ends, and the
\* bytes it writes.  Behind the text there is a NUL, and then other memory.
Decode(t) ==
    LET at(i) == IF i <= Len(t) THEN t[i] ELSE "nul"
        stop(how) == [how |-> how, bytes |-> <<>>]
        D[i \in 2 .. Len(t) + 6] ==
            LET then(bytes, k) ==
                    [how |-> D[i + k].how, bytes |-> bytes \o D[i + k].bytes]
                x == at(i + 2)
            IN  CASE i > Len(t)    -> stop("overrun")
                  [] at(i) = Quote -> stop("ok")
                  [] at(i) = Backslash /\ at(i + 1) \in {Quote, Backslash} ->
                        then(<<at(i + 1)>>, 2)
                  [] at(i) = Backslash /\ at(i + 1) = "n" -> then(<<"newline">>, 2)
                  [] at(i) = Backslash /\ at(i + 1) = "u" ->
                        CASE x \in DOMAIN Escaped -> then(Escaped[x], 3)
                          [] x = High /\ <<at(i + 3), at(i + 4), at(i + 5)>>
                                             = <<Backslash, "u", Low>> -> then(Astral, 6)
                          [] OTHER                -> stop("invalid")
                  [] at(i) = Backslash /\ at(i + 1) \notin {Quote, Backslash, "n", "u"} ->
                        stop("aborted")
                  [] OTHER -> then(<<at(i)>>, 1)
    IN  D[2]

\* The closing quote has come, and a buffer for the value is allocated or not.
EndString(g, r) ==
    /\ Reading(g.stream) /\ Saving(r)
    /\ \E m \in Mallocs :
          LET d == Decode(r.buffer.value)
          IN  /\ r.failed + m.failed + failures <= MaxFailures
              /\ failures' = failures + r.failed + m.failed
              /\ \/ /\ m.ok /\ d.how = "ok"
                    /\ Lexed("string", d.bytes) /\ UNCHANGED status
                 \/ /\ ~m.ok \/ d.how = "invalid"
                    /\ Invalid /\ UNCHANGED status
                 \/ /\ m.ok /\ d.how \in {"aborted", "overrun"}
                    /\ status' = d.how /\ UNCHANGED <<lex, token>>
    /\ UNCHANGED <<input, expect, stack, result>>

\* lex_scan_string, from the byte after the opening quote on.
ScanString ==
    /\ lex \in {"string", "escape", "hex"}
    /\ \E g \in Gets : \E r \in Saves(g.c) :
          LET c == g.c
              keep(state) == Keep(g, r, state) /\ Running
          IN  CASE lex = "string" /\ c = Quote     -> EndString(g, r)
                [] lex = "string" /\ c = Backslash -> keep("escape")
                [] lex = "string" /\ c \in Control -> PutBack(g, r, "invalid")
                [] lex = "string" /\ c \notin {Quote, Backslash} \cup Control \cup End ->
                      keep("string")
                [] lex = "escape" /\ c = "u"       -> keep("hex")
                [] lex = "escape" /\ c \in {Quote, Backslash, "n"} -> keep("string")
                [] lex = "hex" /\ c \in Hex        -> keep("string")
                [] OTHER                           -> GiveUp(g, r) /\ Running

-----------------------------------------------------------------------------
(* lex_scan.                                                                *)

ScanWord ==
    /\ lex = "word"
    /\ \E g \in Gets : \E r \in Saves(g.c) :
          IF g.c \in Alpha THEN Keep(g, r, "word") /\ Running
          ELSE PutBack(g, r, "true")

\* The rest of a character that begins no token is taken, too.
Skipped(s) == [s EXCEPT !.at = Len(s.buffer), !.position = @ + Len(s.buffer) - s.at]

Scan ==
    /\ lex = "start"
    /\ \E g \in Gets :
          LET c == g.c
              begin(state) == Reading(g.stream) /\ Goto(state)
          IN  /\ saved' = IF c \in End \cup Blank THEN Cleared(saved)
                          ELSE [Cleared(saved) EXCEPT !.value = <<c>>]
              /\ CASE c \in Blank      -> begin("start")
                   [] c = "eof"        -> Reading(g.stream) /\ Lexed("eof", <<>>)
                   [] c = "error"      -> Reading(g.stream) /\ Invalid
                   [] c \in Structural -> Reading(g.stream) /\ Lexed(c, <<>>)
                   [] c = Quote        -> begin("string")
                   [] c = "-"          -> begin("minus")
                   [] c = "0"          -> begin("zero")
                   [] c \in Digit \ {"0"} -> begin("digits")
                   [] c \in Alpha      -> begin("word")
                   [] OTHER            -> Reading(Skipped(g.stream)) /\ Invalid
    /\ UNCHANGED <<lost, failures>> /\ Running

-----------------------------------------------------------------------------
(* The parser.                                                              *)

NextToken(e) == lex' = "start" /\ expect' = e
Reject == status' = "rejected" /\ UNCHANGED <<lex, expect, stack, result, failures>>

Top == Last(stack)
WithTop(f) == Append(Front(stack), f)
Container(kind) ==
    [kind |-> kind, key |-> <<>>, members |-> IF kind = "array" THEN <<>> ELSE {}]

\* A value is returned to the container it is in, with what has to be allocated
\* for it and for its place there; outer is the stack it is returned to.
Return(v, outer) ==
    \E m \in IF outer = <<>> /\ v[1] \in {"true", "array", "object"}
             THEN {[ok |-> TRUE, failed |-> 0]} ELSE Mallocs :
        IF ~m.ok THEN status' = "rejected" /\ After(m) /\ UNCHANGED <<lex, expect, stack, result>>
        ELSE /\ After(m)
             /\ IF outer = <<>>
                THEN /\ stack' = outer /\ result' = v
                     /\ IF Flag("noeof") THEN status' = "accepted" /\ UNCHANGED <<lex, expect>>
                        ELSE NextToken("eof") /\ UNCHANGED status
                ELSE LET f == Last(outer)
                     IN  /\ stack' = Append(Front(outer),
                               IF f.kind = "array"
                               THEN [f EXCEPT !.members = Append(@, v)]
                               ELSE [f EXCEPT !.members = {p \in @ : p[1] # f.key} \cup {<<f.key, v>>}])
                         /\ NextToken(IF f.kind = "array" THEN "next]" ELSE "next}")
                         /\ UNCHANGED <<status, result>>

Open(kind, e) ==
    \E m \in Mallocs :
        /\ After(m)
        /\ IF m.ok
           THEN stack' = Append(stack, Container(kind)) /\ NextToken(e) /\ UNCHANGED <<status, result>>
           ELSE status' = "rejected" /\ UNCHANGED <<lex, expect, stack, result>>

\* parse_value.
ParseValue ==
    CASE token.type = "string" /\ ("nul" \notin ToSet(token.value) \/ Flag("nul")) ->
            Return(<<"string", token.value>>, stack)
      [] token.type = "integer" ->
            Return(IF Flag("real") THEN <<"real", RealOf(saved.value)>>
                   ELSE <<"integer", token.value>>, stack)
      [] token.type = "real" -> Return(<<"real", token.value>>, stack)
      [] token.type = "true" -> Return(<<"true">>, stack)
      [] token.type = "{"    -> Open("object", "first}")
      [] token.type = "["    -> Open("array", "first]")
      [] OTHER               -> Reject

\* A key of parse_object.
ParseKey ==
    IF \/ token.type # "string"
       \/ "nul" \in ToSet(token.value)
       \/ Flag("dup") /\ \E p \in Top.members : p[1] = token.value
    THEN Reject
    ELSE /\ stack' = WithTop([Top EXCEPT !.key = token.value])
         /\ NextToken("colon") /\ UNCHANGED <<status, result, failures>>

Close == Return(<<Top.kind, Top.members>>, Front(stack))
Proceed(e) == NextToken(e) /\ UNCHANGED <<stack, status, result, failures>>

\* What the parser does of a token where it is.
Parse ==
    /\ lex = "done"
    /\ LET t == token.type
       IN  CASE expect = "top" ->
                   IF Flag("any") \/ t \in {"[", "{"} THEN ParseValue ELSE Reject
             [] expect = "value" -> ParseValue
             [] expect = "first}" -> IF t = "}" THEN Close ELSE ParseKey
             [] expect = "key"    -> ParseKey
             [] expect = "colon"  -> IF t = ":" THEN Proceed("value") ELSE Reject
             [] expect = "next}"  -> CASE t = "}" -> Close
                                       [] t = "," -> Proceed("key")
                                       [] OTHER   -> Reject
             [] expect = "first]" -> CASE t = "]"   -> Close
                                       [] t = "eof" -> Reject
                                       [] OTHER     -> ParseValue
             [] expect = "next]"  -> CASE t = "]" -> Close
                                       [] t = "," -> Proceed("element")
                                       [] OTHER   -> Reject
             [] expect = "element" -> IF t = "eof" THEN Reject ELSE ParseValue
             [] expect = "eof" ->
                   IF t = "eof"
                   THEN status' = "accepted" /\ UNCHANGED <<lex, expect, stack, result, failures>>
                   ELSE /\ status' = "rejected" /\ result' = NoResult
                        /\ UNCHANGED <<lex, expect, stack, failures>>
    /\ UNCHANGED <<input, source, stream, saved, lost, token>>

LoadStep ==
    /\ status = "run"
    /\ \/ Scan \/ ScanString \/ ScanNumber \/ ScanPoint \/ ScanWord
       \/ Parse
=============================================================================
