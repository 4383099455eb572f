------------------------------ MODULE JsonDump ------------------------------
(***************************************************************************)
(* jansson's json_dumps: dump.c, with the part of utf.c and strconv.c it   *)
(* calls, a step for each call of its callback, dump_to_strbuffer.  What   *)
(* do_dump and the calls of it that wait have left to do is an agenda: a   *)
(* value, or the pieces of a text that are given to the callback.          *)
(***************************************************************************)
EXTENDS JsonSymbols

VARIABLES
    out,      \* strbuff
    agenda,
    keyLost,  \* has a key, or a part of it, not been appended
    dumped    \* "run", or how json_dumps has ended

dumping == <<out, agenda, keyLost, dumped>>

InitDump == out = NewBuffer /\ agenda = <<>> /\ keyLost = FALSE /\ dumped = "idle"

\* minds: does do_dump look at what the callback returns.
Pieces(p) == [pieces |-> p, minds |-> TRUE]
Piece(t) == Pieces(<<t>>)
KeyPieces(p) == [pieces |-> p, minds |-> FALSE]
SortKeys == [keys |-> "sorted"]
Value(v, depth) == [value |-> v, depth |-> depth]

\* The place where dump_string finds no character.
Undecodable == <<"undecodable">>

-----------------------------------------------------------------------------
(* Strings.                                                                 *)

\* utf8_iterate, from the first byte of a string to the last, or to the first
\* that is not of a character.
Characters(s) ==
    LET C[i \in 1 .. Len(s) + 1] ==
            IF i > Len(s) THEN <<>>
            ELSE LET n == CheckFirst(s[i])
                     c == SubSeq(s, i, Min({i + n - 1, Len(s)}))
                 IN  IF n = 1 \/ c \in MultiByte THEN <<c>> \o C[i + n] ELSE <<Undecodable>>
    IN  C[1]

\* The escape of a character, if it needs one.
Escape(c) ==
    CASE c = <<Quote>>     -> <<Backslash, Quote>>
      [] c = <<Backslash>> -> <<Backslash, Backslash>>
      [] c = <<"newline">> -> <<Backslash, "n">>
      [] c \in {<<"nul">>, <<"^">>} \/ (c \in MultiByte \ {Astral} /\ Flag("ascii")) ->
            <<Backslash, "u", CHOOSE h \in DOMAIN Escaped : Escaped[h] = c>>
      [] c = Astral /\ Flag("ascii") -> <<Backslash, "u", High, Backslash, "u", Low>>
      [] OTHER -> <<>>

\* Mutant: the characters before an escape are not written.
EndedLosing(found) == found.pieces

\* The run of plain characters that has been found is a piece.
Ended(found) ==
    IF found.run = <<>> THEN found.pieces ELSE Append(found.pieces, found.run)

\* One more character has been found.
Finding(found, c) ==
    CASE c = Undecodable -> [pieces |-> Append(found.pieces, c), run |-> <<>>]
      [] c # Undecodable /\ Escape(c) = <<>> -> [found EXCEPT !.run = @ \o c]
      [] OTHER -> [pieces |-> Append(Ended(found), Escape(c)), run |-> <<>>]

\* What has been found of a string: the pieces, and the characters behind them.
Found(s) ==
    LET chars == Characters(s)
        F[k \in 0 .. Len(chars)] ==
            IF k = 0 THEN [pieces |-> <<<<Quote>>>>, run |-> <<>>]
            ELSE Finding(F[k - 1], chars[k])
    IN  F[Len(chars)]

\* dump_string: the pieces are runs of plain characters, and escapes.
DumpString(s) == Append(Ended(Found(s)), <<Quote>>)

-----------------------------------------------------------------------------
(* do_dump.                                                                 *)

Indent(depth, space) ==
    IF Flag("indent") THEN <<Pieces(<<<<"newline">>>> \o [i \in 1 .. depth |-> <<" ">>])>>
    ELSE IF space /\ ~Flag("compact") THEN <<Piece(<<" ">>)>> ELSE <<>>

\* A container at a depth; each item is the agenda of one of its members, and
\* before the first the keys are put in an array to be sorted.
Items(open, items, close, depth) ==
    <<Piece(open)>>
      \o (IF items = <<>> THEN <<>>
          ELSE Indent(depth + 1, FALSE)
                 \o (IF open = <<"{">> /\ Flag("sort") THEN <<SortKeys>> ELSE <<>>)
                 \o FlattenSeq([i \in 1 .. Len(items) |->
                        (IF i = 1 THEN <<>> ELSE <<Piece(<<",">>)>> \o Indent(depth + 1, TRUE))
                          \o items[i]])
                 \o Indent(depth, FALSE))
      \o <<Piece(close)>>

Separator == Piece(IF Flag("compact") THEN <<":">> ELSE <<":", " ">>)

\* A member whose key is written as it is.
Member(p, depth) == <<KeyPieces(DumpString(p[1])), Separator, Value(p[2], depth + 1)>>

\* The orders the pairs of an object may be met in.
Orders(pairs) ==
    LET n == Cardinality(pairs)
    IN  {o \in [1 .. n -> pairs] : IsInjective(o)}

\* What is left to do of a value, for each order the code may find.
Dumps(v, depth) ==
    CASE v[1] = "true"    -> {<<Piece(<<"true">>)>>}
      [] v[1] = "integer" -> {<<Piece(v[2])>>}
      [] v[1] = "real"    -> {<<Piece(PrintedReal(v[2]))>>}
      [] v[1] = "string"  -> {<<Pieces(DumpString(v[2]))>>}
      [] v[1] = "array"   -> {Items(<<"[">>, [i \in DOMAIN v[2] |-> <<Value(v[2][i], depth + 1)>>],
                                    <<"]">>, depth)}
      [] v[1] = "object"  -> {Items(<<"{">>, [i \in DOMAIN o |-> Member(o[i], depth)],
                                    <<"}">>, depth) : o \in Orders(v[2])}

-----------------------------------------------------------------------------

\* json_dumps of v.
Dump(v) ==
    /\ out' = NewBuffer /\ keyLost' = FALSE
    /\ \E m \in Mallocs :
          /\ After(m)
          /\ IF m.ok /\ (Flag("any") \/ v[1] \in {"array", "object"})
             THEN agenda' = <<Value(v, 0)>> /\ dumped' = "run"
             ELSE agenda' = <<>> /\ dumped' = "failed"

Failing == agenda' = <<>> /\ dumped' = "failed"

DumpValue ==
    /\ agenda # <<>> /\ "value" \in DOMAIN Head(agenda)
    /\ \E d \in Dumps(Head(agenda).value, Head(agenda).depth) : agenda' = d \o Tail(agenda)
    /\ UNCHANGED <<out, keyLost, dumped, failures>>

\* The array of the keys is allocated.
DumpSortKeys ==
    /\ agenda # <<>> /\ Head(agenda) = SortKeys
    /\ \E m \in Mallocs :
          After(m) /\ IF m.ok THEN agenda' = Tail(agenda) /\ UNCHANGED dumped ELSE Failing
    /\ UNCHANGED <<out, keyLost>>

\* The callback is given a piece.  When it fails in a key, the rest of the key
\* is left out, and what comes behind it is written all the same.
DumpPiece ==
    /\ agenda # <<>> /\ "pieces" \in DOMAIN Head(agenda)
    /\ LET item == Head(agenda)
           rest == IF Len(item.pieces) = 1 THEN Tail(agenda)
                   ELSE <<[item EXCEPT !.pieces = Tail(@)]>> \o Tail(agenda)
       IN  \E r \in IF Head(item.pieces) = Undecodable
                    THEN {[ok |-> FALSE, buffer |-> out, failed |-> 0]}
                    ELSE Appends(out, Head(item.pieces)) :
              /\ After(r) /\ out' = r.buffer
              /\ \/ r.ok /\ agenda' = rest /\ UNCHANGED <<keyLost, dumped>>
                 \/ ~r.ok /\ item.minds /\ Failing /\ UNCHANGED keyLost
                 \/ ~r.ok /\ ~item.minds /\ agenda' = Tail(agenda) /\ keyLost' = TRUE
                       /\ UNCHANGED dumped

\* The text is copied, and the buffer is freed.
DumpEnd ==
    /\ agenda = <<>>
    /\ \E m \in Mallocs : After(m) /\ dumped' = IF m.ok THEN "dumped" ELSE "failed"
    /\ UNCHANGED <<out, agenda, keyLost>>

DumpStep == dumped = "run" /\ (DumpValue \/ DumpSortKeys \/ DumpPiece \/ DumpEnd)
=============================================================================
