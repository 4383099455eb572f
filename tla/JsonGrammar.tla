---------------------------- MODULE JsonGrammar ----------------------------
(***************************************************************************)
(* JSON, as its grammar generates it: the texts up to a length, each with  *)
(* the value it is a text of.  It says what jansson's parser should take,  *)
(* and nothing of how; the property that the parser does take it is last.  *)
(***************************************************************************)
EXTENDS JsonText

\* A text and what it means.
Is(t, v) == [text |-> t, value |-> v]

\* What f and g have to say of texts that are n long together.
Joined(f, g, n, Op(_, _)) ==
    UNION {{Op(x, y) : x \in f[k + 1], y \in g[n - k + 1]} : k \in 0 .. n}

Texts(symbols, n) == [1 .. n -> symbols]
\* A function of the length, from 0, as a sequence.
ByLength(n, F(_)) == [k \in 1 .. n + 1 |-> F(k - 1)]

-----------------------------------------------------------------------------
(* Strings: a character is what the text says of it, and the bytes it is.   *)

Character(in, n) ==
    LET inside == in.inside
        plain == {b \in inside \ (Hex \cup Control \cup {Quote, Backslash}) :
                     \A m \in MultiByte : b \notin ToSet(m)}
        escape(t, v) == IF ToSet(t) \subseteq inside THEN {Is(t, v)} ELSE {}
    IN  CASE n = 1 -> {Is(<<b>>, <<b>>) : b \in plain}
          [] n = 2 -> escape(<<Backslash, Quote>>, <<Quote>>)
                        \cup escape(<<Backslash, Backslash>>, <<Backslash>>)
                        \cup escape(<<Backslash, "n">>, <<"newline">>)
          [] n = 3 -> UNION {escape(<<Backslash, "u", h>>, Escaped[h]) : h \in DOMAIN Escaped}
          [] n = 6 -> escape(<<Backslash, "u", High, Backslash, "u", Low>>, Astral)
          [] OTHER -> {}

MultiByteCharacter(in, n) ==
    {Is(m, m) : m \in {x \in MultiByte : Len(x) = n /\ ToSet(x) \subseteq in.inside}}

\* The characters that follow each other in n symbols.
Inner(in, n) ==
    LET one == ByLength(n, LAMBDA k : Character(in, k) \cup MultiByteCharacter(in, k))
        more(all, k) ==
            Append(all, IF k = 0 THEN {Is(<<>>, <<>>)}
                        ELSE Joined(one, all \o <<{}>>, k,
                                 LAMBDA x, y : Is(x.text \o y.text, x.value \o y.value)))
    IN  FoldLeft(more, <<>>, [k \in 1 .. n + 1 |-> k - 1])

Strings(in, n) ==
    LET c == Inner(in, n)
    IN  ByLength(n, LAMBDA k :
            IF k < 2 \/ Quote \notin in.symbols THEN {}
            ELSE {Is(<<Quote>> \o x.text \o <<Quote>>, x.value) : x \in c[k - 1]})

-----------------------------------------------------------------------------
(* Numbers.                                                                 *)

NaturalTexts(in, n) ==
    {d \in Texts(in.symbols \cap Digit, n) : n > 0 /\ (d[1] = "0" => n = 1)}
Signs(in) == {<<>>} \cup {<<s>> : s \in in.symbols \cap {"-"}}
IntegerTexts(in, n) ==
    UNION {{s \o d : d \in NaturalTexts(in, n - Len(s))} : s \in {x \in Signs(in) : Len(x) <= n}}
Fractions(in, n) ==
    IF n = 0 THEN {<<>>}
    ELSE IF n = 1 \/ "." \notin in.symbols THEN {}
    ELSE {<<".">> \o d : d \in Texts(in.symbols \cap Digit, n - 1)}
Exponents(in, n) ==
    IF n = 0 THEN {<<>>}
    ELSE IF "e" \notin in.symbols THEN {}
    ELSE UNION {{<<"e">> \o s \o d : d \in Texts(in.symbols \cap Digit, n - 1 - Len(s))}
                  : s \in {x \in Signs(in) : Len(x) < n - 1}}

Numbers(in, n) ==
    LET integers == {t \in IntegerTexts(in, n) : ~TooBig(t)}
        reals == {t \in UNION {{a \o b \o c : a \in IntegerTexts(in, i), b \in Fractions(in, j),
                                              c \in Exponents(in, n - i - j)}
                                 : <<i, j>> \in {p \in (1 .. n) \X (0 .. n) : p[1] + p[2] <= n}}
                       \ IntegerTexts(in, n) : ~TooReal(t)}
    IN  {Is(t, IF "real" \in in.flags THEN <<"real", RealOf(t)>> ELSE <<"integer", IntegerOf(t)>>)
            : t \in integers}
        \cup {Is(t, <<"real", RealOf(t)>>) : t \in reals}

-----------------------------------------------------------------------------
(* Values.                                                                  *)

\* The pairs p and then those of an object, of which an earlier one with the
\* same key is forgotten.
Pairs(ps) ==
    {ps[i] : i \in {j \in DOMAIN ps : \A k \in DOMAIN ps : k > j => ps[k][1] # ps[j][1]}}
NoDuplicates(ps) == \A i, j \in DOMAIN ps : ps[i][1] = ps[j][1] => i = j

\* For each length up to n: the values, the values with blanks around them, the
\* elements of arrays, the members of objects.
Generated(in, n) ==
    LET blanks == ByLength(n, LAMBDA k : Texts(in.symbols \cap Blank, k))
        strings == Strings(in, n)
        noNul(s) == "nul" \notin ToSet(s.value)
        keys == ByLength(n, LAMBDA k : {s \in strings[k + 1] : noNul(s)})
        can(c) == c \in in.symbols
        \* The texts of length k of a list of parts that are shorter.
        padded(f, k) ==
            UNION {{Is(a \o x.text \o b, x.value) : a \in blanks[i + 1], x \in f[k - i - j + 1],
                                                    b \in blanks[j + 1]}
                     : <<i, j>> \in {p \in (0 .. k) \X (0 .. k) : p[1] + p[2] <= k}}
        separated(first, rest, s, k) ==
            IF k = 0 \/ ~can(s) THEN {}
            ELSE Joined(first, rest, k - 1,
                     LAMBDA x, y : Is(x.text \o <<s>> \o y.text, <<x.value>> \o y.value))
        enclosed(f, open, close, k) ==
            IF k < 2 \/ ~can(open) \/ ~can(close) THEN {}
            ELSE {Is(<<open>> \o x.text \o <<close>>, x.value) : x \in f[k - 1]}
        none == ByLength(n, LAMBDA k : {Is(b, <<>>) : b \in blanks[k + 1]})
        step(g, k) ==
            LET values ==
                    {Is(s.text, <<"string", s.value>>)
                        : s \in {x \in strings[k + 1] : "nul" \in in.flags \/ noNul(x)}}
                    \cup Numbers(in, k)
                    \cup (IF k = 1 /\ can("true") THEN {Is(<<"true">>, <<"true">>)} ELSE {})
                    \cup {Is(x.text, <<"array", x.value>>)
                             : x \in enclosed(g.elements, "[", "]", k)
                                       \cup enclosed(none, "[", "]", k)}
                    \cup {Is(x.text, <<"object", Pairs(x.value)>>)
                             : x \in {y \in enclosed(g.members, "{", "}", k)
                                              \cup enclosed(none, "{", "}", k) :
                                        "dup" \in in.flags => NoDuplicates(y.value)}}
                spaced == padded(Append(g.values, values), k)
                key == padded(keys, k)
                member == IF k = 0 \/ ~can(":") THEN {}
                          ELSE Joined(g.keys, g.spaced, k - 1,
                                   LAMBDA x, y : Is(x.text \o <<":">> \o y.text, <<x.value, y.value>>))
            IN  [values   |-> Append(g.values, values),
                 spaced   |-> Append(g.spaced, spaced),
                 keys     |-> Append(g.keys, key),
                 member   |-> Append(g.member, member),
                 elements |-> Append(g.elements,
                                 {Is(x.text, <<x.value>>) : x \in spaced}
                                 \cup separated(g.spaced, g.elements, ",", k)),
                 members  |-> Append(g.members,
                                 {Is(x.text, <<x.value>>) : x \in member}
                                 \cup separated(g.member, g.members, ",", k))]
    IN  FoldLeft(step, [values |-> <<>>, spaced |-> <<>>, keys |-> <<>>, member |-> <<>>,
                        elements |-> <<>>, members |-> <<>>],
                 [k \in 1 .. n + 1 |-> k - 1])

\* What json_loads should take with the flags of an input.
Documents(in) ==
    LET g == Generated(in, in.length)
        ends(t) == "noeof" \in in.flags => Last(t) \notin Blank
    IN  {d \in UNION ToSet(g.spaced) :
            ends(d.text) /\ ("any" \in in.flags \/ d.value[1] \in {"array", "object"})}

\* The same for each input, and the texts that such a text begins with.
Json == [in \in Inputs |-> Documents(in)]
Beginnings == [in \in Inputs |-> UNION {{SubSeq(d.text, 1, k) : k \in 0 .. Len(d.text)} : d \in Json[in]}]

-----------------------------------------------------------------------------
\* What json_loads takes, with the value it makes of it, is what the grammar of
\* JSON says under the flags it is given, the ranges of its numbers apart: even
\* when memory runs out it takes nothing else, unless a byte was not saved, and
\* what it refuses with enough memory is the beginning of no such text.
AcceptsExactlyJson ==
    phase = "load" /\ ~lost =>
        /\ status = "accepted" => Is(Consumed, result) \in Json[input]
        /\ status = "rejected" /\ failures = 0 =>
              IF stream.state = "eof" THEN \A d \in Json[input] : d.text # stream.read
              ELSE stream.read \o stream.bad \notin Beginnings[input]
=============================================================================
