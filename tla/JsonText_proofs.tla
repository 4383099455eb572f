--------------------------- MODULE JsonText_proofs ---------------------------
(***************************************************************************)
(* Proofs about jansson: JsonText, its parser and its buffers, for any     *)
(* inputs and sizes, and JsonSeed, for any threads, keys and seeds and for *)
(* every variant of json_object_seed but the fallback.                     *)
(*                                                                         *)
(* The position.  What has been taken of a text is what has been read of   *)
(* it but for the rest of the buffer, which is at most one character: no   *)
(* newline and no first byte of another is in the rest of it.  A byte      *)
(* taken, put back or skipped moves the numbers as it moves that end.      *)
(*                                                                         *)
(* The lexical analyzer.  In each of its states, what is saved has the     *)
(* form of what that state has seen: a sign, digits, a fraction, an        *)
(* exponent; for strings there is a set of places where a byte or an       *)
(* escape begins, each of which leads to another or to the end.  So what a *)
(* number ends as is one to strtoll or strtod, and the loop over a string  *)
(* goes from place to place to the closing quote.  A byte that could not   *)
(* be saved is what alone breaks the form.                                 *)
(*                                                                         *)
(* The buffers.  An append that fits leaves the size, and one that does    *)
(* not makes it as great as is needed, as no sum wraps once Overflows is   *)
(* false.  That needs texts to append: the parser makes values whose       *)
(* strings and numbers are texts, and what do_dump has left to do of such  *)
(* a value, in any order of its members, is again values and texts.        *)
(*                                                                         *)
(* The seed.  Every pair of every object is hashed with the seed of now,   *)
(* so the seed must not change once a pair exists.  With a claim, only one *)
(* thread ever generates and it finds the seed still zero; with a          *)
(* compare-and-swap only a zero seed is overwritten.  And nobody uses an   *)
(* object while the seed is zero.                                          *)
(***************************************************************************)
EXTENDS JsonText, JsonSeed, FiniteSetTheorems, SequenceTheorems, WellFoundedInduction, TLAPS

-----------------------------------------------------------------------------
(* The position of the stream.                                              *)

\* A stream is a record, of bytes of S and numbers.
Record(s) ==
    s = [read |-> s.read, bad |-> s.bad, buffer |-> s.buffer, at |-> s.at,
         state |-> s.state, position |-> s.position, line |-> s.line,
         column |-> s.column, last |-> s.last]
Fields(s, S) ==
    /\ s.read \in Seq(S) /\ s.buffer \in Seq(S) /\ s.at \in Nat
    /\ s.state \in {"ok"} \cup End
    /\ s.position \in Int /\ s.line \in Int /\ s.column \in Int /\ s.last \in Int
StreamOf(s, S) == Record(s) /\ Fields(s, S)

\* How many bytes of a stream have been taken.
Taken(s) == Len(s.read) - (Len(s.buffer) - s.at)

\* The newlines among the first p bytes of a text, and the characters behind them.
Newlines(t, p) == {i \in 1 .. p : t[i] = "newline"}
Line(t, p) == {i \in 1 .. p : CheckFirst(t[i]) > 0 /\ \A n \in Newlines(t, p) : n < i}

\* The buffer is the end of what has been read, at most one character of it.
Buffered(s) ==
    /\ s.at <= Len(s.buffer) /\ Len(s.buffer) <= Len(s.read)
    /\ \A i \in 1 .. Len(s.buffer) : s.buffer[i] = s.read[Len(s.read) - Len(s.buffer) + i]
    /\ \A i \in 2 .. Len(s.buffer) : CheckFirst(s.buffer[i]) = 0 /\ s.buffer[i] # "newline"

\* The numbers of a stream are those of the bytes that have been taken.
Exact(s) ==
    /\ s.position = Taken(s)
    /\ s.line = 1 + Cardinality(Newlines(s.read, Taken(s)))
    /\ s.column = Cardinality(Line(s.read, Taken(s)))

GoodStream(s) == (\E S : StreamOf(s, S)) /\ Buffered(s) /\ Exact(s)

\* The sets of places are finite.
LEMMA PlacesAreFinite ==
    ASSUME NEW t, NEW p \in Nat
    PROVE  /\ IsFiniteSet(Newlines(t, p)) /\ Cardinality(Newlines(t, p)) \in Nat
           /\ IsFiniteSet(Line(t, p)) /\ Cardinality(Line(t, p)) \in Nat
           /\ p + 1 \notin Newlines(t, p) /\ p + 1 \notin Line(t, p)
  <1>1. IsFiniteSet(1 .. p)
    BY FS_Interval
  <1>2. Newlines(t, p) \subseteq 1 .. p /\ Line(t, p) \subseteq 1 .. p
    BY DEF Newlines, Line
  <1>3. IsFiniteSet(Newlines(t, p)) /\ IsFiniteSet(Line(t, p))
    BY <1>1, <1>2, FS_Subset
  <1>4. p + 1 \notin 1 .. p
    OBVIOUS
  <1>5. QED BY <1>2, <1>3, <1>4, FS_CardinalityType

\* One byte more.
LEMMA OneByteMore ==
    ASSUME NEW t, NEW p \in Nat, NEW c, c = t[p + 1]
    PROVE  /\ Cardinality(Newlines(t, p + 1)) =
                 Cardinality(Newlines(t, p)) + IF c = "newline" THEN 1 ELSE 0
           /\ Cardinality(Line(t, p + 1)) =
                 IF c = "newline" THEN 0
                 ELSE Cardinality(Line(t, p)) + IF CheckFirst(c) > 0 THEN 1 ELSE 0
  <1>1. 1 .. p + 1 = (1 .. p) \cup {p + 1} /\ \A i \in 1 .. p : i < p + 1 /\ ~(p + 1 < i)
    OBVIOUS
  <1>2. CASE c = "newline"
    <2>1. Newlines(t, p + 1) = Newlines(t, p) \cup {p + 1}
      BY <1>1, <1>2 DEF Newlines
    <2>2. Line(t, p + 1) = {}
      <3>1. p + 1 \in Newlines(t, p + 1)
        BY <2>1
      <3>2. \A i \in 1 .. p + 1 : ~(p + 1 < i)
        OBVIOUS
      <3>3. QED BY <3>1, <3>2 DEF Line
    <2>3. QED BY <1>2, <2>1, <2>2, PlacesAreFinite, FS_AddElement, FS_EmptySet
  <1>3. CASE c # "newline"
    <2>1. Newlines(t, p + 1) = Newlines(t, p)
      BY <1>1, <1>3 DEF Newlines
    <2>2. Newlines(t, p) \subseteq 1 .. p
      BY DEF Newlines
    <2>3. Line(t, p + 1) = Line(t, p) \cup IF CheckFirst(c) > 0 THEN {p + 1} ELSE {}
      BY <1>1, <2>1, <2>2 DEF Line
    <2>c. Cardinality(Newlines(t, p + 1)) = Cardinality(Newlines(t, p)) + 0
      BY <2>1, PlacesAreFinite
    <2>4. CASE CheckFirst(c) > 0
      <3>1. Line(t, p + 1) = Line(t, p) \cup {p + 1}
        BY <2>3, <2>4
      <3>2. Cardinality(Line(t, p) \cup {p + 1}) = Cardinality(Line(t, p)) + 1
        BY PlacesAreFinite, FS_AddElement
      <3>3. QED BY <1>3, <2>c, <2>4, <3>1, <3>2
    <2>5. CASE ~(CheckFirst(c) > 0)
      <3>1. Line(t, p + 1) = Line(t, p)
        BY <2>3, <2>5
      <3>3. QED BY <1>3, <2>c, <2>5, <3>1, PlacesAreFinite
    <2>6. QED BY <2>4, <2>5
  <1>4. QED BY <1>2, <1>3

\* Only the bytes up to p matter.
LEMMA SameBytes ==
    ASSUME NEW t, NEW u, NEW p \in Nat, \A i \in 1 .. p : t[i] = u[i]
    PROVE  Newlines(t, p) = Newlines(u, p) /\ Line(t, p) = Line(u, p)
  <1>1. Newlines(t, p) = Newlines(u, p)
    BY DEF Newlines
  <1>2. QED BY <1>1 DEF Line

\* What follows the first byte of a character is neither a newline nor another one.
LEMMA RestOfCharacter ==
    ASSUME NEW t, NEW p \in Nat, NEW q \in Nat, p <= q,
           \A i \in p + 1 .. q : CheckFirst(t[i]) = 0 /\ t[i] # "newline"
    PROVE  Newlines(t, q) = Newlines(t, p) /\ Line(t, q) = Line(t, p)
  <1>1. \A i \in 1 .. q : i \in 1 .. p \/ i \in p + 1 .. q
    OBVIOUS
  <1>2. \A i \in 1 .. p : i \in 1 .. q
    OBVIOUS
  <1>3. Newlines(t, q) = Newlines(t, p)
    BY <1>1, <1>2 DEF Newlines
  <1>4. QED BY <1>1, <1>2, <1>3 DEF Line

\* What CheckFirst says of the bytes of a character.
LEMMA CharacterBytes ==
    ASSUME NEW m \in MultiByte
    PROVE  /\ CheckFirst(m[1]) > 1
           /\ \A i \in 2 .. Len(m) : CheckFirst(m[i]) = 0 /\ m[i] # "newline"
  <1>1. /\ \E k \in MultiByte : m[1] = k[1]
    OBVIOUS
  <1>2. \A k \in MultiByte : Len(k) > 1
    BY MultiByteAssumption
  <1>3. CheckFirst(m[1]) > 1
    BY <1>1, <1>2 DEF CheckFirst
  <1>4. ASSUME NEW i \in 2 .. Len(m) PROVE CheckFirst(m[i]) = 0 /\ m[i] # "newline"
    <2>1. m[i] \in ToSet(m) /\ "newline" \notin ToSet(m)
      <3>1. m \in Seq(ToSet(m)) /\ "newline" \notin ToSet(m)
        BY MultiByteAssumption
      <3>2. QED BY <3>1
    <2>2. ~\E k \in MultiByte : m[i] = k[1]
      BY MultiByteAssumption
    <2>3. QED BY <2>1, <2>2 DEF CheckFirst
  <1>5. QED BY <1>3, <1>4

\* stream_get of a byte that is in the buffer, and stream_unget after it.
LEMMA GivenGoes ==
    ASSUME NEW S, NEW s, StreamOf(s, S), Buffered(s), Exact(s),
           s.at < Len(s.buffer), NEW c, c = Given(s).c, NEW g, g = Given(s).stream
    PROVE  /\ StreamOf(g, S) /\ Buffered(g) /\ Exact(g) /\ g.at > 0
           /\ StreamOf(Ungot(g, c), S) /\ Buffered(Ungot(g, c)) /\ Exact(Ungot(g, c))
  <1>1. PICK p \in Nat : p = Taken(s)
    BY DEF StreamOf, Fields, Buffered, Taken
  <1>2. PICK next : next = [s EXCEPT !.at = @ + 1, !.position = @ + 1]
    OBVIOUS
  <1>3. /\ StreamOf(next, S) /\ next.at = s.at + 1 /\ next.position = s.position + 1
        /\ next.line = s.line /\ next.column = s.column
        /\ next.buffer = s.buffer /\ next.read = s.read
    <2>1. /\ Record(next) /\ next.state = s.state /\ next.at = s.at + 1 /\ next.position = s.position + 1
          /\ next.line = s.line /\ next.column = s.column /\ next.last = s.last
          /\ next.buffer = s.buffer /\ next.read = s.read
      BY <1>2 DEF StreamOf, Record
    <2>2. QED BY <2>1 DEF StreamOf, Fields
  <1>4. /\ c = s.buffer[s.at + 1]
        /\ g = CASE c = "newline" ->
                       [next EXCEPT !.line = @ + 1, !.last = s.column, !.column = 0]
                 [] c # "newline" /\ CheckFirst(c) > 0 -> [next EXCEPT !.column = @ + 1]
                 [] OTHER -> next
    BY <1>2 DEF Given
  <1>e. /\ s.line \in Int /\ s.column \in Int /\ s.position \in Int /\ s.at \in Nat
        /\ Len(s.buffer) \in Nat /\ Len(s.read) \in Nat
    BY DEF StreamOf, Fields
  <1>a. PICK a \in Nat, b \in Nat, r \in Nat :
              a = s.at /\ b = Len(s.buffer) /\ r = Len(s.read) /\ a < b /\ b <= r
    BY <1>e DEF Buffered
  <1>5. c = s.read[p + 1]
    <2>1. PICK j \in 1 .. b : j = a + 1
      BY <1>a
    <2>2. p + 1 = r - b + j
      <3>1. p = r - (b - a)
        BY <1>1, <1>a DEF Taken
      <3>2. QED BY ONLY <2>1, <3>1
    <2>3. s.buffer[j] = s.read[r - b + j]
      BY <1>a, <2>1 DEF Buffered
    <2>4. QED BY <1>4, <1>a, <2>1, <2>2, <2>3
  <1>6. /\ Cardinality(Newlines(s.read, p + 1)) =
              Cardinality(Newlines(s.read, p)) + IF c = "newline" THEN 1 ELSE 0
        /\ Cardinality(Line(s.read, p + 1)) =
              IF c = "newline" THEN 0
              ELSE Cardinality(Line(s.read, p)) + IF CheckFirst(c) > 0 THEN 1 ELSE 0
    BY <1>5, OneByteMore
  <1>7. /\ StreamOf(g, S) /\ g.at = s.at + 1 /\ g.position = s.position + 1
        /\ g.buffer = s.buffer /\ g.read = s.read
        /\ g.line = s.line + IF c = "newline" THEN 1 ELSE 0
        /\ g.column = IF c = "newline" THEN 0
                      ELSE s.column + IF CheckFirst(c) > 0 THEN 1 ELSE 0
        /\ c = "newline" => g.last = s.column
    <2>1. /\ Record(g) /\ g.state = next.state /\ g.at = next.at /\ g.position = next.position
          /\ g.buffer = next.buffer /\ g.read = next.read
          /\ g.line = IF c = "newline" THEN next.line + 1 ELSE next.line
          /\ g.column = IF c = "newline" THEN 0
                        ELSE IF CheckFirst(c) > 0 THEN next.column + 1 ELSE next.column
          /\ g.last = IF c = "newline" THEN s.column ELSE next.last
      <3>1. CASE c = "newline"
        BY <1>3, <1>4, <3>1 DEF StreamOf, Record
      <3>2. CASE c # "newline" /\ CheckFirst(c) > 0
        BY <1>3, <1>4, <3>2 DEF StreamOf, Record
      <3>3. CASE c # "newline" /\ ~(CheckFirst(c) > 0)
        BY <1>3, <1>4, <3>3 DEF StreamOf, Record
      <3>4. QED BY <3>1, <3>2, <3>3
    <2>2. Fields(g, S)
      BY <1>3, <1>e, <2>1 DEF StreamOf, Fields
    <2>3. QED BY <1>3, <1>e, <2>1, <2>2 DEF StreamOf
  <1>8. Taken(g) = p + 1 /\ g.at > 0 /\ s.at \in Nat
    <2>1. Taken(g) = r - (b - (a + 1)) /\ p = r - (b - a)
      BY <1>1, <1>7, <1>a DEF Taken
    <2>2. g.at = s.at + 1 /\ s.at = a
      BY <1>7, <1>a
    <2>3. Taken(g) = p + 1
      BY ONLY <2>1, a \in Nat, b \in Nat, r \in Nat
    <2>4. QED BY ONLY <2>2, <2>3, a \in Nat
  <1>9. Buffered(g)
    <2>1. a + 1 <= b
      BY <1>a
    <2>2. QED BY <1>7, <1>a, <2>1 DEF Buffered
  <1>10. /\ Cardinality(Newlines(s.read, p)) \in Nat /\ Cardinality(Line(s.read, p)) \in Nat
    BY PlacesAreFinite
  <1>11. /\ s.position = p /\ s.line = 1 + Cardinality(Newlines(s.read, p))
         /\ s.column = Cardinality(Line(s.read, p))
    BY <1>1 DEF Exact
  <1>12. Exact(g)
    BY <1>6, <1>7, <1>8, <1>10, <1>11 DEF Exact
  <1>13. CASE c \in End
    BY <1>7, <1>8, <1>9, <1>12, <1>13 DEF Ungot
  <1>14. CASE c \notin End
    <2>1. PICK back : back = [g EXCEPT !.at = @ - 1, !.position = @ - 1]
      OBVIOUS
    <2>2. /\ StreamOf(back, S) /\ back.at = s.at /\ back.position = s.position
          /\ back.line = g.line /\ back.column = g.column /\ back.last = g.last
          /\ back.buffer = s.buffer /\ back.read = s.read
      <3>1. /\ Record(back) /\ back.state = g.state /\ back.at = g.at - 1 /\ back.position = g.position - 1
            /\ back.line = g.line /\ back.column = g.column /\ back.last = g.last
            /\ back.buffer = g.buffer /\ back.read = g.read
        BY <1>7, <2>1 DEF StreamOf, Record
      <3>2. back.at = s.at /\ back.position = s.position
        BY <1>e, <1>7, <3>1
      <3>3. QED BY <1>7, <1>e, <3>1, <3>2 DEF StreamOf, Fields
    <2>3. PICK u : u = Ungot(g, c)
      OBVIOUS
    <2>4. u = CASE c = "newline" -> [back EXCEPT !.line = @ - 1, !.column = g.last]
                [] c # "newline" /\ CheckFirst(c) > 0 -> [back EXCEPT !.column = @ - 1]
                [] OTHER -> back
      BY <1>14, <2>1, <2>3 DEF Ungot
    <2>5. /\ StreamOf(u, S) /\ u.at = s.at /\ u.position = s.position
          /\ u.buffer = s.buffer /\ u.read = s.read /\ u.line = s.line /\ u.column = s.column
      <3>1. /\ Record(u) /\ u.state = back.state /\ u.at = back.at /\ u.position = back.position
            /\ u.buffer = back.buffer /\ u.read = back.read /\ u.last = back.last
            /\ u.line = IF c = "newline" THEN back.line - 1 ELSE back.line
            /\ u.column = IF c = "newline" THEN g.last
                          ELSE IF CheckFirst(c) > 0 THEN back.column - 1 ELSE back.column
        <4>1. CASE c = "newline"
          BY <2>2, <2>4, <4>1 DEF StreamOf, Record
        <4>2. CASE c # "newline" /\ CheckFirst(c) > 0
          BY <2>2, <2>4, <4>2 DEF StreamOf, Record
        <4>3. CASE c # "newline" /\ ~(CheckFirst(c) > 0)
          BY <2>2, <2>4, <4>3 DEF StreamOf, Record
        <4>4. QED BY <4>1, <4>2, <4>3
      <3>2. u.line = s.line /\ u.column = s.column
        BY <1>e, <1>7, <2>2, <3>1
      <3>3. Fields(u, S)
        BY <1>e, <2>2, <3>1, <3>2 DEF StreamOf, Fields
      <3>4. QED BY <2>2, <3>1, <3>2, <3>3 DEF StreamOf
    <2>6. Buffered(u) /\ Exact(u)
      BY <2>5 DEF Buffered, Exact, Taken
    <2>7. QED BY <1>7, <1>8, <1>9, <1>12, <2>3, <2>5, <2>6
  <1>15. QED BY <1>13, <1>14

\* Another state of the stream, or other bytes that are no character.
LEMMA OtherState ==
    ASSUME NEW s, GoodStream(s), NEW b, NEW e \in End
    PROVE  /\ GoodStream([s EXCEPT !.state = e])
           /\ GoodStream([[s EXCEPT !.bad = b] EXCEPT !.state = e])
  <1>1. PICK S : StreamOf(s, S)
    BY DEF GoodStream
  <1>3. PICK u : u = [s EXCEPT !.state = e]
    OBVIOUS
  <1>4. PICK w : w = [[s EXCEPT !.bad = b] EXCEPT !.state = e]
    OBVIOUS
  <1>5. /\ StreamOf(u, S) /\ u.at = s.at /\ u.position = s.position
        /\ u.buffer = s.buffer /\ u.read = s.read /\ u.line = s.line /\ u.column = s.column
    BY <1>1, <1>3 DEF StreamOf, Record, Fields, End
  <1>6. /\ StreamOf(w, S) /\ w.at = s.at /\ w.position = s.position
        /\ w.buffer = s.buffer /\ w.read = s.read /\ w.line = s.line /\ w.column = s.column
    BY <1>1, <1>4 DEF StreamOf, Record, Fields, End
  <1>7. GoodStream(u)
    BY <1>5 DEF GoodStream, Buffered, Exact, Taken
  <1>8. GoodStream(w)
    BY <1>6 DEF GoodStream, Buffered, Exact, Taken
  <1>9. QED BY <1>3, <1>4, <1>7, <1>8

\* m is a character, or a byte.
IsCharacter(m) ==
    /\ \E S : m \in Seq(S)
    /\ Len(m) > 0
    /\ \A i \in 2 .. Len(m) : CheckFirst(m[i]) = 0 /\ m[i] # "newline"

\* u is s with m in its buffer.
Filled(s, u, m) ==
    /\ Record(u) /\ u.state = s.state /\ u.at = 0 /\ u.buffer = m /\ u.read = s.read \o m
    /\ u.position = s.position /\ u.line = s.line /\ u.column = s.column /\ u.last = s.last

\* A new character is in the buffer.
LEMMA CharacterComes ==
    ASSUME NEW s, GoodStream(s), s.at = Len(s.buffer), NEW m, IsCharacter(m),
           NEW u, Filled(s, u, m)
    PROVE  GoodStream(u) /\ u.at < Len(u.buffer)
  <1>f. PICK S : StreamOf(s, S) /\ Buffered(s) /\ Exact(s)
    BY DEF GoodStream
  <1>g. PICK T : m \in Seq(T)
    BY DEF IsCharacter
  <1>1. PICK R : R = S \cup T
    OBVIOUS
  <1>2. PICK r : r = s.read
    OBVIOUS
  <1>3. r \in Seq(R) /\ m \in Seq(R)
    BY <1>1, <1>2, <1>f, <1>g DEF StreamOf, Fields
  <1>4. /\ r \o m \in Seq(R) /\ Len(r \o m) = Len(r) + Len(m)
        /\ \A i \in 1 .. Len(r) : (r \o m)[i] = r[i]
        /\ \A i \in 1 .. Len(m) : (r \o m)[Len(r) + i] = m[i]
    BY <1>3
  <1>5. /\ StreamOf(u, R) /\ u.at = 0 /\ u.position = s.position
        /\ u.buffer = m /\ u.read = r \o m /\ u.line = s.line /\ u.column = s.column
    <2>1. /\ Record(u) /\ u.state = s.state /\ u.at = 0 /\ u.position = s.position /\ u.last = s.last
          /\ u.buffer = m /\ u.read = r \o m /\ u.line = s.line /\ u.column = s.column
      BY <1>2 DEF Filled
    <2>2. /\ s.position \in Int /\ s.line \in Int /\ s.column \in Int /\ s.last \in Int
          /\ s.state \in {"ok"} \cup End
      BY <1>f DEF StreamOf, Fields
    <2>3. PICK w \in Seq(R) : w = r \o m
      BY <1>4
    <2>4. u.read = w /\ u.buffer = m /\ u.at \in Nat
      <3>1. u.read = w /\ u.buffer = m
        BY <2>1, <2>3
      <3>2. u.at = 0
        BY <2>1
      <3>3. QED BY ONLY <3>1, <3>2
    <2>5. Fields(u, R)
      BY <1>3, <2>1, <2>2, <2>4 DEF Fields
    <2>6. QED BY <2>1, <2>5 DEF StreamOf
  <1>6. Len(r) \in Nat /\ Len(m) \in Nat /\ Taken(s) = Len(r) /\ Taken(u) = Len(r)
    BY <1>2, <1>3, <1>4, <1>5 DEF Taken
  <1>7. Buffered(u)
    BY <1>4, <1>5, <1>6 DEF Buffered, IsCharacter
  <1>8. /\ Newlines(u.read, Len(r)) = Newlines(r, Len(r))
        /\ Line(u.read, Len(r)) = Line(r, Len(r))
    <2>1. PICK w, k : w = u.read /\ k = Len(r)
      OBVIOUS
    <2>2. k \in Nat /\ \A i \in 1 .. k : w[i] = r[i]
      BY <1>4, <1>5, <1>6, <2>1
    <2>3. Newlines(w, k) = Newlines(r, k) /\ Line(w, k) = Line(r, k)
      BY ONLY <2>2, SameBytes
    <2>4. QED BY <2>1, <2>3
  <1>9. Exact(u)
    BY <1>f, <1>2, <1>5, <1>6, <1>8 DEF Exact
  <1>10. QED BY <1>5, <1>6, <1>7, <1>9 DEF GoodStream, IsCharacter

\* Where a byte that has not been taken is in the buffer.
LEMMA PlaceInBuffer ==
    ASSUME NEW a \in Nat, NEW b \in Nat, NEW r \in Nat, b <= r, a <= b, a > 0 \/ a = b,
           NEW p \in Nat, p = r - (b - a), NEW i \in p + 1 .. r
    PROVE  \E j \in 2 .. b : i = r - b + j
  <1>1. i \in Int /\ i >= p + 1 /\ i <= r
    OBVIOUS
  <1>2. i - (r - b) >= a + 1 /\ i - (r - b) <= b /\ a > 0
    BY <1>1
  <1>3. i - (r - b) \in 2 .. b /\ i = r - b + (i - (r - b))
    BY <1>1, <1>2
  <1>4. QED BY <1>3

\* The rest of a character is skipped.
LEMMA SkippedGoes ==
    ASSUME NEW s, GoodStream(s), s.at > 0 \/ s.at = Len(s.buffer)
    PROVE  GoodStream(Skipped(s))
  <1>1. PICK S : StreamOf(s, S) /\ Buffered(s) /\ Exact(s)
    BY DEF GoodStream
  <1>2. PICK u : u = Skipped(s)
    OBVIOUS
  <1>3. /\ StreamOf(u, S) /\ u.at = Len(s.buffer)
        /\ u.position = s.position + Len(s.buffer) - s.at
        /\ u.buffer = s.buffer /\ u.read = s.read /\ u.line = s.line /\ u.column = s.column
    <2>1. /\ Record(u) /\ u.state = s.state /\ u.at = Len(s.buffer) /\ u.last = s.last
          /\ u.position = s.position + Len(s.buffer) - s.at
          /\ u.buffer = s.buffer /\ u.read = s.read /\ u.line = s.line /\ u.column = s.column
      BY <1>1, <1>2 DEF StreamOf, Record, Skipped
    <2>2. Len(s.buffer) \in Nat /\ Fields(s, S)
      BY <1>1 DEF StreamOf, Fields
    <2>3. QED BY <2>1, <2>2 DEF StreamOf, Fields
  <1>e. s.at \in Nat /\ Len(s.buffer) \in Nat /\ Len(s.read) \in Nat
    BY <1>1 DEF StreamOf, Fields
  <1>4. PICK a \in Nat, b \in Nat, r \in Nat :
              a = s.at /\ b = Len(s.buffer) /\ r = Len(s.read) /\ a <= b /\ b <= r
    BY <1>1, <1>e DEF Buffered
  <1>5. PICK t : t = s.read
    OBVIOUS
  <1>6. PICK p \in Nat : p = r - (b - a)
    BY <1>4
  <1>7. Taken(s) = p /\ Taken(u) = r
    BY <1>3, <1>4, <1>6 DEF Taken
  <1>8. ASSUME NEW i \in p + 1 .. r PROVE CheckFirst(t[i]) = 0 /\ t[i] # "newline"
    <2>0. i \in p + 1 .. r
      OBVIOUS
    <2>1. PICK j \in 2 .. b : i = r - b + j
      <3>1. a > 0 \/ a = b
        BY <1>4
      <3>2. \E j \in 2 .. b : i = r - b + j
        <4>1. /\ a \in Nat /\ b \in Nat /\ r \in Nat /\ b <= r /\ a <= b /\ (a > 0 \/ a = b)
              /\ p \in Nat /\ p = r - (b - a)
          BY <1>4, <1>6, <3>1
        <4>2. QED BY ONLY <2>0, <4>1, PlaceInBuffer
      <3>3. QED BY <3>2
    <2>2. s.buffer[j] = t[i]
      <3>1. j \in 1 .. b
        BY ONLY <2>1
      <3>2. s.buffer[j] = t[r - b + j]
        BY <1>1, <1>4, <1>5, <3>1 DEF Buffered
      <3>3. QED BY <2>1, <3>2
    <2>3. QED BY <1>1, <1>4, <2>2 DEF Buffered
  <1>9. Newlines(t, r) = Newlines(t, p) /\ Line(t, r) = Line(t, p)
    <2>1. p <= r
      BY <1>4, <1>6
    <2>2. QED BY ONLY <1>8, <2>1, RestOfCharacter
  <1>10. Exact(u)
    <2>1. s.position = p /\ s.position + b - a = r
      BY <1>1, <1>4, <1>6, <1>7 DEF Exact
    <2>2. QED BY <1>1, <1>3, <1>4, <1>5, <1>7, <1>9, <2>1 DEF Exact
  <1>12. Buffered(u)
    <2>1. u.at = b /\ Len(u.buffer) = b /\ Len(u.read) = r /\ b <= b
      BY <1>3, <1>4
    <2>2. QED BY <1>1, <1>3, <1>4, <2>1 DEF Buffered
  <1>11. QED BY <1>2, <1>3, <1>10, <1>12 DEF GoodStream

\* stream_get leaves the position exact, and so does it when the byte is put back
\* or the rest of the character is skipped.
LEMMA GetsGoes ==
    ASSUME GoodStream(stream), NEW g \in Gets
    PROVE  /\ GoodStream(g.stream) /\ GoodStream(Ungot(g.stream, g.c))
           /\ g.c \notin End => GoodStream(Skipped(g.stream))
  <1>1. PICK S : StreamOf(stream, S) /\ Buffered(stream) /\ Exact(stream)
    BY DEF GoodStream
  <1>2. ASSUME NEW e \in End, g.c = e, GoodStream(g.stream) PROVE GoodStream(Ungot(g.stream, g.c))
    BY <1>2 DEF Ungot
  <1>3. ASSUME NEW s, GoodStream(s), s.at < Len(s.buffer), g = Given(s)
        PROVE  /\ GoodStream(g.stream) /\ GoodStream(Ungot(g.stream, g.c))
               /\ GoodStream(Skipped(g.stream))
    <2>0. PICK T : StreamOf(s, T) /\ Buffered(s) /\ Exact(s)
      BY <1>3 DEF GoodStream
    <2>1. PICK c, h : c = Given(s).c /\ h = Given(s).stream
      OBVIOUS
    <2>2. /\ StreamOf(h, T) /\ Buffered(h) /\ Exact(h) /\ h.at > 0
          /\ StreamOf(Ungot(h, c), T) /\ Buffered(Ungot(h, c)) /\ Exact(Ungot(h, c))
      BY ONLY <1>3, <2>0, <2>1, GivenGoes
    <2>3. GoodStream(h) /\ GoodStream(Ungot(h, c))
      BY <2>2 DEF GoodStream
    <2>4. GoodStream(Skipped(h))
      BY <2>2, <2>3, SkippedGoes
    <2>5. QED BY <1>3, <2>1, <2>3, <2>4
  <1>4. ASSUME NEW b, NEW e \in End,
               g = EndOf(stream, e) \/ g = EndOf([stream EXCEPT !.bad = b], e)
        PROVE  /\ GoodStream(g.stream) /\ GoodStream(Ungot(g.stream, g.c))
               /\ g.c \notin End => GoodStream(Skipped(g.stream))
    <2>1. PICK u, w : /\ u = [stream EXCEPT !.state = e]
                      /\ w = [[stream EXCEPT !.bad = b] EXCEPT !.state = e]
      OBVIOUS
    <2>2. GoodStream(u) /\ GoodStream(w)
      BY <2>1, OtherState
    <2>3. g.c = e /\ (g.stream = u \/ g.stream = w)
      BY <1>4, <2>1 DEF EndOf
    <2>4. GoodStream(g.stream)
      BY <2>2, <2>3
    <2>5. QED BY <1>2, <2>3, <2>4
  <1>5. CASE stream.state # "ok"
    <2>1. g = EndOf(stream, stream.state) /\ stream.state \in End
      BY <1>1, <1>5 DEF Gets, StreamOf, Fields
    <2>2. QED BY <1>4, <2>1
  <1>6. CASE stream.state = "ok" /\ stream.at < Len(stream.buffer)
    <2>1. g = Given(stream)
      BY <1>6 DEF Gets
    <2>2. QED BY <1>3, <1>6, <2>1
  <1>7. CASE stream.state = "ok" /\ ~(stream.at < Len(stream.buffer))
    <2>1. PICK b \in Bytes :
             LET n == CheckFirst(b)
             IN  g \in CASE b = "eof" -> {EndOf(stream, "eof")}
                         [] b # "eof" /\ n = 0 -> {EndOf([stream EXCEPT !.bad = <<b>>], "error")}
                         [] OTHER ->
                              {IF n = 1 \/ s \in MultiByte
                               THEN Given([stream EXCEPT !.buffer = s, !.at = 0, !.read = @ \o s])
                               ELSE EndOf([stream EXCEPT !.bad = s], "error")
                                  : s \in IF n = 1 THEN {<<b>>} ELSE Following(b, n)}
      BY <1>7 DEF Gets
    <2>2. PICK n : n = CheckFirst(b)
      OBVIOUS
    <2>3. CASE b = "eof"
      <3>1. g = EndOf(stream, "eof") /\ "eof" \in End
        BY <2>1, <2>3 DEF End
      <3>2. QED BY <1>4, <3>1
    <2>4. CASE b # "eof" /\ n = 0
      <3>1. g = EndOf([stream EXCEPT !.bad = <<b>>], "error") /\ "error" \in End
        BY <2>1, <2>2, <2>4 DEF End
      <3>2. QED BY <1>4, <3>1
    <2>5. CASE b # "eof" /\ n # 0
      <3>1. PICK s \in IF n = 1 THEN {<<b>>} ELSE Following(b, n) :
               g = IF n = 1 \/ s \in MultiByte
                   THEN Given([stream EXCEPT !.buffer = s, !.at = 0, !.read = @ \o s])
                   ELSE EndOf([stream EXCEPT !.bad = s], "error")
        BY <2>1, <2>2, <2>5
      <3>2. CASE n = 1 \/ s \in MultiByte
        <4>1. IsCharacter(s)
          <5>1. CASE s \in MultiByte
            <6>1. s \in Seq(ToSet(s)) /\ Len(s) > 1
              BY <5>1, MultiByteAssumption
            <6>2. Len(s) > 0
              BY <6>1
            <6>3. QED BY <5>1, <6>1, <6>2, CharacterBytes DEF IsCharacter
          <5>2. CASE n = 1
            <6>1. s = <<b>>
              BY <3>1, <5>2
            <6>2. s \in Seq({b}) /\ Len(s) = 1
              BY <6>1
            <6>3. QED BY <6>2 DEF IsCharacter
          <5>3. QED BY <3>2, <5>1, <5>2
        <4>3. PICK u : u = [stream EXCEPT !.buffer = s, !.at = 0, !.read = @ \o s]
          OBVIOUS
        <4>4. stream.at = Len(stream.buffer)
          <5>1. stream.at \in Nat /\ Len(stream.buffer) \in Nat /\ stream.at <= Len(stream.buffer)
            BY <1>1 DEF StreamOf, Fields, Buffered
          <5>2. QED BY <1>7, <5>1
        <4>5. GoodStream(u) /\ u.at < Len(u.buffer)
          <5>1. Filled(stream, u, s)
            BY <1>1, <4>3 DEF StreamOf, Record, Filled
          <5>2. QED BY <4>1, <4>4, <5>1, CharacterComes
        <4>6. g = Given(u)
          BY <3>1, <3>2, <4>3
        <4>7. QED BY <1>3, <4>5, <4>6
      <3>3. CASE ~(n = 1 \/ s \in MultiByte)
        <4>1. g = EndOf([stream EXCEPT !.bad = s], "error") /\ "error" \in End
          BY <3>1, <3>3 DEF End
        <4>2. QED BY <1>4, <4>1
      <3>4. QED BY <3>2, <3>3
    <2>6. QED BY <2>3, <2>4, <2>5
  <1>8. QED BY <1>5, <1>6, <1>7

\* A step of the parser takes a byte, or takes and puts it back, or takes it with
\* the rest of its character, or leaves the stream alone.
LEMMA StreamSteps ==
    ASSUME LoadStep
    PROVE  \/ stream' = stream
           \/ \E g \in Gets : \/ stream' \in {g.stream, Ungot(g.stream, g.c)}
                              \/ g.c \notin End /\ stream' = Skipped(g.stream)
  <1>1. ASSUME NEW g, NEW r, Keep(g, r, "start") \/ GiveUp(g, r) \/ Abort(g, r) \/ EndString(g, r)
        PROVE  stream' = g.stream
    BY <1>1 DEF Keep, GiveUp, Abort, EndString, Reading
  <1>2. ASSUME NEW g, NEW r, NEW type, PutBack(g, r, type)
        PROVE  stream' \in {g.stream, Ungot(g.stream, g.c)}
    BY <1>2 DEF PutBack, Abort, Reading
  <1>3. ASSUME NEW g, NEW r, NEW e, Keep(g, r, e) PROVE stream' = g.stream
    BY <1>3 DEF Keep, Reading
  <1>4. CASE Scan
    <2>1. PICK g \in Gets : LET c == g.c
                                 begin(state) == Reading(g.stream) /\ Goto(state)
                             IN CASE c \in Blank      -> begin("start")
                   [] c = "eof"        -> Reading(g.stream) /\ Lexed("eof", <<>>)
                   [] c = "error"      -> Reading(g.stream) /\ Invalid
                   [] c \in Structural -> Reading(g.stream) /\ Lexed(c, <<>>)
                   [] c = Quote        -> begin("string")
                   [] c = "-"          -> begin("minus")
                   [] c = "0"          -> begin("zero")
                   [] c \in Digit \ {"0"} -> begin("digits")
                   [] c \in Alpha      -> begin("word")
                   [] OTHER            -> Reading(Skipped(g.stream)) /\ Invalid
      BY <1>4 DEF Scan
    <2>2. Reading(g.stream) \/ (g.c \notin End /\ Reading(Skipped(g.stream)))
      BY <2>1, Zenon DEF End
    <2>3. QED BY <2>2 DEF Reading
  <1>5. CASE ScanString
    BY <1>1, <1>2, <1>3, <1>5 DEF ScanString
  <1>6. CASE ScanNumber
    BY <1>1, <1>2, <1>3, <1>6 DEF ScanNumber
  <1>7. CASE ScanPoint
    BY <1>3, <1>7 DEF ScanPoint, Reading
  <1>8. CASE ScanWord
    BY <1>2, <1>3, <1>8 DEF ScanWord
  <1>9. CASE Parse
    BY <1>9 DEF Parse
  <1>10. QED BY <1>4, <1>5, <1>6, <1>7, <1>8, <1>9 DEF LoadStep

StreamInv == GoodStream(stream)

\* For any inputs, characters and sizes: what an error is reported at is where the
\* bytes taken so far end, their newlines and the characters of their last line,
\* however often stream_get and stream_unget have changed it.
THEOREM PositionsAreExact == Spec => []PositionIsExact
  <1>1. GoodStream(NewStream)
    <2>1. PICK s : s = NewStream
      OBVIOUS
    <2>2. /\ s.read = <<>> /\ s.buffer = <<>> /\ s.at = 0 /\ s.state = "ok" /\ s.position = 0
          /\ s.line = 1 /\ s.column = 0 /\ s.last = 0 /\ Record(s)
      BY <2>1 DEF NewStream, Record
    <2>3. StreamOf(s, {})
      BY <2>2 DEF StreamOf, Fields
    <2>4. Buffered(s) /\ Taken(s) = 0
      BY <2>2 DEF Buffered, Taken
    <2>5. Newlines(<<>>, 0) = {} /\ Line(<<>>, 0) = {}
      BY DEF Newlines, Line
    <2>6. Exact(s)
      <3>1. Cardinality(Newlines(s.read, Taken(s))) = 0 /\ Cardinality(Line(s.read, Taken(s))) = 0
        BY <2>2, <2>4, <2>5, FS_EmptySet
      <3>2. QED BY <2>2, <2>4, <3>1 DEF Exact
    <2>7. QED BY <2>1, <2>3, <2>4, <2>6 DEF GoodStream
  <1>2. Init => StreamInv
    BY <1>1 DEF StreamInv, Init, InitLoad
  <1>3. StreamInv /\ [Next]_vars => StreamInv'
    <2> SUFFICES ASSUME GoodStream(stream), [Next]_vars PROVE GoodStream(stream')
      BY DEF StreamInv
    <2>1. \/ stream' = stream \/ stream' = NewStream \/ LoadStep
      BY DEF Next, vars, Begin, Load, Loading, BeginDump, Dumping, BeginReload, Finish, loading
    <2>2. CASE LoadStep
      BY <2>2, StreamSteps, GetsGoes
    <2>3. QED BY <1>1, <2>1, <2>2
  <1>4. StreamInv => PositionIsExact
    <2> SUFFICES ASSUME GoodStream(stream) PROVE PositionIsExact
      BY DEF StreamInv
    <2>1. PICK S : StreamOf(stream, S) /\ Buffered(stream) /\ Exact(stream)
      BY DEF GoodStream
    <2>2. PICK t, p : t = stream.read /\ p = Taken(stream)
      OBVIOUS
    <2>3. /\ stream.at \in Nat /\ Len(stream.buffer) \in Nat /\ t \in Seq(S)
      BY <2>1, <2>2 DEF StreamOf, Fields
    <2>4. p \in Nat /\ p <= Len(t)
      BY <2>1, <2>2, <2>3 DEF Taken, Buffered
    <2>5. PICK c : c = SubSeq(t, 1, p)
      OBVIOUS
    <2>6. Len(c) = p /\ DOMAIN c = 1 .. p /\ \A i \in 1 .. p : c[i] = t[i]
      BY <2>3, <2>4, <2>5
    <2>7. Consumed = c
      BY <2>2, <2>5 DEF Consumed, Taken
    <2>8. {i \in DOMAIN Consumed : Consumed[i] = "newline"} = Newlines(t, p)
      BY <2>6, <2>7 DEF Newlines
    <2>9. {i \in DOMAIN Consumed :
                 CheckFirst(Consumed[i]) > 0 /\ \A n \in Newlines(t, p) : n < i} = Line(t, p)
      BY <2>6, <2>7 DEF Line
    <2>10. QED BY <2>1, <2>2, <2>6, <2>7, <2>8, <2>9 DEF Exact, PositionIsExact
  <1>5. QED BY <1>2, <1>3, <1>4, PTL DEF Spec

-----------------------------------------------------------------------------
(* What the lexical analyzer has saved of a number.                         *)

\* The digits.
LEMMA DigitIs ==
    Digit = {"0", "1", "2", "3", "4", "5", "6", "7", "8", "9"}
  <1>1. DOMAIN Digits = 1 .. 10
    BY DEF Digits
  <1>2. 1 .. 10 = {1, 2, 3, 4, 5, 6, 7, 8, 9, 10}
    OBVIOUS
  <1>3. QED BY <1>1, <1>2 DEF Digit, ToSet, Digits

\* The first k symbols of v are an optional sign and digits, and points.
SignedDigits(v, k, points) ==
    /\ \A i \in 1 .. k : v[i] \in Digit \cup points \/ (i = 1 /\ v[1] = "-")
    /\ \E i \in 1 .. k : v[i] \in Digit

\* They are the part of a number before its exponent.
Fixed(v, k) ==
    /\ SignedDigits(v, k, {"."})
    /\ \A i, j \in 1 .. k : v[i] = "." /\ v[j] = "." => i = j

\* From k on v is an exponent.
Scientific(v, k) ==
    /\ v[k] = "e"
    /\ \A i \in k + 1 .. Len(v) : v[i] \in Digit \/ (i = k + 1 /\ v[i] = "-")
    /\ \E i \in k + 1 .. Len(v) : v[i] \in Digit

\* What Unsigned leaves of a text.
LEMMA UnsignedIs ==
    ASSUME NEW S, NEW v \in Seq(S),
           \A i \in 1 .. Len(v) : v[i] = "-" => i = 1
    PROVE  /\ \E k \in Nat : /\ Unsigned(v) \in Seq(S) /\ Len(Unsigned(v)) = Len(v) - k
                             /\ \A i \in 1 .. Len(v) - k : Unsigned(v)[i] = v[i + k]
                             /\ k <= Len(v) /\ (k = 0 \/ k = 1) /\ (k = 1 <=> v # <<>> /\ v[1] = "-")
  <1>1. CASE v # <<>> /\ v[1] = "-"
    <2>1. Unsigned(v) = Tail(v)
      BY <1>1 DEF Unsigned
    <2>2. /\ Tail(v) \in Seq(S) /\ Len(Tail(v)) = Len(v) - 1 /\ 1 <= Len(v)
          /\ \A i \in 1 .. Len(v) - 1 : Tail(v)[i] = v[i + 1]
      BY <1>1
    <2>3. QED BY <1>1, <2>1, <2>2
  <1>2. CASE ~(v # <<>> /\ v[1] = "-")
    <2>1. Unsigned(v) = v
      BY <1>2 DEF Unsigned
    <2>2. \A i \in 1 .. Len(v) - 0 : v[i] = v[i + 0]
      OBVIOUS
    <2>3. QED BY <1>2, <2>1, <2>2
  <1>3. QED BY <1>1, <1>2

\* A sign and digits are an integer.
LEMMA IntegerIs ==
    ASSUME NEW S, NEW v \in Seq(S), SignedDigits(v, Len(v), {})
    PROVE  IsInteger(v)
  <1>1. "-" \notin Digit
    BY DigitIs
  <1>2. \A i \in 1 .. Len(v) : v[i] = "-" => i = 1
    BY <1>1 DEF SignedDigits
  <1>3. PICK k \in Nat :
           /\ Unsigned(v) \in Seq(S) /\ Len(Unsigned(v)) = Len(v) - k
           /\ \A i \in 1 .. Len(v) - k : Unsigned(v)[i] = v[i + k]
           /\ k <= Len(v) /\ (k = 0 \/ k = 1) /\ (k = 1 <=> v # <<>> /\ v[1] = "-")
    BY <1>2, UnsignedIs
  <1>4. PICK u : u = Unsigned(v)
    OBVIOUS
  <1>5. PICK n \in Nat : n = Len(v)
    OBVIOUS
  <1>6. PICK j \in 1 .. n : v[j] \in Digit
    BY <1>5 DEF SignedDigits
  <1>7. n - k > 0
    BY <1>1, <1>3, <1>5, <1>6
  <1>8. u # <<>>
    BY <1>3, <1>4, <1>5, <1>7
  <1>9. ASSUME NEW i \in 1 .. n - k PROVE u[i] \in Digit
    <2>1. i + k \in 1 .. n /\ (i + k = 1 => k = 0)
      BY <1>3, <1>5
    <2>2. u[i] = v[i + k]
      BY <1>3, <1>4, <1>5
    <2>3. v[i + k] \in Digit \/ (i + k = 1 /\ v[1] = "-")
      BY <1>5, <2>1 DEF SignedDigits
    <2>4. ~(i + k = 1 /\ v[1] = "-")
      BY <1>3, <1>5, <1>7, <2>1
    <2>5. QED BY <2>2, <2>3, <2>4
  <1>10. DOMAIN u = 1 .. n - k
    BY <1>3, <1>4, <1>5
  <1>11. ToSet(u) \subseteq Digit
    BY <1>9, <1>10 DEF ToSet
  <1>12. QED BY <1>4, <1>8, <1>11 DEF IsInteger

\* The first place of a symbol.
LEMMA AtIs ==
    ASSUME NEW S, NEW v \in Seq(S), NEW c, NEW k \in 1 .. Len(v), v[k] = c,
           \A i \in 1 .. k - 1 : v[i] # c
    PROVE  At(v, c) = k
  <1>2. PICK I : I = {i \in DOMAIN v : v[i] = c}
    OBVIOUS
  <1>3. k \in I /\ \A y \in I : k <= y
    BY <1>2
  <1>4. \A x \in I : (\A y \in I : x <= y) => x = k
    BY <1>2, <1>3
  <1>5. Min(I) = k
    BY <1>3, <1>4 DEF Min
  <1>6. QED BY <1>2, <1>3, <1>5 DEF At, FirstOf

\* Where a symbol would be that is not there.
LEMMA AtNone ==
    ASSUME NEW S, NEW v \in Seq(S), NEW c, \A i \in 1 .. Len(v) : v[i] # c
    PROVE  At(v, c) = Len(v) + 1 /\ c \notin ToSet(v)
  <1>1. c \notin ToSet(v)
    BY DEF ToSet
  <1>2. {i \in DOMAIN v : v[i] = c} = {}
    OBVIOUS
  <1>3. QED BY <1>1, <1>2 DEF At, FirstOf

\* The fixed part of a number is one for strtod.
LEMMA FixedIs ==
    ASSUME NEW S, NEW v \in Seq(S), Fixed(v, Len(v)), NEW m, m = Unsigned(v)
    PROVE  /\ ToSet(m) \subseteq Digit \cup {"."} /\ ToSet(m) \cap Digit # {}
           /\ \A i, j \in DOMAIN m : m[i] = "." /\ m[j] = "." => i = j
  <1>1. "-" \notin Digit
    BY DigitIs
  <1>2. \A i \in 1 .. Len(v) : v[i] = "-" => i = 1
    BY <1>1 DEF Fixed, SignedDigits
  <1>3. PICK k \in Nat :
           /\ Unsigned(v) \in Seq(S) /\ Len(Unsigned(v)) = Len(v) - k
           /\ \A i \in 1 .. Len(v) - k : Unsigned(v)[i] = v[i + k]
           /\ k <= Len(v) /\ (k = 0 \/ k = 1) /\ (k = 1 <=> v # <<>> /\ v[1] = "-")
    BY <1>2, UnsignedIs
  <1>5. PICK n \in Nat : n = Len(v)
    OBVIOUS
  <1>6. PICK j \in 1 .. n : v[j] \in Digit
    BY <1>5 DEF Fixed, SignedDigits
  <1>7. n - k > 0 /\ j - k \in 1 .. n - k
    <2>1. k = 1 => j # 1
      BY <1>1, <1>3, <1>6
    <2>2. QED BY <1>3, <1>5, <2>1
  <1>8. DOMAIN m = 1 .. n - k /\ \A i \in 1 .. n - k : m[i] = v[i + k] /\ i + k \in 1 .. n
    <2>1. \A i \in 1 .. n - k : i + k \in 1 .. n
      BY <1>3, <1>5
    <2>2. QED BY <1>3, <1>5, <2>1
  <1>9. ASSUME NEW i \in 1 .. n - k PROVE m[i] \in Digit \cup {"."}
    <2>1. i + k \in 1 .. n /\ (i + k = 1 => k = 0)
      BY <1>3, <1>5
    <2>2. m[i] = v[i + k]
      BY <1>8
    <2>3. v[i + k] \in Digit \cup {"."} \/ (i + k = 1 /\ v[1] = "-")
      BY <1>5, <2>1 DEF Fixed, SignedDigits
    <2>4. ~(i + k = 1 /\ v[1] = "-")
      BY <1>3, <1>5, <1>7, <2>1
    <2>5. QED BY <2>2, <2>3, <2>4
  <1>10. ToSet(m) \subseteq Digit \cup {"."}
    BY <1>8, <1>9 DEF ToSet
  <1>11. ToSet(m) \cap Digit # {}
    <2>1. m[j - k] = v[j]
      <3>1. m[j - k] = v[(j - k) + k]
        BY <1>7, <1>8
      <3>2. (j - k) + k = j
        BY <1>3
      <3>3. QED BY <3>1, <3>2
    <2>2. m[j - k] \in ToSet(m)
      BY <1>7, <1>8 DEF ToSet
    <2>3. QED BY <1>6, <2>1, <2>2
  <1>12. ASSUME NEW x \in DOMAIN m, NEW y \in DOMAIN m, m[x] = ".", m[y] = "." PROVE x = y
    <2>1. x \in 1 .. n - k /\ y \in 1 .. n - k
      BY <1>8
    <2>2. v[x + k] = "." /\ v[y + k] = "." /\ x + k \in 1 .. n /\ y + k \in 1 .. n
      BY <1>8, <1>12, <2>1
    <2>3. x + k = y + k
      BY <1>5, <2>2 DEF Fixed
    <2>4. QED BY <1>3, <2>1, <2>3
  <1>13. QED BY <1>10, <1>11, <1>12

\* A fixed part, and an exponent or none, are a real.
LEMMA RealIs ==
    ASSUME NEW S, NEW v \in Seq(S),
           \/ Fixed(v, Len(v))
           \/ \E k \in 1 .. Len(v) : Fixed(v, k - 1) /\ Scientific(v, k)
    PROVE  IsReal(v)
  <1>1. "e" \notin Digit \cup {"."}
    BY DigitIs
  <1>2. CASE Fixed(v, Len(v))
    <2>1. \A i \in 1 .. Len(v) : v[i] # "e"
      BY <1>1, <1>2 DEF Fixed, SignedDigits
    <2>2. At(v, "e") = Len(v) + 1 /\ "e" \notin ToSet(v)
      BY <2>1, AtNone
    <2>3. Mantissa(v) = v
      BY <2>2 DEF Mantissa
    <2>4. PICK m : m = Unsigned(v)
      OBVIOUS
    <2>5. /\ ToSet(m) \subseteq Digit \cup {"."} /\ ToSet(m) \cap Digit # {}
          /\ \A i, j \in DOMAIN m : m[i] = "." /\ m[j] = "." => i = j
      BY <1>2, <2>4, FixedIs
    <2>6. QED BY <2>2, <2>3, <2>4, <2>5 DEF IsReal
  <1>3. ASSUME NEW k \in 1 .. Len(v), Fixed(v, k - 1), Scientific(v, k) PROVE IsReal(v)
    <2>1. \A i \in 1 .. k - 1 : v[i] # "e"
      BY <1>1, <1>3 DEF Fixed, SignedDigits
    <2>2. At(v, "e") = k
      BY <1>3, <2>1, AtIs DEF Scientific
    <2>3. PICK a : a = Mantissa(v)
      OBVIOUS
    <2>4. /\ a \in Seq(S) /\ Len(a) = k - 1 /\ \A i \in 1 .. k - 1 : a[i] = v[i]
      BY <2>2, <2>3 DEF Mantissa
    <2>5. Fixed(a, Len(a))
      BY <1>3, <2>4 DEF Fixed, SignedDigits
    <2>6. PICK m : m = Unsigned(a)
      OBVIOUS
    <2>7. /\ ToSet(m) \subseteq Digit \cup {"."} /\ ToSet(m) \cap Digit # {}
          /\ \A i, j \in DOMAIN m : m[i] = "." /\ m[j] = "." => i = j
      BY <2>4, <2>5, <2>6, FixedIs
    <2>8. PICK b : b = Exponent(v)
      OBVIOUS
    <2>9. PICK n \in Nat : n = Len(v)
      OBVIOUS
    <2>10. /\ b \in Seq(S) /\ Len(b) = n - k /\ \A i \in 1 .. n - k : b[i] = v[i + k]
      <3>1. b = SubSeq(v, k + 1, n)
        BY <2>2, <2>8, <2>9 DEF Exponent
      <3>2. /\ Len(SubSeq(v, k + 1, n)) = n - k /\ SubSeq(v, k + 1, n) \in Seq(S)
            /\ \A i \in 1 .. n - k : SubSeq(v, k + 1, n)[i] = v[k + 1 + i - 1]
        BY <2>9
      <3>3. \A i \in 1 .. n - k : k + 1 + i - 1 = i + k
        OBVIOUS
      <3>4. QED BY <3>1, <3>2, <3>3
    <2>11. SignedDigits(b, Len(b), {})
      <3>1. ASSUME NEW i \in 1 .. n - k PROVE b[i] \in Digit \/ (i = 1 /\ b[1] = "-")
        <4>1. i + k \in k + 1 .. Len(v) /\ (i + k = k + 1 => i = 1)
          BY <2>9
        <4>2. v[i + k] \in Digit \/ (i + k = k + 1 /\ v[i + k] = "-")
          BY <1>3, <4>1 DEF Scientific
        <4>3. QED BY <2>10, <4>1, <4>2
      <3>2. PICK x \in k + 1 .. Len(v) : v[x] \in Digit
        BY <1>3 DEF Scientific
      <3>3. x - k \in 1 .. n - k /\ (x - k) + k = x
        BY <2>9
      <3>4. b[x - k] \in Digit
        BY <2>10, <3>2, <3>3
      <3>5. QED BY <2>9, <2>10, <3>1, <3>3, <3>4 DEF SignedDigits
    <2>12. IsInteger(b)
      BY <2>10, <2>11, IntegerIs
    <2>13. QED BY <2>3, <2>6, <2>7, <2>8, <2>12 DEF IsReal
  <1>4. QED BY <1>2, <1>3

-----------------------------------------------------------------------------
(* What it has saved of a string.                                           *)

\* The bytes of a text, and the NUL behind it.
ByteAt(t, i) == IF i <= Len(t) THEN t[i] ELSE "nul"

\* What Decode says of place i, with D for the places behind it.
DecodedIf(t, i, D) ==
    LET at(j) == IF j <= Len(t) THEN t[j] ELSE "nul"
        stop(how) == [how |-> how, bytes |-> <<>>]
        then(bytes, k) == [how |-> D[i + k].how, bytes |-> bytes \o D[i + k].bytes]
        x == at(i + 2)
    IN  CASE i > Len(t)    -> stop("overrun")
          [] at(i) = Quote -> stop("ok")
          [] at(i) = Backslash /\ at(i + 1) \in {Quote, Backslash} -> then(<<at(i + 1)>>, 2)
          [] at(i) = Backslash /\ at(i + 1) = "n" -> then(<<"newline">>, 2)
          [] at(i) = Backslash /\ at(i + 1) = "u" ->
                CASE x \in DOMAIN Escaped -> then(Escaped[x], 3)
                  [] x = High /\ <<at(i + 3), at(i + 4), at(i + 5)>>
                                     = <<Backslash, "u", Low>> -> then(Astral, 6)
                  [] OTHER                -> stop("invalid")
          [] at(i) = Backslash /\ at(i + 1) \notin {Quote, Backslash, "n", "u"} ->
                stop("aborted")
          [] OTHER -> then(<<at(i)>>, 1)

Decodes(D, t) == D = [i \in 2 .. Len(t) + 6 |-> DecodedIf(t, i, D)]

\* Decode is what it says of the second byte, by any of those functions.
LEMMA DecodeIs ==
    ASSUME NEW t, NEW E, E = CHOOSE D : Decodes(D, t)
    PROVE  Decode(t) = E[2]
  BY DEF Decode, Decodes, DecodedIf

\* Of finitely many sets one is in no other.
LEMMA Maximal ==
    ASSUME NEW S, IsFiniteSet(S), NEW T \in SUBSET SUBSET S, T # {}
    PROVE  \E A \in T : \A B \in T : A \subseteq B => A = B
  <1>1. PICK U : U = {S \ A : A \in T}
    OBVIOUS
  <1>2. U \subseteq FiniteSubsetsOf(S) /\ U # {} /\ U \subseteq SUBSET S
    <2>1. U # {} /\ U \subseteq SUBSET S
      <3>1. PICK A \in T : TRUE
        OBVIOUS
      <3>2. S \ A \in U
        BY <1>1
      <3>3. ASSUME NEW X \in U PROVE X \in SUBSET S
        BY <1>1
      <3>4. QED BY <3>2, <3>3
    <2>2. FiniteSubsetsOf(S) = SUBSET S
      BY FS_FiniteSubsetsOfFinite
    <2>3. QED BY <2>1, <2>2
  <1>3. PICK R : R = StrictSubsetOrdering(S)
    OBVIOUS
  <1>4. IsWellFoundedOn(R, FiniteSubsetsOf(S))
    BY <1>3, FS_StrictSubsetOrderingWellFounded
  <1>5. PICK X \in U : \A Y \in U : ~ (<<Y, X>> \in R)
    BY <1>2, <1>4, WFMin
  <1>6. PICK A \in T : X = S \ A
    BY <1>1
  <1>7. ASSUME NEW B \in T, A \subseteq B PROVE A = B
    <2>1. PICK Y \in U : Y = S \ B
      BY <1>1
    <2>2. ~(<<Y, X>> \in R)
      BY <1>5
    <2>3. <<Y, X>> \in R <=> Y \subseteq X /\ Y # X
      BY <1>2, <1>3 DEF StrictSubsetOrdering
    <2>4. Y \subseteq X
      BY <1>6, <1>7, <2>1
    <2>5. Y = X
      BY <2>2, <2>3, <2>4
    <2>6. QED BY <1>6, <1>7, <2>1, <2>5
  <1>8. QED BY <1>7

\* What holds of 0 and of the next number of each holds of all up to K.
LEMMA UpTo ==
    ASSUME NEW K \in Nat, NEW X, 0 \in X, \A k \in X \cap (0 .. K) : k < K => k + 1 \in X
    PROVE  0 .. K \subseteq X
  <1>1. PICK S : S = 0 .. K
    OBVIOUS
  <1>2. PICK T : T = {0 .. k : k \in {k \in S : 0 .. k \subseteq X}}
    OBVIOUS
  <1>3. IsFiniteSet(S)
    BY <1>1, FS_Interval
  <1>4. T \in SUBSET SUBSET S /\ T # {}
    <2>1. \A k \in S : 0 .. k \in SUBSET S
      BY <1>1
    <2>2. 0 \in S /\ 0 .. 0 \subseteq X
      BY <1>1
    <2>3. 0 .. 0 \in T
      BY <1>2, <2>2
    <2>4. T \subseteq SUBSET S
      BY <1>2, <2>1
    <2>5. QED BY <2>3, <2>4
  <1>5. PICK Y \in T : \A Z \in T : Y \subseteq Z => Y = Z
    BY <1>3, <1>4, Maximal
  <1>6. PICK k \in S : 0 .. k \subseteq X /\ Y = 0 .. k
    BY <1>2
  <1>7. CASE k = K
    BY <1>6, <1>7
  <1>8. CASE k # K
    <2>1. k \in X \cap (0 .. K) /\ k < K
      BY <1>1, <1>6, <1>8
    <2>2. k + 1 \in X
      BY <2>1
    <2>3. k + 1 \in S /\ 0 .. k + 1 \subseteq X
      BY <1>1, <1>6, <2>1, <2>2
    <2>4. 0 .. k + 1 \in T
      BY <1>2, <2>3
    <2>5. 0 .. k \subseteq 0 .. k + 1
      BY <1>1
    <2>6. 0 .. k = 0 .. k + 1
      BY <1>5, <1>6, <2>4, <2>5
    <2>7. k + 1 \in 0 .. k + 1 /\ k + 1 \notin 0 .. k
      BY <1>1
    <2>8. QED BY <2>6, <2>7
  <1>9. QED BY <1>7, <1>8

\* It asks for the six places behind i only, and for none behind the text.
LEMMA DecodedSame ==
    ASSUME NEW t, NEW i \in Nat, Len(t) \in Nat, NEW D, NEW E,
           i <= Len(t) => \A k \in 1 .. 6 : D[i + k] = E[i + k]
    PROVE  DecodedIf(t, i, D) = DecodedIf(t, i, E)
  <1>1. CASE i > Len(t)
    <2>1. ~(i <= Len(t)) /\ Quote # "nul" /\ Backslash # "nul"
      BY <1>1 DEF Quote, Backslash
    <2>2. \A F : DecodedIf(t, i, F) = [how |-> "overrun", bytes |-> <<>>]
      BY <1>1, <2>1 DEF DecodedIf
    <2>3. QED BY <2>2
  <1>2. CASE ~(i > Len(t))
    <2>1. D[i + 1] = E[i + 1] /\ D[i + 2] = E[i + 2] /\ D[i + 3] = E[i + 3] /\ D[i + 6] = E[i + 6]
      BY <1>2
    <2>2. QED BY <2>1 DEF DecodedIf
  <1>3. QED BY <1>1, <1>2

\* The loop over a text is well-defined, from its end on.
LEMMA SomeDecodes ==
    ASSUME NEW S, NEW t \in Seq(S), t # <<>> PROVE \E D : Decodes(D, t)
  <1>1. PICK L \in Nat : L = Len(t) /\ L > 0
    OBVIOUS
  <1> DEFINE From(D, j) == D = [i \in j .. L + 6 |-> DecodedIf(t, i, D)]
  <1>2. PICK X : X = {k \in 0 .. L - 1 : \E D : From(D, L + 1 - k)}
    OBVIOUS
  <1>3. 0 \in X
    <2>1. PICK D : D = [i \in L + 1 .. L + 6 |-> DecodedIf(t, i, <<>>)]
      OBVIOUS
    <2>2. ASSUME NEW i \in L + 1 .. L + 6 PROVE DecodedIf(t, i, <<>>) = DecodedIf(t, i, D)
      <3>1. i \in Nat /\ ~(i <= Len(t))
        BY <1>1
      <3>2. QED BY <1>1, <3>1, DecodedSame
    <2>3. D = [i \in L + 1 .. L + 6 |-> DecodedIf(t, i, D)]
      BY <2>1, <2>2
    <2>4. 0 \in 0 .. L - 1 /\ L + 1 - 0 = L + 1
      BY <1>1
    <2>5. \E E : From(E, L + 1 - 0)
      BY <2>3, <2>4
    <2>6. QED BY <1>2, <2>4, <2>5
  <1>4. ASSUME NEW k \in X \cap (0 .. L - 1), k < L - 1 PROVE k + 1 \in X
    <2>0. PICK j \in Nat : j = L + 1 - k /\ j > 2 /\ j <= L + 1
      BY <1>1, <1>4
    <2>1. PICK F : From(F, j)
      BY <1>2, <2>0
    <2>2. F = [i \in j .. L + 6 |-> DecodedIf(t, i, F)]
      BY <2>1
    <2>3. PICK G : G = [i \in j - 1 .. L + 6 |-> IF i = j - 1 THEN DecodedIf(t, i, F) ELSE F[i]]
      OBVIOUS
    <2>4. ASSUME NEW i \in j - 1 .. L + 6 PROVE G[i] = DecodedIf(t, i, G)
      <3>1. i \in Nat /\ Len(t) \in Nat
        BY <1>1, <2>0
      <3>2. ASSUME i <= Len(t), NEW m \in 1 .. 6 PROVE F[i + m] = G[i + m]
        <4>1. i + m \in j - 1 .. L + 6 /\ i + m # j - 1
          BY <1>1, <2>0, <3>1, <3>2
        <4>2. QED BY <2>3, <4>1
      <3>3. DecodedIf(t, i, F) = DecodedIf(t, i, G)
        BY <3>1, <3>2, DecodedSame
      <3>4. CASE i = j - 1
        BY <2>3, <3>3, <3>4
      <3>5. CASE i # j - 1
        <4>1. i \in j .. L + 6
          BY <2>0, <3>5
        <4>2. G[i] = F[i] /\ F[i] = DecodedIf(t, i, F)
          BY <2>2, <2>3, <3>5, <4>1
        <4>3. QED BY <3>3, <4>2
      <3>6. QED BY <3>4, <3>5
    <2>5. G = [i \in j - 1 .. L + 6 |-> DecodedIf(t, i, G)]
      BY <2>3, <2>4
    <2>6. k + 1 \in 0 .. L - 1 /\ L + 1 - (k + 1) = j - 1
      BY <1>1, <1>4, <2>0
    <2>7. \E H : From(H, L + 1 - (k + 1))
      BY <2>5, <2>6
    <2>8. QED BY <1>2, <2>6, <2>7
  <1> HIDE DEF From
  <1>5. L - 1 \in X
    <2>1. 0 .. L - 1 \subseteq X
      BY <1>1, <1>3, <1>4, UpTo
    <2>2. QED BY <1>1, <2>1
  <1>6. PICK D : From(D, L + 1 - (L - 1))
    BY <1>2, <1>5
  <1>7. L + 1 - (L - 1) = 2
    BY <1>1
  <1>8. QED BY <1>1, <1>6, <1>7 DEF From, Decodes

\* A place of a text where a byte or an escape begins, with the places P.
Unit(v, P, i) ==
    \/ v[i] \notin {Quote, Backslash} /\ i + 1 \in P
    \/ v[i] = Backslash /\ v[i + 1] \in {Quote, Backslash, "n"} /\ i + 2 \in P
    \/ v[i] = Backslash /\ v[i + 1] = "u" /\ i + 3 \in P

\* The first n bytes of a text are a quote and units.
Units(v, P, n) ==
    /\ P \subseteq 2 .. n + 1 /\ 2 \in P /\ n + 1 \in P
    /\ \A i \in P : i <= n => Unit(v, P, i)

\* The loop ends at the closing quote, or at an escape of no character.
LEMMA DecodeEnds ==
    ASSUME NEW S, NEW t \in Seq(S), NEW n \in Nat, Len(t) = n + 1, NEW P, Units(t, P, n),
           t[n + 1] = Quote
    PROVE  Decode(t).how \in {"ok", "invalid"}
  <1>1. PICK E : E = CHOOSE D : Decodes(D, t)
    OBVIOUS
  <1>2. Decodes(E, t)
    BY <1>1, SomeDecodes
  <1>3. ASSUME NEW i \in 2 .. n + 1 PROVE E[i] = DecodedIf(t, i, E)
    <2>1. i \in 2 .. Len(t) + 6
      OBVIOUS
    <2>2. QED BY <1>2, <2>1 DEF Decodes
  <1>4. PICK X : X = {k \in 0 .. n : \A i \in P : i >= n + 1 - k => E[i].how \in {"ok", "invalid"}}
    OBVIOUS
  <1>5. 0 \in X
    <2>1. ASSUME NEW i \in P, i >= n + 1 - 0 PROVE E[i].how \in {"ok", "invalid"}
      <3>1. i = n + 1 /\ i \in 2 .. n + 1
        BY <2>1 DEF Units
      <3>2. DecodedIf(t, i, E).how = "ok"
        <4>1. ~(i > Len(t)) /\ i <= Len(t) /\ t[i] = Quote /\ Quote # Backslash
          <5>1. ~(i > Len(t)) /\ i <= Len(t) /\ t[i] = Quote
            BY <3>1
          <5>2. QED BY <5>1 DEF Quote, Backslash
        <4>2. DecodedIf(t, i, E) = [how |-> "ok", bytes |-> <<>>]
          BY <4>1 DEF DecodedIf
        <4>3. QED BY <4>2
      <3>3. QED BY <1>3, <3>1, <3>2
    <2>2. QED BY <1>4, <2>1
  <1>6. ASSUME NEW k \in X \cap (0 .. n), k < n PROVE k + 1 \in X
    <2>1. ASSUME NEW i \in P, i >= n + 1 - (k + 1) PROVE E[i].how \in {"ok", "invalid"}
      <3>1. i \in 2 .. n + 1 /\ i \in Nat
        BY DEF Units
      <3>2. CASE i >= n + 1 - k
        BY <1>4, <3>2
      <3>3. CASE i < n + 1 - k
        <4>1. i <= n
          BY <3>1, <3>3
        <4>2. ASSUME NEW m \in {1, 2, 3, 6}, i + m \in P PROVE E[i + m].how \in {"ok", "invalid"}
          <5>1. i + m >= n + 1 - k
            BY <2>1, <3>1
          <5>2. QED BY <1>4, <4>2, <5>1
        <4>3. E[i].how = DecodedIf(t, i, E).how
          BY <1>3, <3>1
        <4>4. CASE t[i] \notin {Quote, Backslash} /\ i + 1 \in P
          <5>1. DecodedIf(t, i, E).how = E[i + 1].how
            BY <4>1, <4>4, <3>1 DEF DecodedIf
          <5>2. QED BY <4>2, <4>3, <4>4, <5>1
        <4>5. CASE t[i] = Backslash /\ t[i + 1] \in {Quote, Backslash, "n"} /\ i + 2 \in P
          <5>1. i + 1 <= Len(t) /\ i <= Len(t) /\ ~(i > Len(t))
            BY <3>1, <4>1
          <5>2. /\ Quote # Backslash /\ Quote # "n" /\ Backslash # "n"
                /\ "u" \notin {Quote, Backslash, "n"}
            BY DEF Quote, Backslash
          <5>3. CASE t[i + 1] \in {Quote, Backslash}
            <6>1. DecodedIf(t, i, E) = [how |-> E[i + 2].how, bytes |-> <<t[i + 1]>> \o E[i + 2].bytes]
              BY ONLY <4>5, <5>1, <5>2, <5>3 DEF DecodedIf
            <6>2. QED BY <4>2, <4>3, <4>5, <6>1
          <5>4. CASE t[i + 1] = "n"
            <6>1. DecodedIf(t, i, E) = [how |-> E[i + 2].how, bytes |-> <<"newline">> \o E[i + 2].bytes]
              BY ONLY <4>5, <5>1, <5>2, <5>4 DEF DecodedIf
            <6>2. QED BY <4>2, <4>3, <4>5, <6>1
          <5>5. QED BY <4>5, <5>3, <5>4
        <4>6. CASE t[i] = Backslash /\ t[i + 1] = "u" /\ i + 3 \in P
          <5>1. i + 1 <= Len(t) /\ i + 3 <= n + 1
            BY <4>1, <4>6, <3>1 DEF Units
          <5>2. PICK q \in BOOLEAN : q = (<<ByteAt(t, i + 3), ByteAt(t, i + 4), ByteAt(t, i + 5)>>
                                             = <<Backslash, "u", Low>>)
            OBVIOUS
          <5>3. \/ DecodedIf(t, i, E).how = E[i + 3].how
                \/ DecodedIf(t, i, E).how = E[i + 6].how /\ q
                \/ DecodedIf(t, i, E).how = "invalid"
            <6>1. i <= Len(t) /\ ~(i > Len(t))
              BY <3>1, <4>1
            <6>2. /\ Quote # Backslash
                  /\ "u" \notin {Quote, Backslash, "n"}
              BY DEF Quote, Backslash
            <6>3. DecodedIf(t, i, E) =
                    CASE ByteAt(t, i + 2) \in DOMAIN Escaped ->
                            [how |-> E[i + 3].how, bytes |-> Escaped[ByteAt(t, i + 2)] \o E[i + 3].bytes]
                      [] ByteAt(t, i + 2) = High /\ q ->
                            [how |-> E[i + 6].how, bytes |-> Astral \o E[i + 6].bytes]
                      [] OTHER -> [how |-> "invalid", bytes |-> <<>>]
              BY ONLY <4>6, <5>1, <5>2, <6>1, <6>2 DEF DecodedIf, ByteAt
            <6>4. QED BY <6>3
          <5>4. q => i + 6 \in P
            <6>1. SUFFICES ASSUME q PROVE i + 6 \in P
              OBVIOUS
            <6>2. ByteAt(t, i + 3) = Backslash /\ ByteAt(t, i + 4) = "u"
              BY <5>2, <6>1
            <6>3. t[i + 3] = Backslash
              BY <3>1, <5>1, <6>2 DEF ByteAt
            <6>4. i + 3 # n + 1
              BY <6>3 DEF Quote, Backslash
            <6>5. i + 3 <= n /\ i + 4 <= Len(t)
              BY <3>1, <5>1, <6>4
            <6>6. t[i + 4] = "u"
              BY <3>1, <6>2, <6>5 DEF ByteAt
            <6>7. Unit(t, P, i + 3)
              BY <4>6, <6>5 DEF Units
            <6>8. i + 3 + 1 = i + 4 /\ i + 3 + 3 = i + 6
              BY <3>1
            <6>9. QED BY <6>3, <6>6, <6>7, <6>8 DEF Unit, Quote, Backslash
          <5>5. QED BY <4>2, <4>3, <4>6, <5>3, <5>4
        <4>7. Unit(t, P, i)
          BY <4>1 DEF Units
        <4>8. QED BY <4>4, <4>5, <4>6, <4>7 DEF Unit
      <3>4. QED BY <3>1, <3>2, <3>3
    <2>2. k + 1 \in 0 .. n
      BY <1>6
    <2>3. QED BY <1>4, <2>1, <2>2
  <1>7. n \in X
    <2>1. 0 .. n \subseteq X
      BY <1>5, <1>6, UpTo
    <2>2. QED BY <2>1
  <1>8. 2 \in P /\ 2 >= n + 1 - n
    BY DEF Units
  <1>9. E[2].how \in {"ok", "invalid"}
    BY <1>4, <1>7, <1>8
  <1>10. QED BY <1>1, <1>9, DecodeIs

-----------------------------------------------------------------------------
(* What is saved between two bytes.                                         *)

\* w is v with one byte more.
Longer(v, w, c) ==
    /\ \E S : w \in Seq(S)
    /\ Len(w) = Len(v) + 1 /\ w[Len(v) + 1] = c
    /\ \A i \in 1 .. Len(v) : w[i] = v[i]

\* What is saved of a token that the lexical analyzer is in.
NumberSaved(v, l) ==
    LET n == Len(v)
    IN  /\ l = "minus" => n = 1 /\ v[1] = "-"
        /\ l \in {"zero", "digits"} => SignedDigits(v, n, {})
        /\ l = "point" => n > 0 /\ SignedDigits(v, n - 1, {}) /\ v[n] = "."
        /\ l = "fraction" => Fixed(v, n)
        /\ l = "exponent" => n > 0 /\ Fixed(v, n - 1) /\ v[n] = "e"
        /\ l = "sign" => n > 1 /\ Fixed(v, n - 2) /\ v[n - 1] = "e" /\ v[n] = "-"
        /\ l = "power" => \E k \in 1 .. n : Fixed(v, k - 1) /\ Scientific(v, k)

StringSaved(v, l) ==
    LET n == Len(v)
    IN  /\ l = "string" => n > 0 /\ \E P : Units(v, P, n)
        /\ l = "escape" => n > 1 /\ v[n] = Backslash /\ \E P : Units(v, P, n - 1)
        /\ l = "hex" => n > 2 /\ v[n - 1] = Backslash /\ v[n] = "u" /\ \E P : Units(v, P, n - 2)

\* A byte appended is the last one.
LEMMA LongerIs ==
    ASSUME NEW S, NEW v \in Seq(S), NEW c PROVE Longer(v, v \o <<c>>, c)
  <1>1. PICK T : T = S \cup {c}
    OBVIOUS
  <1>2. v \in Seq(T) /\ <<c>> \in Seq(T) /\ v \o <<c>> \in Seq(T)
    BY <1>1
  <1>3. Len(v \o <<c>>) = Len(v) + 1 /\ (v \o <<c>>)[Len(v) + 1] = c
    BY <1>2
  <1>4. \A i \in 1 .. Len(v) : (v \o <<c>>)[i] = v[i]
    BY <1>2
  <1>5. QED BY <1>2, <1>3, <1>4 DEF Longer

\* The digits of a number go on.
LEMMA DigitsGoOn ==
    ASSUME NEW v, Len(v) \in Nat, NEW w, NEW c \in Digit, Longer(v, w, c)
    PROVE  /\ Len(v) = 1 /\ v[1] = "-" => SignedDigits(w, Len(w), {})
           /\ SignedDigits(v, Len(v), {}) => SignedDigits(w, Len(w), {})
           /\ Len(v) > 0 /\ SignedDigits(v, Len(v) - 1, {}) /\ v[Len(v)] = "." => Fixed(w, Len(w))
           /\ Fixed(v, Len(v)) => Fixed(w, Len(w))
  <1>1. PICK n \in Nat : n = Len(v) /\ Len(w) = n + 1 /\ w[n + 1] = c /\ \A i \in 1 .. n : w[i] = v[i]
    BY DEF Longer
  <1>2. "." \notin Digit /\ n + 1 \in 1 .. n + 1
    BY <1>1, DigitIs
  <1>3. ASSUME n = 1, v[1] = "-" PROVE SignedDigits(w, n + 1, {})
    BY <1>1, <1>2, <1>3 DEF SignedDigits
  <1>4. ASSUME NEW X, SignedDigits(v, n, X) PROVE SignedDigits(w, n + 1, X)
    BY <1>1, <1>2, <1>4 DEF SignedDigits
  <1>5. ASSUME n > 0, SignedDigits(v, n - 1, {}), v[n] = "." PROVE Fixed(w, n + 1)
    <2>1. SignedDigits(w, n + 1, {"."})
      <3>1. ASSUME NEW i \in 1 .. n + 1 PROVE w[i] \in Digit \cup {"."} \/ (i = 1 /\ w[1] = "-")
        <4>1. CASE i \in 1 .. n - 1
          BY <1>1, <1>5, <4>1 DEF SignedDigits
        <4>2. CASE i = n
          BY <1>1, <1>5, <4>2
        <4>3. CASE i = n + 1
          BY <1>1, <4>3
        <4>4. QED BY <1>1, <4>1, <4>2, <4>3
      <3>2. QED BY <1>1, <1>2, <3>1 DEF SignedDigits
    <2>2. ASSUME NEW i \in 1 .. n + 1, w[i] = "." PROVE i = n
      <3>1. i # n + 1
        BY <1>1, <1>2, <2>2
      <3>2. CASE i \in 1 .. n - 1
        <4>1. v[i] = "."
          BY <1>1, <2>2, <3>2
        <4>2. QED BY <1>2, <1>5, <3>2, <4>1 DEF SignedDigits
      <3>3. QED BY <1>1, <3>1, <3>2
    <2>3. QED BY <2>1, <2>2 DEF Fixed
  <1>6. ASSUME Fixed(v, n) PROVE Fixed(w, n + 1)
    <2>1. SignedDigits(w, n + 1, {"."})
      BY <1>4, <1>6 DEF Fixed
    <2>2. ASSUME NEW i \in 1 .. n + 1, w[i] = "." PROVE i \in 1 .. n /\ v[i] = "."
      BY <1>1, <1>2, <2>2
    <2>3. QED BY <1>6, <2>1, <2>2 DEF Fixed
  <1>7. QED BY <1>1, <1>3, <1>4, <1>5, <1>6

\* The fixed part of a longer text.
LEMMA FixedSame ==
    ASSUME NEW v, NEW w, NEW k \in Nat, \A i \in 1 .. k : w[i] = v[i]
    PROVE  /\ \A X : SignedDigits(v, k, X) => SignedDigits(w, k, X)
           /\ SignedDigits(v, k, {}) => Fixed(w, k)
           /\ Fixed(v, k) => Fixed(w, k)
  <1>1. ASSUME NEW X, SignedDigits(v, k, X) PROVE SignedDigits(w, k, X)
    BY <1>1 DEF SignedDigits
  <1>2. ASSUME SignedDigits(v, k, {}) PROVE Fixed(w, k)
    <2>1. "." \notin Digit
      BY DigitIs
    <2>2. \A i \in 1 .. k : w[i] # "."
      BY <1>2, <2>1 DEF SignedDigits
    <2>3. SignedDigits(w, k, {"."})
      BY <1>2 DEF SignedDigits
    <2>4. QED BY <2>2, <2>3 DEF Fixed
  <1>3. ASSUME Fixed(v, k) PROVE Fixed(w, k)
    BY <1>1, <1>3 DEF Fixed
  <1>4. QED BY <1>1, <1>2, <1>3

\* The exponent of a number begins, and goes on.
LEMMA ExponentGoesOn ==
    ASSUME NEW v, Len(v) \in Nat, NEW w, NEW c \in Digit, Longer(v, w, c),
           \/ Len(v) > 0 /\ Fixed(v, Len(v) - 1) /\ v[Len(v)] = "e"
           \/ Len(v) > 1 /\ Fixed(v, Len(v) - 2) /\ v[Len(v) - 1] = "e" /\ v[Len(v)] = "-"
           \/ \E k \in 1 .. Len(v) : Fixed(v, k - 1) /\ Scientific(v, k)
    PROVE  \E k \in 1 .. Len(w) : Fixed(w, k - 1) /\ Scientific(w, k)
  <1>1. PICK n \in Nat : n = Len(v) /\ Len(w) = n + 1 /\ w[n + 1] = c /\ \A i \in 1 .. n : w[i] = v[i]
    BY DEF Longer
  <1>2. ASSUME NEW k \in 1 .. n, Fixed(v, k - 1) PROVE Fixed(w, k - 1)
    <2>1. k - 1 \in Nat /\ \A i \in 1 .. k - 1 : w[i] = v[i]
      BY <1>1
    <2>2. QED BY <1>2, <2>1, FixedSame
  <1>3. CASE n > 0 /\ Fixed(v, n - 1) /\ v[n] = "e"
    <2>1. n \in 1 .. n /\ n \in 1 .. n + 1
      BY <1>3
    <2>2. Scientific(w, n)
      BY <1>1, <1>3 DEF Scientific
    <2>3. QED BY <1>1, <1>2, <1>3, <2>1, <2>2
  <1>4. CASE n > 1 /\ Fixed(v, n - 2) /\ v[n - 1] = "e" /\ v[n] = "-"
    <2>1. n - 1 \in 1 .. n /\ n - 1 \in 1 .. n + 1 /\ n - 1 - 1 = n - 2
      BY <1>4
    <2>2. Scientific(w, n - 1)
      BY <1>1, <1>4 DEF Scientific
    <2>3. Fixed(w, n - 1 - 1)
      BY <1>2, <1>4, <2>1
    <2>4. QED BY <1>1, <2>1, <2>2, <2>3
  <1>5. ASSUME NEW k \in 1 .. n, Fixed(v, k - 1), Scientific(v, k)
        PROVE  \E j \in 1 .. n + 1 : Fixed(w, j - 1) /\ Scientific(w, j)
    <2>1. Fixed(w, k - 1)
      BY <1>2, <1>5
    <2>2. w[k] = "e"
      BY <1>1, <1>5 DEF Scientific
    <2>3. ASSUME NEW i \in k + 1 .. n + 1 PROVE w[i] \in Digit \/ (i = k + 1 /\ w[i] = "-")
      BY <1>1, <1>5 DEF Scientific
    <2>4. n + 1 \in k + 1 .. n + 1 /\ w[n + 1] \in Digit /\ k \in 1 .. n + 1
      BY <1>1
    <2>5. Scientific(w, k)
      BY <1>1, <2>2, <2>3, <2>4 DEF Scientific
    <2>6. QED BY <2>1, <2>4, <2>5
  <1>6. QED BY <1>1, <1>3, <1>4, <1>5

\* The places of a text are places of one that begins with it.
LEMMA UnitsSame ==
    ASSUME NEW v, NEW w, NEW n \in Nat, NEW P, Units(v, P, n), \A i \in 1 .. n : w[i] = v[i]
    PROVE  Units(w, P, n)
  <1>1. ASSUME NEW i \in P, i <= n PROVE Unit(w, P, i)
    <2>1. i \in 1 .. n /\ w[i] = v[i] /\ Unit(v, P, i)
      BY <1>1 DEF Units
    <2>2. ASSUME NEW m \in {2, 3}, i + m \in P PROVE w[i + 1] = v[i + 1]
      <3>1. i + 1 \in 1 .. n
        BY <2>1, <2>2 DEF Units
      <3>2. QED BY <3>1
    <2>3. QED BY <2>1, <2>2 DEF Unit
  <1>2. QED BY <1>1 DEF Units

\* One more byte, or an escape, begins behind the places of a text.
LEMMA UnitsMore ==
    ASSUME NEW v, NEW n \in Nat, NEW k \in Nat, k > 0, NEW P, Units(v, P, n),
           Unit(v, {n + k + 1}, n + 1)
    PROVE  Units(v, P \cup {n + k + 1}, n + k)
  <1>1. PICK Q : Q = P \cup {n + k + 1}
    OBVIOUS
  <1>2. Q \subseteq 2 .. n + k + 1 /\ 2 \in Q /\ n + k + 1 \in Q
    BY <1>1 DEF Units
  <1>3. ASSUME NEW i \in Q, i <= n + k PROVE Unit(v, Q, i)
    <2>1. i \in P /\ i <= n + 1 /\ i \in Nat
      BY <1>1, <1>3 DEF Units
    <2>2. CASE i = n + 1
      BY <1>1, <2>2 DEF Unit
    <2>3. CASE i # n + 1
      <3>1. Unit(v, P, i)
        BY <2>1, <2>3 DEF Units
      <3>2. QED BY <1>1, <3>1 DEF Unit
    <2>4. QED BY <2>2, <2>3
  <1>4. QED BY <1>1, <1>2, <1>3 DEF Units

\* What is saved of a string goes on with a byte.
LEMMA StringGoesOn ==
    ASSUME NEW v, Len(v) \in Nat, NEW w, NEW c, Longer(v, w, c)
    PROVE  /\ StringSaved(v, "string") /\ c = Backslash => StringSaved(w, "escape")
           /\ StringSaved(v, "string") /\ c \notin {Quote, Backslash} => StringSaved(w, "string")
           /\ StringSaved(v, "escape") /\ c = "u" => StringSaved(w, "hex")
           /\ StringSaved(v, "escape") /\ c \in {Quote, Backslash, "n"} => StringSaved(w, "string")
           /\ StringSaved(v, "hex") => StringSaved(w, "string")
           /\ StringSaved(v, "string") /\ c = Quote => Decode(w).how \in {"ok", "invalid"}
  <1>1. PICK n \in Nat : n = Len(v) /\ Len(w) = n + 1 /\ w[n + 1] = c /\ \A i \in 1 .. n : w[i] = v[i]
    BY DEF Longer
  <1>2. ASSUME NEW k \in 0 .. n, NEW P, Units(v, P, k) PROVE Units(w, P, k)
    <2>1. k \in Nat /\ \A i \in 1 .. k : w[i] = v[i]
      BY <1>1
    <2>2. QED BY <1>2, <2>1, UnitsSame
  <1>3. ASSUME NEW k \in Nat, NEW m \in Nat, m > 0, k + m = n + 1, NEW P, Units(v, P, k),
               Unit(w, {k + m + 1}, k + 1)
        PROVE  \E Q : Units(w, Q, n + 1)
    <2>1. k \in 0 .. n
      BY <1>3
    <2>2. Units(w, P, k)
      BY <1>2, <1>3, <2>1
    <2>3. Units(w, P \cup {k + m + 1}, k + m)
      BY <1>3, <2>2, UnitsMore
    <2>4. QED BY <1>3, <2>3
  <1>4. ASSUME StringSaved(v, "string")
        PROVE  /\ c = Backslash => StringSaved(w, "escape")
               /\ c \notin {Quote, Backslash} => StringSaved(w, "string")
               /\ c = Quote => Decode(w).how \in {"ok", "invalid"}
    <2>1. PICK P : Units(v, P, n) /\ n > 0
      BY <1>1, <1>4 DEF StringSaved
    <2>2. Units(w, P, n) /\ n + 1 - 1 = n
      BY <1>1, <1>2, <2>1
    <2>3. ASSUME c = Backslash PROVE StringSaved(w, "escape")
      BY <1>1, <2>1, <2>2, <2>3 DEF StringSaved
    <2>4. ASSUME c \notin {Quote, Backslash} PROVE StringSaved(w, "string")
      <3>1. Unit(w, {n + 1 + 1}, n + 1)
        BY <1>1, <2>4 DEF Unit
      <3>2. \E Q : Units(w, Q, n + 1)
        BY <1>3, <2>1, <3>1
      <3>3. QED BY <1>1, <3>2 DEF StringSaved
    <2>5. ASSUME c = Quote PROVE Decode(w).how \in {"ok", "invalid"}
      <3>1. PICK S : w \in Seq(S)
        BY DEF Longer
      <3>2. QED BY <1>1, <2>2, <2>5, <3>1, DecodeEnds
    <2>6. QED BY <2>3, <2>4, <2>5
  <1>5. ASSUME StringSaved(v, "escape")
        PROVE  /\ c = "u" => StringSaved(w, "hex")
               /\ c \in {Quote, Backslash, "n"} => StringSaved(w, "string")
    <2>1. PICK P : Units(v, P, n - 1) /\ n > 1 /\ v[n] = Backslash
      BY <1>1, <1>5 DEF StringSaved
    <2>2. PICK k \in Nat : k = n - 1 /\ k + 1 = n /\ k + 2 = n + 1
      BY <2>1
    <2>3. w[n] = Backslash /\ w[n + 1] = c
      BY <1>1, <2>1
    <2>4. ASSUME c = "u" PROVE StringSaved(w, "hex")
      <3>1. Units(w, P, k) /\ n + 1 - 2 = k /\ n + 1 - 1 = n
        BY <1>2, <2>1, <2>2
      <3>2. QED BY <1>1, <2>1, <2>3, <2>4, <3>1 DEF StringSaved
    <2>5. ASSUME c \in {Quote, Backslash, "n"} PROVE StringSaved(w, "string")
      <3>1. k + 1 + 1 = n + 1 /\ k + 1 + 2 = k + 2 + 1
        BY <2>2
      <3>2. Unit(w, {k + 2 + 1}, k + 1)
        BY <2>2, <2>3, <2>5, <3>1 DEF Unit
      <3>3. \E Q : Units(w, Q, n + 1)
        BY <1>3, <2>1, <2>2, <3>2
      <3>4. QED BY <1>1, <3>3 DEF StringSaved
    <2>6. QED BY <2>4, <2>5
  <1>6. ASSUME StringSaved(v, "hex") PROVE StringSaved(w, "string")
    <2>1. PICK P : Units(v, P, n - 2) /\ n > 2 /\ v[n - 1] = Backslash /\ v[n] = "u"
      BY <1>1, <1>6 DEF StringSaved
    <2>2. PICK k \in Nat : k = n - 2 /\ k + 1 = n - 1 /\ k + 3 = n + 1
      BY <2>1
    <2>3. w[n - 1] = Backslash /\ w[n] = "u"
      BY <1>1, <2>1
    <2>4. k + 1 + 1 = n /\ k + 1 + 3 = k + 3 + 1
      BY <2>2
    <2>5. Unit(w, {k + 3 + 1}, k + 1)
      BY <2>2, <2>3, <2>4 DEF Unit
    <2>6. \E Q : Units(w, Q, n + 1)
      BY <1>3, <2>1, <2>2, <2>5
    <2>7. QED BY <1>1, <2>6 DEF StringSaved
  <1>7. QED BY <1>4, <1>5, <1>6

-----------------------------------------------------------------------------
(* The lexical analyzer.                                                    *)

\* A buffer that is a text.
TextBuffer(b) == b = [value |-> b.value, size |-> b.size] /\ \E S : b.value \in Seq(S)

\* It holds what is read of the token that the lexical analyzer is in.
SavedFits(b, l) == TextBuffer(b) /\ NumberSaved(b.value, l) /\ StringSaved(b.value, l)

\* lex_save of the end of the text does nothing, and of a byte appends it or fails.
LEMMA SavesIs ==
    ASSUME TextBuffer(saved), NEW c, NEW r \in Saves(c)
    PROVE  /\ c \in End => r.ok = TRUE /\ r.buffer = saved
           /\ c \notin End /\ r.ok => /\ TextBuffer(r.buffer)
                                      /\ r.buffer.value = saved.value \o <<c>>
                                      /\ Longer(saved.value, r.buffer.value, c)
  <1>1. PICK S : saved.value \in Seq(S)
    BY DEF TextBuffer
  <1>2. PICK w : w = saved.value \o <<c>>
    OBVIOUS
  <1>3. Longer(saved.value, w, c)
    BY <1>1, <1>2, LongerIs
  <1>4. CASE c \in End
    BY <1>4 DEF Saves
  <1>5. CASE c \notin End
    <2>1. r \in Appends(saved, <<c>>)
      BY <1>5 DEF Saves
    <2>2. SUFFICES ASSUME r.ok PROVE TextBuffer(r.buffer) /\ r.buffer.value = w
      BY <1>2, <1>3, <1>5
    <2>3. r.buffer = [saved EXCEPT !.value = w] \/ \E n : r.buffer = [value |-> w, size |-> n]
      <3>1. PICK s, k, A, B : /\ s = <<c>> /\ k = Len(s)
                              /\ A = (k < saved.size - Len(saved.value))
                              /\ B = (k >= saved.size - Len(saved.value) /\ Overflows(saved, k))
        OBVIOUS
      <3>2. PICK yes, no, maybe :
              /\ yes = {[ok |-> TRUE, buffer |-> [saved EXCEPT !.value = w], failed |-> 0]}
              /\ no = {[ok |-> FALSE, buffer |-> saved, failed |-> 0]}
              /\ maybe = {IF m.ok
                          THEN [ok |-> TRUE, failed |-> 0,
                                buffer |-> [value |-> w, size |-> Grown(saved, k)]]
                          ELSE [ok |-> FALSE, buffer |-> saved, failed |-> m.failed] : m \in Mallocs}
        OBVIOUS
      <3>3. Appends(saved, s) = CASE A -> yes [] B -> no [] OTHER -> maybe
        BY ONLY <1>2, <3>1, <3>2 DEF Appends
      <3>4. r \in yes \/ r \in no \/ r \in maybe
        <4>1. r \in Appends(saved, s)
          BY <2>1, <3>1
        <4>2. QED BY ONLY <3>3, <4>1
      <3>5. CASE r \in yes
        BY <3>2, <3>5
      <3>6. CASE r \in no
        BY <2>2, <3>2, <3>6
      <3>7. CASE r \in maybe
        <4>1. PICK m \in Mallocs :
                 r = IF m.ok
                     THEN [ok |-> TRUE, failed |-> 0,
                           buffer |-> [value |-> w, size |-> Grown(saved, k)]]
                     ELSE [ok |-> FALSE, buffer |-> saved, failed |-> m.failed]
          BY <3>2, <3>7
        <4>2. m.ok
          BY <2>2, <4>1
        <4>3. QED BY <4>1, <4>2
      <3>8. QED BY <3>4, <3>5, <3>6, <3>7
    <2>4. \E n : r.buffer = [value |-> w, size |-> n]
      BY <2>3 DEF TextBuffer
    <2>5. PICK n : r.buffer = [value |-> w, size |-> n]
      BY <2>4
    <2>6. r.buffer.value = w /\ r.buffer = [value |-> r.buffer.value, size |-> r.buffer.size]
      BY <2>5
    <2>7. QED BY <1>3, <2>6 DEF TextBuffer, Longer
  <1>6. QED BY <1>4, <1>5

\* What a lost byte alone undoes: no assertion has failed, and while the parser runs,
\* what is saved is the beginning of a token.
Fits(l, v, b, s) == l \/ (s \notin {"aborted", "overrun"} /\ (s = "run" => SavedFits(b, v)))

\* No saved byte is looked at after a token.
LEMMA NothingToFit ==
    ASSUME NEW b, TextBuffer(b), NEW l \in {"start", "done", "word"} PROVE SavedFits(b, l)
  BY DEF SavedFits, NumberSaved, StringSaved

\* A byte is put back, and what is left is a number when it has to be one.
LEMMA PutBackFits ==
    ASSUME TextBuffer(saved), status = "run", NEW g, NEW r \in Saves(g.c), NEW type,
           PutBack(g, r, type),
           type = "integer" => IsInteger(saved.value), type = "real" => IsReal(saved.value)
    PROVE  Fits(lost', lex', saved', status')
  <1>1. /\ g.c \in End => r.ok = TRUE /\ r.buffer = saved
        /\ g.c \notin End /\ r.ok => /\ TextBuffer(r.buffer)
                                     /\ r.buffer.value = saved.value \o <<g.c>>
    BY SavesIs
  <1>2. PICK S : saved.value \in Seq(S)
    BY DEF TextBuffer
  <1>3. CASE r.ok
    <2>1. PICK left, token1 : /\ left = IF g.c \in End THEN r.buffer ELSE Popped(r.buffer)
                              /\ token1 = Token(type, left.value)
      OBVIOUS
    <2>2. TextBuffer(left) /\ left.value = saved.value
      <3>1. CASE g.c \in End
        BY <1>1, <2>1, <3>1
      <3>2. CASE g.c \notin End
        <4>1. PICK T, w : T = S \cup {g.c} /\ w = saved.value \o <<g.c>> /\ r.buffer.value = w
          BY <1>1, <1>3, <3>2
        <4>2. w \in Seq(T) /\ w # <<>> /\ Front(w) = saved.value
          <5>1. saved.value \in Seq(T) /\ <<g.c>> \in Seq(T) /\ Len(<<g.c>>) = 1
            BY <1>2, <4>1
          <5>2. PICK n \in Nat : n = Len(saved.value)
            BY <1>2
          <5>3. w \in Seq(T) /\ Len(w) = n + 1 /\ \A i \in 1 .. n : w[i] = saved.value[i]
            BY <4>1, <5>1, <5>2
          <5>4. PICK f : f = SubSeq(w, 1, n)
            OBVIOUS
          <5>5. f \in Seq(T) /\ Len(f) = n /\ \A i \in 1 .. n : f[i] = saved.value[i]
            BY <5>3, <5>4
          <5>6. f = saved.value
            BY <5>1, <5>2, <5>5
          <5>7. Front(w) = f
            BY <5>2, <5>3, <5>4 DEF Front
          <5>8. QED BY <5>2, <5>3, <5>6, <5>7
        <4>3. r.buffer = [value |-> w, size |-> r.buffer.size]
          BY <1>1, <1>3, <3>2, <4>1 DEF TextBuffer
        <4>4. PICK n : r.buffer = [value |-> w, size |-> n]
          BY <4>3
        <4>5. Popped(r.buffer) = [value |-> saved.value, size |-> n]
          BY <4>2, <4>4 DEF Popped
        <4>6. left = [value |-> saved.value, size |-> n]
          BY <2>1, <3>2, <4>5
        <4>7. QED BY <1>2, <4>6 DEF TextBuffer
      <3>3. QED BY <3>1, <3>2
    <2>3. token1.type # "abort"
      BY <2>1, <2>2 DEF Token, NoToken
    <2>4. ~(g.c \notin End /\ Last(r.buffer.value) # g.c)
      <3>1. SUFFICES ASSUME g.c \notin End PROVE Last(r.buffer.value) = g.c
        OBVIOUS
      <3>2. PICK w : w = saved.value \o <<g.c>> /\ r.buffer.value = w
        BY <1>1, <1>3, <3>1
      <3>3. Longer(saved.value, w, g.c)
        BY <1>2, <3>2, LongerIs
      <3>4. QED BY <3>2, <3>3 DEF Longer, Last
    <2>5. saved' = left /\ lex' = "done" /\ status' = status
      BY <2>1, <2>3, <2>4 DEF PutBack, Running
    <2>6. SavedFits(saved', lex')
      BY <2>2, <2>5, NothingToFit
    <2>7. QED BY <2>5, <2>6 DEF Fits
  <1>4. CASE ~r.ok
    <2>1. lost'
      BY <1>4 DEF PutBack, Abort, Saving
    <2>2. QED BY <2>1 DEF Fits
  <1>5. QED BY <1>3, <1>4

\* A byte is saved, and the lexical analyzer goes on.
LEMMA KeepFits ==
    ASSUME TextBuffer(saved), status = "run", NEW g, NEW r \in Saves(g.c), NEW l, Keep(g, r, l),
           Running, g.c \notin End,
           \A w : Longer(saved.value, w, g.c) => NumberSaved(w, l) /\ StringSaved(w, l)
    PROVE  Fits(lost', lex', saved', status')
  <1>1. CASE r.ok
    <2>1. TextBuffer(r.buffer) /\ Longer(saved.value, r.buffer.value, g.c)
      BY <1>1, SavesIs
    <2>2. saved' = r.buffer /\ lex' = l /\ status' = status
      BY DEF Keep, Saving, Goto, Running
    <2>3. SavedFits(saved', lex')
      BY <2>1, <2>2 DEF SavedFits
    <2>4. QED BY <2>2, <2>3 DEF Fits
  <1>2. CASE ~r.ok
    <2>1. lost'
      BY <1>2 DEF Keep, Saving
    <2>2. QED BY <2>1 DEF Fits
  <1>3. QED BY <1>1, <1>2

\* What is saved of a number goes on with a byte.
LEMMA NumberGoesOn ==
    ASSUME NEW v, NEW S, v \in Seq(S), NEW w, NEW c, Longer(v, w, c)
    PROVE  /\ NumberSaved(v, "minus") /\ c \in Digit => NumberSaved(w, "zero") /\ NumberSaved(w, "digits")
           /\ NumberSaved(v, "digits") /\ c \in Digit => NumberSaved(w, "digits")
           /\ NumberSaved(v, "digits") /\ c = "." => NumberSaved(w, "point")
           /\ NumberSaved(v, "digits") /\ c = "e" => NumberSaved(w, "exponent")
           /\ NumberSaved(v, "point") /\ c \in Digit => NumberSaved(w, "fraction")
           /\ NumberSaved(v, "fraction") /\ c \in Digit => NumberSaved(w, "fraction")
           /\ NumberSaved(v, "fraction") /\ c = "e" => NumberSaved(w, "exponent")
           /\ NumberSaved(v, "exponent") /\ c = "-" => NumberSaved(w, "sign")
           /\ \A l \in {"exponent", "sign", "power"} :
                 NumberSaved(v, l) /\ c \in Digit => NumberSaved(w, "power")
  <1>1. PICK n \in Nat : n = Len(v) /\ Len(w) = n + 1 /\ w[n + 1] = c /\ \A i \in 1 .. n : w[i] = v[i]
    BY DEF Longer
  <1>2. n + 1 - 1 = n /\ n + 1 > 0
    BY <1>1
  <1>3. /\ SignedDigits(v, n, {}) => SignedDigits(w, n, {})
        /\ SignedDigits(v, n, {}) \/ Fixed(v, n) => Fixed(w, n)
    BY <1>1, FixedSame
  <1>4. ASSUME c \in Digit
        PROVE  /\ NumberSaved(v, "minus") => SignedDigits(w, n + 1, {})
               /\ NumberSaved(v, "digits") => SignedDigits(w, n + 1, {})
               /\ NumberSaved(v, "point") => Fixed(w, n + 1)
               /\ NumberSaved(v, "fraction") => Fixed(w, n + 1)
               /\ \A l \in {"exponent", "sign", "power"} : NumberSaved(v, l) =>
                     \E k \in 1 .. n + 1 : Fixed(w, k - 1) /\ Scientific(w, k)
    <2>1. /\ Len(v) = 1 /\ v[1] = "-" => SignedDigits(w, Len(w), {})
          /\ SignedDigits(v, Len(v), {}) => SignedDigits(w, Len(w), {})
          /\ Len(v) > 0 /\ SignedDigits(v, Len(v) - 1, {}) /\ v[Len(v)] = "." => Fixed(w, Len(w))
          /\ Fixed(v, Len(v)) => Fixed(w, Len(w))
      BY <1>1, <1>4, DigitsGoOn
    <2>2. ASSUME NEW l \in {"exponent", "sign", "power"}, NumberSaved(v, l)
          PROVE  \E k \in 1 .. n + 1 : Fixed(w, k - 1) /\ Scientific(w, k)
      <3>1. \/ Len(v) > 0 /\ Fixed(v, Len(v) - 1) /\ v[Len(v)] = "e"
            \/ Len(v) > 1 /\ Fixed(v, Len(v) - 2) /\ v[Len(v) - 1] = "e" /\ v[Len(v)] = "-"
            \/ \E k \in 1 .. Len(v) : Fixed(v, k - 1) /\ Scientific(v, k)
        BY <2>2 DEF NumberSaved
      <3>2. QED BY <1>1, <1>4, <3>1, ExponentGoesOn
    <2>3. QED BY <1>1, <2>1, <2>2 DEF NumberSaved
  <1>5. /\ NumberSaved(v, "minus") /\ c \in Digit => NumberSaved(w, "zero") /\ NumberSaved(w, "digits")
        /\ NumberSaved(v, "digits") /\ c \in Digit => NumberSaved(w, "digits")
        /\ NumberSaved(v, "point") /\ c \in Digit => NumberSaved(w, "fraction")
        /\ NumberSaved(v, "fraction") /\ c \in Digit => NumberSaved(w, "fraction")
    BY <1>1, <1>4 DEF NumberSaved
  <1>6. /\ NumberSaved(v, "digits") /\ c = "." => NumberSaved(w, "point")
        /\ NumberSaved(v, "digits") /\ c = "e" => NumberSaved(w, "exponent")
        /\ NumberSaved(v, "fraction") /\ c = "e" => NumberSaved(w, "exponent")
    BY <1>1, <1>2, <1>3 DEF NumberSaved
  <1>7. NumberSaved(v, "exponent") /\ c = "-" => NumberSaved(w, "sign")
    <2>1. SUFFICES ASSUME NumberSaved(v, "exponent"), c = "-" PROVE NumberSaved(w, "sign")
      OBVIOUS
    <2>2. n > 0 /\ Fixed(v, n - 1) /\ v[n] = "e"
      BY <1>1, <2>1 DEF NumberSaved
    <2>3. n - 1 \in Nat /\ \A i \in 1 .. n - 1 : w[i] = v[i]
      BY <1>1, <2>2
    <2>4. Fixed(w, n - 1) /\ w[n] = "e" /\ n + 1 - 2 = n - 1 /\ n + 1 > 1
      BY <1>1, <2>2, <2>3, FixedSame
    <2>5. QED BY <1>1, <1>2, <2>1, <2>4 DEF NumberSaved
  <1>8. ASSUME NEW l \in {"exponent", "sign", "power"}, NumberSaved(v, l), c \in Digit
        PROVE  NumberSaved(w, "power")
    BY <1>1, <1>4, <1>8 DEF NumberSaved
  <1>9. QED BY <1>5, <1>6, <1>7, <1>8

\* "digits" and "zero" are saved alike.
LEMMA ZeroIsDigits ==
    ASSUME NEW v PROVE NumberSaved(v, "zero") <=> NumberSaved(v, "digits")
  BY DEF NumberSaved

\* What strtoll and strtod are asked to read.
LEMMA SavedIsNumber ==
    ASSUME NEW S, NEW v \in Seq(S)
    PROVE  /\ NumberSaved(v, "digits") => IsInteger(v)
           /\ NumberSaved(v, "fraction") \/ NumberSaved(v, "power") => IsReal(v)
  <1>1. NumberSaved(v, "digits") => IsInteger(v)
    BY IntegerIs DEF NumberSaved
  <1>2. NumberSaved(v, "fraction") => IsReal(v)
    BY RealIs DEF NumberSaved
  <1>3. NumberSaved(v, "power") => IsReal(v)
    BY RealIs DEF NumberSaved
  <1>4. QED BY <1>1, <1>2, <1>3

\* What ScanNumber does of a byte.
NumberGoes(g, r) ==
    LET c == g.c
        keep(state) == Keep(g, r, state) /\ Running
        ended(type) == CASE c = "." /\ type = "integer" -> keep("point")
                         [] c = "e"                     -> keep("exponent")
                         [] OTHER                       -> PutBack(g, r, type)
    IN  CASE lex = "minus" /\ c = "0"         -> keep("zero")
          [] lex = "minus" /\ c \in Digit \ {"0"} -> keep("digits")
          [] lex = "zero" /\ c \notin Digit   -> ended("integer")
          [] lex = "digits" /\ c \in Digit    -> keep("digits")
          [] lex = "digits" /\ c \notin Digit -> ended("integer")
          [] lex = "fraction" /\ c \in Digit  -> keep("fraction")
          [] lex = "fraction" /\ c \notin Digit -> ended("real")
          [] lex = "exponent" /\ c = "-"      -> keep("sign")
          [] lex \in {"exponent", "sign", "power"} /\ c \in Digit -> keep("power")
          [] lex = "power" /\ c \notin Digit  -> PutBack(g, r, "real")
          [] OTHER                            -> PutBack(g, r, "invalid")

\* What it does of a byte that may end a number.
EndedBy(g, r, type) ==
    \/ g.c = "." /\ type = "integer" /\ Keep(g, r, "point") /\ Running
    \/ g.c = "e" /\ Keep(g, r, "exponent") /\ Running
    \/ PutBack(g, r, type)

\* A number goes on, or is what it has to be.
LEMMA NumberFits ==
    ASSUME SavedFits(saved, lex), status = "run", ScanNumber
    PROVE  Fits(lost', lex', saved', status')
  <1>1. PICK v : v = saved.value
    OBVIOUS
  <1>2. PICK S : v \in Seq(S)
    BY <1>1 DEF SavedFits, TextBuffer
  <1>3. NumberSaved(v, lex) /\ TextBuffer(saved)
    BY <1>1 DEF SavedFits
  <1>4. PICK g : \E r \in Saves(g.c) : NumberGoes(g, r)
    BY DEF ScanNumber, NumberGoes
  <1>r. PICK r \in Saves(g.c) : NumberGoes(g, r)
    BY <1>4
  <1> DEFINE K(s) == Keep(g, r, s) /\ Running
             P(type) == PutBack(g, r, type)
  <1>5. PICK c : c = g.c
    OBVIOUS
  <1>6. /\ Digit \cap End = {} /\ {".", "e", "-"} \cap End = {} /\ {".", "e", "-"} \cap Digit = {}
        /\ "0" \in Digit
    BY DigitIs DEF End
  <1>7. ASSUME NEW s, K(s), c \in Digit \cup {".", "e", "-"},
               \A w : Longer(v, w, c) => NumberSaved(w, s),
               s \in {"zero", "digits", "point", "fraction", "exponent", "sign", "power"}
        PROVE  Fits(lost', lex', saved', status')
    <2>1. \A w : StringSaved(w, s)
      BY <1>7 DEF StringSaved
    <2>2. g.c \notin End
      BY <1>5, <1>6, <1>7
    <2>3. \A w : Longer(saved.value, w, g.c) => NumberSaved(w, s) /\ StringSaved(w, s)
      BY <1>1, <1>5, <1>7, <2>1
    <2>4. QED BY <1>3, <1>7, <2>2, <2>3, KeepFits
  <1>8. ASSUME NEW type, P(type), type = "integer" => IsInteger(v), type = "real" => IsReal(v)
        PROVE  Fits(lost', lex', saved', status')
    BY <1>1, <1>3, <1>8, PutBackFits
  <1>9. ASSUME NEW type, EndedBy(g, r, type),
               \/ type = "integer" /\ NumberSaved(v, "digits")
               \/ type = "real" /\ NumberSaved(v, "fraction")
        PROVE  Fits(lost', lex', saved', status')
    <2>1. (type = "integer" => IsInteger(v)) /\ (type = "real" => IsReal(v))
      BY <1>2, <1>9, SavedIsNumber
    <2>2. CASE c = "." /\ type = "integer" /\ K("point")
      <3>1. \A w : Longer(v, w, c) => NumberSaved(w, "point")
        BY <1>2, <1>9, <2>2, NumberGoesOn
      <3>2. QED BY <1>7, <2>2, <3>1
    <2>3. CASE c = "e" /\ K("exponent")
      <3>1. \A w : Longer(v, w, c) => NumberSaved(w, "exponent")
        BY <1>2, <1>9, <2>3, NumberGoesOn
      <3>2. QED BY <1>7, <2>3, <3>1
    <2>4. CASE P(type)
      BY <1>8, <2>1, <2>4
    <2>5. QED BY <1>5, <1>9, <2>2, <2>3, <2>4 DEF EndedBy
  <1>10. ASSUME NEW s, NEW l, K(s), c \in Digit, NumberSaved(v, l),
                \/ l = "minus" /\ s \in {"zero", "digits"}
                \/ l = "digits" /\ s = "digits"
                \/ l = "fraction" /\ s = "fraction"
                \/ l \in {"exponent", "sign", "power"} /\ s = "power"
         PROVE  Fits(lost', lex', saved', status')
    <2>1. ASSUME NEW w, Longer(v, w, c) PROVE NumberSaved(w, s)
      BY <1>2, <1>10, <2>1, NumberGoesOn
    <2>2. QED BY <1>7, <1>10, <2>1
  <1>11. ASSUME K("sign"), c = "-", NumberSaved(v, "exponent")
         PROVE  Fits(lost', lex', saved', status')
    <2>1. ASSUME NEW w, Longer(v, w, c) PROVE NumberSaved(w, "sign")
      BY <1>2, <1>11, <2>1, NumberGoesOn
    <2>2. QED BY <1>7, <1>11, <2>1
  <1>12. CASE P("invalid")
    BY <1>8, <1>12
  <1>13. CASE lex = "minus"
    <2>1. (c \in Digit /\ (K("zero") \/ K("digits"))) \/ P("invalid")
      BY <1>r, <1>5, <1>6, <1>13 DEF NumberGoes
    <2>2. QED BY <1>3, <1>10, <1>12, <1>13, <2>1
  <1>14. CASE lex = "zero"
    <2>1. EndedBy(g, r, "integer") \/ P("invalid")
      BY <1>r, <1>14 DEF NumberGoes, EndedBy
    <2>2. NumberSaved(v, "digits")
      BY <1>3, <1>14, ZeroIsDigits
    <2>3. ASSUME EndedBy(g, r, "integer") PROVE Fits(lost', lex', saved', status')
      <3>1. PICK type : type = "integer"
        OBVIOUS
      <3>2. EndedBy(g, r, type)
        BY <2>3, <3>1
      <3>3. QED BY <1>9, <2>2, <3>1, <3>2
    <2>4. QED BY <1>12, <2>1, <2>3
  <1>15. CASE lex = "digits"
    <2>1. (c \in Digit /\ K("digits")) \/ EndedBy(g, r, "integer")
      BY <1>r, <1>5, <1>15 DEF NumberGoes, EndedBy
    <2>2. NumberSaved(v, "digits")
      BY <1>3, <1>15
    <2>3. ASSUME EndedBy(g, r, "integer") PROVE Fits(lost', lex', saved', status')
      <3>1. PICK type : type = "integer"
        OBVIOUS
      <3>2. EndedBy(g, r, type)
        BY <2>3, <3>1
      <3>3. QED BY <1>9, <2>2, <3>1, <3>2
    <2>4. c \in Digit /\ K("digits") => Fits(lost', lex', saved', status')
      BY <1>10, <2>2
    <2>5. QED BY <2>1, <2>3, <2>4
  <1>16. CASE lex = "fraction"
    <2>1. (c \in Digit /\ K("fraction")) \/ EndedBy(g, r, "real")
      BY <1>r, <1>5, <1>16 DEF NumberGoes, EndedBy
    <2>2. QED BY <1>3, <1>9, <1>10, <1>16, <2>1
  <1>17. CASE lex = "exponent"
    <2>1. (c = "-" /\ K("sign")) \/ (c \in Digit /\ K("power")) \/ P("invalid")
      BY <1>r, <1>5, <1>17 DEF NumberGoes
    <2>2. QED BY <1>3, <1>10, <1>11, <1>12, <1>17, <2>1
  <1>18. CASE lex = "sign"
    <2>1. (c \in Digit /\ K("power")) \/ P("invalid")
      BY <1>r, <1>5, <1>18 DEF NumberGoes
    <2>2. QED BY <1>3, <1>10, <1>12, <1>18, <2>1
  <1>19. CASE lex = "power"
    <2>1. (c \in Digit /\ K("power")) \/ P("real")
      BY <1>r, <1>5, <1>19 DEF NumberGoes
    <2>2. P("real") => Fits(lost', lex', saved', status')
      BY <1>2, <1>3, <1>8, <1>19, SavedIsNumber
    <2>3. QED BY <1>3, <1>10, <1>19, <2>1, <2>2
  <1>20. lex \in {"minus", "zero", "digits", "fraction", "exponent", "sign", "power"}
    BY DEF ScanNumber
  <1>21. QED BY <1>13, <1>14, <1>15, <1>16, <1>17, <1>18, <1>19, <1>20

\* What ScanString does of a byte.
StringGoes(g, r) ==
    LET c == g.c
        keep(state) == Keep(g, r, state) /\ Running
    IN  CASE lex = "string" /\ c = Quote     -> EndString(g, r)
          [] lex = "string" /\ c = Backslash -> keep("escape")
          [] lex = "string" /\ c \in Control -> PutBack(g, r, "invalid")
          [] lex = "string" /\ c \notin {Quote, Backslash} \cup Control \cup End ->
                keep("string")
          [] lex = "escape" /\ c = "u"       -> keep("hex")
          [] lex = "escape" /\ c \in {Quote, Backslash, "n"} -> keep("string")
          [] lex = "hex" /\ c \in Hex        -> keep("string")
          [] OTHER                           -> GiveUp(g, r) /\ Running

\* A string goes on, or its value is found.
LEMMA StringFits ==
    ASSUME SavedFits(saved, lex), status = "run", ScanString
    PROVE  Fits(lost', lex', saved', status')
  <1>1. PICK v : v = saved.value
    OBVIOUS
  <1>2. PICK S : v \in Seq(S)
    BY <1>1 DEF SavedFits, TextBuffer
  <1>3. StringSaved(v, lex) /\ TextBuffer(saved)
    BY <1>1 DEF SavedFits
  <1>4. PICK g : \E r \in Saves(g.c) : StringGoes(g, r)
    BY DEF ScanString, StringGoes
  <1>5. PICK r \in Saves(g.c) : StringGoes(g, r)
    BY <1>4
  <1> DEFINE K(s) == Keep(g, r, s) /\ Running
  <1>6. PICK c : c = g.c
    OBVIOUS
  <1>7. ASSUME NEW w, Longer(v, w, c)
        PROVE  /\ StringSaved(v, "string") /\ c = Backslash => StringSaved(w, "escape")
               /\ StringSaved(v, "string") /\ c \notin {Quote, Backslash} => StringSaved(w, "string")
               /\ StringSaved(v, "escape") /\ c = "u" => StringSaved(w, "hex")
               /\ StringSaved(v, "escape") /\ c \in {Quote, Backslash, "n"} => StringSaved(w, "string")
               /\ StringSaved(v, "hex") => StringSaved(w, "string")
               /\ StringSaved(v, "string") /\ c = Quote => Decode(w).how \in {"ok", "invalid"}
    <2>1. Len(v) \in Nat
      BY <1>2
    <2>2. QED BY <1>7, <2>1, StringGoesOn
  <1>8. ASSUME NEW s \in {"string", "escape", "hex"}, K(s), c \notin End,
               \A w : Longer(v, w, c) => StringSaved(w, s)
        PROVE  Fits(lost', lex', saved', status')
    <2>1. \A w : NumberSaved(w, s)
      BY DEF NumberSaved
    <2>2. \A w : Longer(saved.value, w, g.c) => NumberSaved(w, s) /\ StringSaved(w, s)
      BY <1>1, <1>6, <1>8, <2>1
    <2>3. QED BY <1>3, <1>6, <1>8, <2>2, KeepFits
  <1>9. CASE PutBack(g, r, "invalid")
    BY <1>3, <1>9, PutBackFits
  <1>10. CASE GiveUp(g, r) /\ Running
    <2>1. /\ saved' = r.buffer /\ lost' = (lost \/ ~r.ok) /\ lex' = "done" /\ status' = status
      BY <1>10 DEF GiveUp, Saving, Invalid, Lexed, Running
    <2>2. CASE r.ok
      <3>1. TextBuffer(r.buffer)
        BY <1>3, <2>2, SavesIs
      <3>2. SavedFits(saved', lex')
        BY <2>1, <3>1, NothingToFit
      <3>3. QED BY <2>1, <3>2 DEF Fits
    <2>3. CASE ~r.ok
      BY <2>1, <2>3 DEF Fits
    <2>4. QED BY <2>2, <2>3
  <1>11. CASE lex = "string" /\ c = Quote /\ EndString(g, r)
    <2>1. saved' = r.buffer /\ lost' = (lost \/ ~r.ok)
      BY <1>11 DEF EndString, Saving
    <2>2. CASE r.ok
      <3>1. TextBuffer(r.buffer) /\ Longer(v, r.buffer.value, c)
        <4>1. c \notin End
          BY <1>11 DEF Quote, End
        <4>2. QED BY <1>1, <1>3, <1>6, <2>2, <4>1, SavesIs
      <3>2. Decode(r.buffer.value).how \in {"ok", "invalid"}
        BY <1>3, <1>7, <1>11, <3>1
      <3>3. lex' = "done" /\ status' = status
        BY <1>11, <3>2 DEF EndString, Lexed, Invalid
      <3>4. SavedFits(saved', lex')
        BY <2>1, <3>1, <3>3, NothingToFit
      <3>5. QED BY <3>3, <3>4 DEF Fits
    <2>3. CASE ~r.ok
      BY <2>1, <2>3 DEF Fits
    <2>4. QED BY <2>2, <2>3
  <1>12. {Quote, Backslash, "n", "u"} \cap End = {} /\ Quote # Backslash
    BY DEF Quote, Backslash, End
  <1>13. CASE lex = "string"
    <2>1. \/ c = Quote /\ EndString(g, r)
          \/ c = Backslash /\ K("escape")
          \/ PutBack(g, r, "invalid")
          \/ c \notin {Quote, Backslash} \cup End /\ K("string")
          \/ GiveUp(g, r) /\ Running
      BY <1>5, <1>6, <1>13 DEF StringGoes
    <2>2. CASE c = Backslash /\ K("escape")
      BY <1>3, <1>7, <1>8, <1>12, <1>13, <2>2
    <2>3. CASE c \notin {Quote, Backslash} \cup End /\ K("string")
      BY <1>3, <1>7, <1>8, <1>13, <2>3
    <2>4. QED BY <1>9, <1>10, <1>11, <1>13, <2>1, <2>2, <2>3
  <1>14. CASE lex = "escape"
    <2>1. \/ c = "u" /\ K("hex")
          \/ c \in {Quote, Backslash, "n"} /\ K("string")
          \/ GiveUp(g, r) /\ Running
      BY <1>5, <1>6, <1>14 DEF StringGoes
    <2>2. CASE c = "u" /\ K("hex")
      BY <1>3, <1>7, <1>8, <1>12, <1>14, <2>2
    <2>3. CASE c \in {Quote, Backslash, "n"} /\ K("string")
      BY <1>3, <1>7, <1>8, <1>12, <1>14, <2>3
    <2>4. QED BY <1>10, <2>1, <2>2, <2>3
  <1>15. CASE lex = "hex"
    <2>1. (c \in Hex /\ K("string")) \/ (GiveUp(g, r) /\ Running)
      BY <1>5, <1>6, <1>15 DEF StringGoes
    <2>2. CASE c \in Hex /\ K("string")
      <3>1. c \notin End
        BY <2>2, HexAssumption DEF Hex, End
      <3>2. QED BY <1>3, <1>7, <1>8, <1>15, <2>2, <3>1
    <2>3. QED BY <1>10, <2>1, <2>2
  <1>16. lex \in {"string", "escape", "hex"}
    BY DEF ScanString
  <1>17. QED BY <1>13, <1>14, <1>15, <1>16

\* A word goes on, or ends.
LEMMA WordFits ==
    ASSUME SavedFits(saved, lex), status = "run", ScanWord
    PROVE  Fits(lost', lex', saved', status')
  <1>1. TextBuffer(saved)
    BY DEF SavedFits
  <1>2. PICK g : \E r \in Saves(g.c) : IF g.c \in Alpha THEN Keep(g, r, "word") /\ Running
                                       ELSE PutBack(g, r, "true")
    BY DEF ScanWord
  <1>3. PICK r \in Saves(g.c) : IF g.c \in Alpha THEN Keep(g, r, "word") /\ Running
                                ELSE PutBack(g, r, "true")
    BY <1>2
  <1>4. CASE g.c \in Alpha
    <2>1. g.c \notin End
      BY <1>4 DEF Alpha, End
    <2>2. \A w : NumberSaved(w, "word") /\ StringSaved(w, "word")
      BY DEF NumberSaved, StringSaved
    <2>3. QED BY <1>1, <1>3, <1>4, <2>1, <2>2, KeepFits
  <1>5. CASE g.c \notin Alpha
    BY <1>1, <1>3, <1>5, PutBackFits
  <1>6. QED BY <1>4, <1>5

\* The byte after a point.
LEMMA PointFits ==
    ASSUME SavedFits(saved, lex), status = "run", ScanPoint
    PROVE  Fits(lost', lex', saved', status')
  <1>1. PICK v : v = saved.value
    OBVIOUS
  <1>2. PICK S : v \in Seq(S)
    BY <1>1 DEF SavedFits, TextBuffer
  <1>3. NumberSaved(v, "point") /\ TextBuffer(saved)
    BY <1>1 DEF SavedFits, ScanPoint
  <1>4. PICK g : \/ g.c \in Digit /\ \E r \in Saves(g.c) : Keep(g, r, "fraction")
                 \/ g.c \notin Digit /\ Invalid /\ UNCHANGED <<saved, lost, failures>>
    BY DEF ScanPoint
  <1>5. Running
    BY DEF ScanPoint
  <1>6. ASSUME g.c \in Digit, NEW r \in Saves(g.c), Keep(g, r, "fraction")
        PROVE  Fits(lost', lex', saved', status')
    <2>1. g.c \notin End
      BY <1>6, DigitIs DEF End
    <2>2. ASSUME NEW w, Longer(v, w, g.c)
          PROVE  NumberSaved(w, "fraction") /\ StringSaved(w, "fraction")
      <3>1. NumberSaved(w, "fraction")
        BY <1>2, <1>3, <1>6, <2>2, NumberGoesOn
      <3>2. QED BY <3>1 DEF StringSaved
    <2>3. QED BY <1>1, <1>3, <1>5, <1>6, <2>1, <2>2, KeepFits
  <1>7. ASSUME Invalid, saved' = saved PROVE Fits(lost', lex', saved', status')
    <2>1. lex' = "done" /\ status' = status
      BY <1>5, <1>7 DEF Invalid, Lexed, Running
    <2>2. SavedFits(saved', lex')
      BY <1>3, <1>7, <2>1, NothingToFit
    <2>3. QED BY <2>1, <2>2 DEF Fits
  <1>8. QED BY <1>4, <1>6, <1>7

\* What is saved of the first byte of a token.
LEMMA FirstByte ==
    ASSUME NEW c
    PROVE  /\ c = "-" => NumberSaved(<<c>>, "minus")
           /\ c \in Digit => NumberSaved(<<c>>, "zero") /\ NumberSaved(<<c>>, "digits")
           /\ c = Quote => StringSaved(<<c>>, "string")
  <1>1. PICK v : v = <<c>>
    OBVIOUS
  <1>2. Len(v) = 1 /\ v[1] = c
    BY <1>1
  <1>3. c = "-" => NumberSaved(v, "minus")
    BY <1>2 DEF NumberSaved
  <1>4. c \in Digit => SignedDigits(v, 1, {})
    BY <1>2 DEF SignedDigits
  <1>5. c \in Digit => NumberSaved(v, "zero") /\ NumberSaved(v, "digits")
    BY <1>2, <1>4 DEF NumberSaved
  <1>6. Units(v, {2}, 1)
    BY DEF Units
  <1>7. StringSaved(v, "string")
    BY <1>2, <1>6 DEF StringSaved
  <1>8. QED BY <1>1, <1>3, <1>5, <1>7

\* A token begins, or has ended at its first byte.
LEMMA ScanFits ==
    ASSUME SavedFits(saved, lex), status = "run", Scan
    PROVE  Fits(lost', lex', saved', status')
  <1>1. PICK g : LET c == g.c
                     begin(state) == Reading(g.stream) /\ Goto(state)
                 IN  /\ saved' = IF c \in End \cup Blank THEN Cleared(saved)
                                 ELSE [Cleared(saved) EXCEPT !.value = <<c>>]
                     /\ CASE c \in Blank      -> begin("start")
                          [] c = "eof"        -> Reading(g.stream) /\ Lexed("eof", <<>>)
                          [] c = "error"      -> Reading(g.stream) /\ Invalid
                          [] c \in Structural -> Reading(g.stream) /\ Lexed(c, <<>>)
                          [] c = Quote        -> begin("string")
                          [] c = "-"          -> begin("minus")
                          [] c = "0"          -> begin("zero")
                          [] c \in Digit \ {"0"} -> begin("digits")
                          [] c \in Alpha      -> begin("word")
                          [] OTHER            -> Reading(Skipped(g.stream)) /\ Invalid
    BY DEF Scan
  <1>2. PICK c : c = g.c
    OBVIOUS
  <1>3. status' = status
    BY DEF Scan, Running
  <1>4. PICK n : saved = [value |-> saved.value, size |-> n]
    BY DEF SavedFits, TextBuffer
  <1>5. /\ c \in End \cup Blank => saved' = [value |-> <<>>, size |-> n]
        /\ c \notin End \cup Blank => saved' = [value |-> <<c>>, size |-> n]
    <2>1. PICK b : b = Cleared(saved) /\ b = [value |-> <<>>, size |-> n]
      <3>1. PICK m : saved = [value |-> m, size |-> n]
        BY <1>4
      <3>2. [saved EXCEPT !.value = <<>>] = [value |-> <<>>, size |-> n]
        BY ONLY <3>1
      <3>3. QED BY <3>2 DEF Cleared
    <2>2. [b EXCEPT !.value = <<c>>] = [value |-> <<c>>, size |-> n]
      BY <2>1
    <2>3. QED BY <1>1, <1>2, <2>1, <2>2
  <1>6. TextBuffer(saved')
    <2>1. <<>> \in Seq({}) /\ <<c>> \in Seq({c})
      OBVIOUS
    <2>2. PICK t : t \in {<<>>, <<c>>} /\ saved' = [value |-> t, size |-> n]
      BY <1>5
    <2>3. \E S : t \in Seq(S)
      BY <2>1, <2>2
    <2>4. saved'.value = t /\ saved'.size = n
      BY <2>2
    <2>5. QED BY <2>2, <2>3, <2>4 DEF TextBuffer
  <1>7. \/ lex' \in {"start", "done", "word"}
        \/ c = Quote /\ lex' = "string"
        \/ c = "-" /\ lex' = "minus"
        \/ c = "0" /\ lex' = "zero"
        \/ c \in Digit /\ lex' = "digits"
    BY <1>1, <1>2 DEF Goto, Lexed, Invalid
  <1>8. CASE lex' \in {"start", "done", "word"}
    <2>1. SavedFits(saved', lex')
      BY <1>6, <1>8, NothingToFit
    <2>2. QED BY <1>3, <2>1 DEF Fits
  <1>9. CASE lex' \notin {"start", "done", "word"}
    <2>1. c \notin End \cup Blank /\ ("0" \in Digit)
      BY <1>7, <1>9, DigitIs DEF End, Blank, Quote
    <2>2. saved'.value = <<c>>
      BY <1>5, <2>1
    <2>3. NumberSaved(<<c>>, lex') /\ StringSaved(<<c>>, lex')
      <3>1. CASE c = Quote /\ lex' = "string"
        BY <3>1, FirstByte DEF NumberSaved
      <3>2. ASSUME NumberSaved(<<c>>, lex'), lex' \in {"minus", "zero", "digits"} PROVE StringSaved(<<c>>, lex')
        BY <3>2 DEF StringSaved
      <3>3. lex' \in {"minus", "zero", "digits"} => NumberSaved(<<c>>, lex')
        BY <1>7, <2>1, FirstByte
      <3>4. QED BY <1>7, <1>9, <3>1, <3>2, <3>3
    <2>4. SavedFits(saved', lex')
      BY <1>6, <2>2, <2>3 DEF SavedFits
    <2>5. QED BY <1>3, <2>4 DEF Fits
  <1>10. QED BY <1>8, <1>9

\* What the parser may wait for.
Expected == {"top", "value", "first}", "key", "colon", "next}", "first]", "next]", "element", "eof"}

\* What a step of the parser leaves.
AfterToken ==
    lex' \in {"start", "done"} /\ status' \in {"run", "rejected", "accepted"} /\ expect' \in Expected

\* The pieces of the parser leave it so.
LEMMA ParsingGoes ==
    ASSUME lex = "done", status = "run", expect \in Expected
    PROVE  /\ \A v, outer : Return(v, outer) => AfterToken
           /\ \A kind : \A e \in Expected : Open(kind, e) => AfterToken
           /\ \A e \in Expected : Proceed(e) => AfterToken
           /\ Reject => AfterToken
  <1>1. ASSUME NEW v, NEW outer, Return(v, outer) PROVE AfterToken
    <2>1. PICK m : IF ~m.ok
                   THEN status' = "rejected" /\ UNCHANGED <<lex, expect>>
                   ELSE IF outer = <<>>
                        THEN IF Flag("noeof") THEN status' = "accepted" /\ UNCHANGED <<lex, expect>>
                             ELSE lex' = "start" /\ expect' = "eof" /\ UNCHANGED status
                        ELSE lex' = "start" /\ expect' \in {"next]", "next}"} /\ UNCHANGED status
      BY <1>1 DEF Return, NextToken
    <2>2. QED BY <2>1 DEF AfterToken, Expected
  <1>2. ASSUME NEW kind, NEW e \in Expected, Open(kind, e) PROVE AfterToken
    BY <1>2 DEF Open, NextToken, AfterToken
  <1>3. ASSUME NEW e \in Expected, Proceed(e) PROVE AfterToken
    BY <1>3 DEF Proceed, NextToken, AfterToken
  <1>4. ASSUME Reject PROVE AfterToken
    BY <1>4 DEF Reject, AfterToken
  <1>5. QED BY <1>1, <1>2, <1>3, <1>4

\* It goes on with the next token, or ends.
LEMMA ParseGoes ==
    ASSUME lex = "done", status = "run", expect \in Expected, Parse PROVE AfterToken
  <1>1. ASSUME ParseValue PROVE AfterToken
    <2>1. \/ \E v : Return(v, stack)
          \/ \E kind : \E e \in {"first}", "first]"} : Open(kind, e)
          \/ Reject
      BY <1>1 DEF ParseValue
    <2>2. {"first}", "first]"} \subseteq Expected
      BY DEF Expected
    <2>3. QED BY <2>1, <2>2, ParsingGoes
  <1>2. ASSUME ParseKey PROVE AfterToken
    <2>1. Reject \/ (lex' = "start" /\ expect' = "colon" /\ UNCHANGED status)
      BY <1>2 DEF ParseKey, NextToken
    <2>2. CASE lex' = "start" /\ expect' = "colon" /\ UNCHANGED status
      BY <2>2 DEF AfterToken, Expected
    <2>3. QED BY <2>1, <2>2, ParsingGoes
  <1>3. ASSUME Close PROVE AfterToken
    BY <1>3, ParsingGoes DEF Close
  <1>4. \/ ParseValue \/ ParseKey \/ Close \/ Reject
        \/ \E e \in Expected : Proceed(e)
        \/ status' \in {"accepted", "rejected"} /\ UNCHANGED <<lex, expect>>
    BY DEF Parse, Expected
  <1>5. CASE status' \in {"accepted", "rejected"} /\ UNCHANGED <<lex, expect>>
    BY <1>5 DEF AfterToken
  <1>6. QED BY <1>1, <1>2, <1>3, <1>4, <1>5, ParsingGoes

\* Nothing has to fit a token that has ended, or the next one before its first byte.
LEMMA ParseFits ==
    ASSUME SavedFits(saved, lex), status = "run", expect \in Expected, Parse
    PROVE  Fits(lost', lex', saved', status')
  <1>1. lex = "done" /\ saved' = saved
    BY DEF Parse
  <1>2. /\ lex' \in {"start", "done"}
        /\ status' \in {"run", "rejected", "accepted"}
    BY <1>1, ParseGoes DEF AfterToken
  <1>3. TextBuffer(saved)
    BY DEF SavedFits
  <1>4. SavedFits(saved', lex')
    BY <1>1, <1>2, <1>3, NothingToFit
  <1>5. QED BY <1>2, <1>4 DEF Fits

\* A lost byte stays lost while a text is loaded, and a byte is nothing to the parser.
LEMMA LostStays ==
    ASSUME LoadStep, expect \in Expected PROVE (lost => lost') /\ expect' \in Expected
  <1>1. CASE Scan
    BY <1>1 DEF Scan, Running
  <1>2. CASE ScanString
    <2>1. PICK g : \E r \in Saves(g.c) : StringGoes(g, r)
      BY <1>2 DEF ScanString, StringGoes
    <2>2. PICK r : StringGoes(g, r)
      BY <2>1
    <2>3. \/ EndString(g, r) \/ PutBack(g, r, "invalid") \/ GiveUp(g, r)
          \/ \E l : Keep(g, r, l)
      BY <2>2 DEF StringGoes
    <2>5. EndString(g, r) \/ PutBack(g, r, "invalid") \/ Running
      BY <2>2 DEF StringGoes
    <2>4. QED BY <2>3, <2>5 DEF EndString, PutBack, GiveUp, Keep, Abort, Saving, Running
  <1>3. CASE ScanNumber
    <2>1. PICK g : \E r \in Saves(g.c) : NumberGoes(g, r)
      BY <1>3 DEF ScanNumber, NumberGoes
    <2>2. PICK r : NumberGoes(g, r)
      BY <2>1
    <2>3. (\E type : PutBack(g, r, type)) \/ \E l : Keep(g, r, l) /\ Running
      BY <2>2 DEF NumberGoes
    <2>4. QED BY <2>3 DEF PutBack, Keep, Abort, Saving, Running
  <1>4. CASE ScanPoint
    <2>1. PICK g : \/ \E r \in Saves(g.c) : Keep(g, r, "fraction")
                   \/ UNCHANGED <<saved, lost, failures>>
      BY <1>4 DEF ScanPoint
    <2>2. expect' = expect
      BY <1>4 DEF ScanPoint, Running
    <2>3. (\E r : lost' = (lost \/ ~r.ok)) \/ lost' = lost
      BY <2>1 DEF Keep, Saving
    <2>4. lost => lost'
      BY <2>3
    <2>5. QED BY <2>2, <2>4
  <1>5. CASE ScanWord
    <2>1. PICK g, r : (Keep(g, r, "word") /\ Running) \/ PutBack(g, r, "true")
      BY <1>5 DEF ScanWord
    <2>2. QED BY <2>1 DEF PutBack, Keep, Abort, Saving, Running
  <1>6. CASE Parse
    <2>1. lex = "done" /\ lost' = lost /\ status = "run"
      BY <1>6 DEF Parse, LoadStep
    <2>2. QED BY <1>6, <2>1, ParseGoes DEF AfterToken
  <1>7. QED BY <1>1, <1>2, <1>3, <1>4, <1>5, <1>6 DEF LoadStep

\* A new buffer is a text, of no byte.
LEMMA NewFits ==
    ASSUME NEW s \in {"idle", "run", "rejected"} PROVE Fits(FALSE, "start", NewBuffer, s)
  <1>1. TextBuffer(NewBuffer)
    <2>1. PICK n : NewBuffer = [value |-> <<>>, size |-> n]
      BY DEF NewBuffer
    <2>2. <<>> \in Seq({})
      OBVIOUS
    <2>3. QED BY <2>1, <2>2 DEF TextBuffer
  <1>2. SavedFits(NewBuffer, "start")
    BY <1>1, NothingToFit
  <1>3. QED BY <1>2 DEF Fits

\* Every step keeps what is saved the beginning of a token, or loses a byte.
LEMMA LexerSteps ==
    ASSUME Fits(lost, lex, saved, status), expect \in Expected, [Next]_vars
    PROVE  Fits(lost', lex', saved', status') /\ expect' \in Expected
  <1>1. CASE Begin
    <2>1. lost' = FALSE /\ lex' = "start" /\ saved' = NewBuffer /\ status' \in {"run", "rejected"}
      BY <1>1 DEF Begin, Load
    <2>2. expect' = "top"
      BY <1>1 DEF Begin, Load
    <2>3. QED BY <2>1, <2>2, NewFits DEF Expected
  <1>2. CASE Loading
    <2>1. LoadStep /\ status = "run"
      BY <1>2 DEF Loading, LoadStep
    <2>2. CASE lost
      BY <2>1, <2>2, LostStays DEF Fits
    <2>3. ASSUME ~lost PROVE Fits(lost', lex', saved', status')
      <3>1. SavedFits(saved, lex)
        BY <2>1, <2>3 DEF Fits
      <3>2. Scan \/ ScanString \/ ScanNumber \/ ScanPoint \/ ScanWord \/ Parse
        BY <2>1 DEF LoadStep
      <3>3. CASE Scan \/ ScanString \/ ScanNumber
        BY <2>1, <3>1, <3>3, ScanFits, StringFits, NumberFits
      <3>4. CASE ScanPoint \/ ScanWord \/ Parse
        BY <2>1, <3>1, <3>4, PointFits, WordFits, ParseFits
      <3>5. QED BY <3>2, <3>3, <3>4
    <2>4. QED BY <2>1, <2>2, <2>3, LostStays
  <1>3. CASE BeginDump
    <2>1. lost' = FALSE /\ lex' = "start" /\ saved' = NewBuffer /\ status' = "idle"
      BY <1>3 DEF BeginDump
    <2>2. expect' = "top"
      BY <1>3 DEF BeginDump
    <2>3. QED BY <2>1, <2>2, NewFits DEF Expected
  <1>4. CASE BeginReload
    <2>1. lost' = FALSE /\ lex' = "start" /\ saved' = NewBuffer /\ status' \in {"run", "rejected"}
      BY <1>4 DEF BeginReload, Load
    <2>2. expect' = "top"
      BY <1>4 DEF BeginReload, Load
    <2>3. QED BY <2>1, <2>2, NewFits DEF Expected
  <1>5. CASE Dumping \/ Finish \/ UNCHANGED vars
    <2>1. lost' = lost /\ lex' = lex /\ saved' = saved /\ status' = status /\ expect' = expect
      BY <1>5 DEF Dumping, Finish, vars, loading
    <2>2. QED BY <2>1
  <1>6. QED BY <1>1, <1>2, <1>3, <1>4, <1>5 DEF Next

LexerInv == Fits(lost, lex, saved, status) /\ expect \in Expected

\* For any inputs, characters and sizes: no assertion of the lexical analyzer fails, and
\* no loop runs behind the saved text, unless a byte of it could not be saved.
THEOREM OnlyLostBytes == Spec => []OnlyALostByteBreaksTheLexer
  <1>1. Init => LexerInv
    <2>1. SUFFICES ASSUME Init PROVE LexerInv
      OBVIOUS
    <2>2. lost = FALSE /\ lex = "start" /\ saved = NewBuffer /\ status = "idle" /\ expect = "top"
      BY <2>1 DEF Init, InitLoad
    <2>3. QED BY <2>2, NewFits DEF LexerInv, Expected
  <1>2. LexerInv /\ [Next]_vars => LexerInv'
    BY LexerSteps DEF LexerInv
  <1>3. LexerInv => OnlyALostByteBreaksTheLexer
    BY DEF LexerInv, Fits, OnlyALostByteBreaksTheLexer
  <1>4. QED BY <1>1, <1>2, <1>3, PTL DEF Spec

-----------------------------------------------------------------------------
(* The room of a buffer.                                                    *)

\* A buffer that holds its text and the NUL behind it.
HasRoom(b) ==
    TextBuffer(b) /\ b.size \in MinSize .. SizeMax /\ Len(b.value) < b.size

\* The greater of two numbers.
LEMMA MaxIs ==
    ASSUME NEW m \in Nat, NEW n \in Nat
    PROVE  Max({m, n}) \in {m, n} /\ Max({m, n}) >= m /\ Max({m, n}) >= n
  <1>1. \E x \in {m, n} : \A y \in {m, n} : x >= y
    <2>1. CASE m >= n
      BY <2>1
    <2>2. CASE n >= m
      BY <2>2
    <2>3. QED BY <2>1, <2>2
  <1>2. PICK x : x = Max({m, n})
    OBVIOUS
  <1>3. x = CHOOSE y \in {m, n} : \A z \in {m, n} : y >= z
    BY <1>2 DEF Max
  <1>4. x \in {m, n} /\ \A y \in {m, n} : x >= y
    BY <1>1, <1>3
  <1>5. QED BY <1>2, <1>4

\* A buffer that has grown has room for what is appended, as no size wraps around.
LEMMA GrownIs ==
    ASSUME NEW size \in MinSize .. SizeMax, NEW l \in Nat, NEW n \in Nat, NEW b,
           b.size = size, Len(b.value) = l, ~Overflows(b, n)
    PROVE  Grown(b, n) \in MinSize .. SizeMax /\ l + n < Grown(b, n)
  <1>0. MinSize \in Nat /\ SizeMax \in Nat /\ 1 < MinSize /\ size \in Nat
    BY StrBufferAssumption
  <1>1. /\ size <= SizeMax \div 2 /\ l + n + 1 <= SizeMax
    BY <1>0 DEF Overflows, Factor
  <1>2. size * 2 <= SizeMax
    BY <1>0, <1>1
  <1>3. PICK x, y \in Nat : x = size * 2 /\ y = l + n + 1
    BY <1>0
  <1>4. x % (SizeMax + 1) = x /\ y % (SizeMax + 1) = y
    BY <1>0, <1>1, <1>2, <1>3
  <1>5. Grown(b, n) = Max({x, y})
    BY <1>3, <1>4 DEF Grown, Factor
  <1>6. Max({x, y}) \in {x, y} /\ Max({x, y}) >= x /\ Max({x, y}) >= y
    BY <1>3, MaxIs
  <1>7. x \in MinSize .. SizeMax /\ x >= MinSize /\ y <= SizeMax
    BY <1>0, <1>1, <1>2, <1>3
  <1>8. PICK z \in Nat : z = Max({x, y})
    BY <1>3, <1>6
  <1>9. z \in MinSize .. SizeMax /\ l + n < z
    BY <1>0, <1>3, <1>6, <1>7, <1>8
  <1>10. QED BY <1>5, <1>8, <1>9

\* strbuffer_append_bytes leaves room, whether it fails or not.
LEMMA AppendsHasRoom ==
    ASSUME NEW b, HasRoom(b), NEW T, NEW s \in Seq(T), NEW r \in Appends(b, s)
    PROVE  HasRoom(r.buffer)
  <1>1. PICK S : b.value \in Seq(S)
    BY DEF HasRoom, TextBuffer
  <1>2. PICK l \in Nat, n \in Nat, size \in MinSize .. SizeMax :
           l = Len(b.value) /\ n = Len(s) /\ size = b.size /\ l < size
    BY <1>1 DEF HasRoom
  <1>0. MinSize \in Nat /\ SizeMax \in Nat /\ size \in Nat
    BY StrBufferAssumption
  <1>3. PICK w : w = b.value \o s
    OBVIOUS
  <1>4. w \in Seq(S \cup T) /\ Len(w) = l + n
    <2>1. b.value \in Seq(S \cup T) /\ s \in Seq(S \cup T)
      BY <1>1
    <2>2. QED BY <1>2, <1>3, <2>1
  <1>5. PICK v : b = [value |-> v, size |-> size]
    BY <1>2 DEF HasRoom, TextBuffer
  <1>6. ASSUME NEW k \in MinSize .. SizeMax, l + n < k, r.buffer = [value |-> w, size |-> k]
        PROVE  HasRoom(r.buffer)
    <2>1. r.buffer.value = w /\ r.buffer.size = k
      BY <1>6
    <2>2. QED BY <1>4, <1>6, <2>1 DEF HasRoom, TextBuffer
  <1>7. PICK A, B : /\ A = (n < size - l)
                    /\ B = (n >= size - l /\ Overflows(b, n))
    OBVIOUS
  <1>8. PICK yes, no, maybe :
          /\ yes = {[ok |-> TRUE, buffer |-> [b EXCEPT !.value = w], failed |-> 0]}
          /\ no = {[ok |-> FALSE, buffer |-> b, failed |-> 0]}
          /\ maybe = {IF m.ok
                      THEN [ok |-> TRUE, failed |-> 0, buffer |-> [value |-> w, size |-> Grown(b, n)]]
                      ELSE [ok |-> FALSE, buffer |-> b, failed |-> m.failed] : m \in Mallocs}
    OBVIOUS
  <1>9. Appends(b, s) = CASE A -> yes [] B -> no [] OTHER -> maybe
    BY ONLY <1>2, <1>3, <1>7, <1>8 DEF Appends
  <1>a. /\ A => l + n < size
        /\ ~A => n >= size - l
        /\ n >= size - l => ~(n < size - l)
    <2>1. n < size - l => l + n < size
      BY <1>0, <1>2
    <2>2. ~(n < size - l) => n >= size - l
      BY <1>0, <1>2
    <2>3. n >= size - l => ~(n < size - l)
      BY <1>0, <1>2
    <2>4. QED BY <1>7, <2>1, <2>2, <2>3
  <1>10. (A /\ r \in yes) \/ r \in no \/ (~A /\ ~B /\ r \in maybe)
    <2>1. ~(A /\ B)
      BY <1>7, <1>a
    <2>2. QED BY ONLY <1>9, <2>1, r \in Appends(b, s)
  <1>11. CASE A /\ r \in yes
    <2>1. r.buffer = [value |-> w, size |-> size]
      BY <1>5, <1>8, <1>11
    <2>2. l + n < size
      BY <1>a, <1>11
    <2>3. QED BY <1>6, <2>1, <2>2
  <1>12. CASE r \in no
    BY <1>8, <1>12
  <1>13. CASE ~A /\ ~B /\ r \in maybe
    <2>1. ~Overflows(b, n)
      BY <1>7, <1>a, <1>13
    <2>2. Grown(b, n) \in MinSize .. SizeMax /\ l + n < Grown(b, n)
      BY <1>2, <2>1, GrownIs
    <2>3. r.buffer = [value |-> w, size |-> Grown(b, n)] \/ r.buffer = b
      BY <1>8, <1>13
    <2>4. QED BY <1>6, <2>2, <2>3
  <1>14. QED BY <1>10, <1>11, <1>12, <1>13

\* strbuffer_pop and strbuffer_clear leave room, and so does a first byte.
LEMMA OthersHaveRoom ==
    ASSUME NEW b, HasRoom(b)
    PROVE  /\ HasRoom(Popped(b)) /\ HasRoom(Cleared(b))
           /\ \A c : HasRoom([Cleared(b) EXCEPT !.value = <<c>>])
  <1>1. PICK v, size : b = [value |-> v, size |-> size]
    BY DEF HasRoom, TextBuffer
  <1>2. PICK S : v \in Seq(S)
    BY <1>1 DEF HasRoom, TextBuffer
  <1>3. MinSize \in Nat /\ SizeMax \in Nat /\ 1 < MinSize /\ size \in MinSize .. SizeMax
    BY <1>1, StrBufferAssumption DEF HasRoom
  <1>4. ASSUME NEW R, NEW t \in Seq(R), Len(t) < size PROVE HasRoom([value |-> t, size |-> size])
    BY <1>3, <1>4 DEF HasRoom, TextBuffer
  <1>5. /\ [b EXCEPT !.value = <<>>] = [value |-> <<>>, size |-> size]
        /\ \A t : [b EXCEPT !.value = t] = [value |-> t, size |-> size]
    BY <1>1
  <1>6. Cleared(b) = [value |-> <<>>, size |-> size]
    BY <1>5 DEF Cleared
  <1>7. HasRoom(Cleared(b))
    <2>1. <<>> \in Seq({}) /\ Len(<<>>) < size
      BY <1>3
    <2>2. QED BY <1>4, <1>6, <2>1
  <1>8. ASSUME NEW c PROVE HasRoom([Cleared(b) EXCEPT !.value = <<c>>])
    <2>1. <<c>> \in Seq({c}) /\ Len(<<c>>) < size
      BY <1>3
    <2>2. [Cleared(b) EXCEPT !.value = <<c>>] = [value |-> <<c>>, size |-> size]
      BY <1>6
    <2>3. QED BY <1>4, <2>1, <2>2
  <1>9. HasRoom(Popped(b))
    <2>1. PICK t : t = IF v = <<>> THEN v ELSE Front(v)
      OBVIOUS
    <2>2. Popped(b) = [value |-> t, size |-> size]
      BY <1>1, <2>1 DEF Popped
    <2>3. t \in Seq(S) /\ Len(t) < size
      <3>1. PICK l \in Nat : l = Len(v) /\ l < size
        BY <1>1, <1>2 DEF HasRoom
      <3>2. CASE v = <<>>
        BY <1>2, <2>1, <3>1, <3>2
      <3>3. CASE v # <<>>
        <4>1. l > 0 /\ t = SubSeq(v, 1, l - 1)
          BY <1>2, <2>1, <3>1, <3>3 DEF Front
        <4>2. t \in Seq(S) /\ Len(t) = l - 1
          BY <1>2, <3>1, <4>1
        <4>3. QED BY <1>3, <3>1, <4>2
      <3>4. QED BY <3>2, <3>3
    <2>4. QED BY <1>4, <2>2, <2>3
  <1>10. QED BY <1>7, <1>8, <1>9

\* A byte that is saved, or not.
LEMMA SavesHasRoom ==
    ASSUME HasRoom(saved), NEW c, NEW r \in Saves(c)
    PROVE  HasRoom(r.buffer) /\ HasRoom(Popped(r.buffer))
  <1>1. HasRoom(r.buffer)
    <2>1. CASE c \in End
      BY <2>1 DEF Saves
    <2>2. CASE c \notin End
      <3>1. r \in Appends(saved, <<c>>) /\ <<c>> \in Seq({c})
        BY <2>2 DEF Saves
      <3>2. QED BY <3>1, AppendsHasRoom
    <2>3. QED BY <2>1, <2>2
  <1>2. QED BY <1>1, OthersHaveRoom

\* An empty buffer of the least size.
LEMMA NewHasRoom == HasRoom(NewBuffer)
  <1>1. NewBuffer = [value |-> <<>>, size |-> MinSize]
    BY DEF NewBuffer
  <1>2. NewBuffer.value = <<>> /\ NewBuffer.size = MinSize
    BY <1>1
  <1>3. <<>> \in Seq({}) /\ Len(<<>>) < MinSize /\ MinSize \in MinSize .. SizeMax
    BY StrBufferAssumption
  <1>4. QED BY <1>1, <1>2, <1>3 DEF HasRoom, TextBuffer

\* What every step leaves saved has room.
LEMMA SavedSteps ==
    ASSUME HasRoom(saved), [Next]_vars PROVE HasRoom(saved')
  <1>2. CASE Begin \/ BeginDump \/ BeginReload
    <2>1. saved' = NewBuffer
      BY <1>2 DEF Begin, BeginDump, BeginReload, Load
    <2>2. QED BY <2>1, NewHasRoom
  <1>3. CASE Dumping \/ Finish \/ UNCHANGED vars
    <2>1. saved' = saved
      BY <1>3 DEF Dumping, Finish, vars, loading
    <2>2. QED BY <2>1
  <1>4. ASSUME NEW g, NEW r \in Saves(g.c),
               (\E type : PutBack(g, r, type)) \/ (\E l : Keep(g, r, l)) \/ GiveUp(g, r) \/ EndString(g, r)
        PROVE  HasRoom(saved')
    <2>1. saved' \in {r.buffer, Popped(r.buffer)}
      BY <1>4 DEF PutBack, Keep, GiveUp, EndString, Abort, Saving
    <2>2. QED BY <2>1, SavesHasRoom
  <1>5. CASE Loading
    <2>1. CASE Scan
      <3>1. \E c : saved' \in {Cleared(saved), [Cleared(saved) EXCEPT !.value = <<c>>]}
        BY <2>1 DEF Scan
      <3>2. QED BY <3>1, OthersHaveRoom
    <2>2. CASE ScanString
      <3>1. PICK g : \E r \in Saves(g.c) : StringGoes(g, r)
        BY <2>2 DEF ScanString, StringGoes
      <3>2. PICK r \in Saves(g.c) : StringGoes(g, r)
        BY <3>1
      <3>3. (\E type : PutBack(g, r, type)) \/ (\E l : Keep(g, r, l)) \/ GiveUp(g, r) \/ EndString(g, r)
        BY <3>2 DEF StringGoes
      <3>4. QED BY <1>4, <3>3
    <2>3. CASE ScanNumber
      <3>1. PICK g : \E r \in Saves(g.c) : NumberGoes(g, r)
        BY <2>3 DEF ScanNumber, NumberGoes
      <3>2. PICK r \in Saves(g.c) : NumberGoes(g, r)
        BY <3>1
      <3>3. (\E type : PutBack(g, r, type)) \/ \E l : Keep(g, r, l)
        BY <3>2 DEF NumberGoes
      <3>4. QED BY <1>4, <3>3
    <2>4. CASE ScanPoint
      <3>1. PICK g : \/ \E r \in Saves(g.c) : Keep(g, r, "fraction")
                     \/ UNCHANGED <<saved, lost, failures>>
        BY <2>4 DEF ScanPoint
      <3>2. ASSUME NEW r \in Saves(g.c), Keep(g, r, "fraction") PROVE HasRoom(saved')
        BY <1>4, <3>2
      <3>3. QED BY <3>1, <3>2
    <2>5. CASE ScanWord
      <3>1. PICK g : \E r \in Saves(g.c) : Keep(g, r, "word") \/ PutBack(g, r, "true")
        BY <2>5 DEF ScanWord
      <3>2. PICK r \in Saves(g.c) : Keep(g, r, "word") \/ PutBack(g, r, "true")
        BY <3>1
      <3>3. QED BY <1>4, <3>2
    <2>6. CASE Parse
      BY <2>6 DEF Parse
    <2>7. QED BY <1>5, <2>1, <2>2, <2>3, <2>4, <2>5, <2>6 DEF Loading, LoadStep
  <1>6. QED BY <1>2, <1>3, <1>5 DEF Next

-----------------------------------------------------------------------------
(* Recursion, and texts.                                                    *)

\* A place is in X when those lower by mu are.
Inductive(D, n, mu, X) ==
    /\ n \in Nat /\ mu \in [D -> 0 .. n]
    /\ \A i \in D : (\A j \in D : mu[j] < mu[i] => j \in X) => i \in X

\* Then all places are.
LEMMA ByMeasure ==
    ASSUME NEW n, NEW D, NEW mu, NEW X, Inductive(D, n, mu, X)
    PROVE  D \subseteq X
  <1>0. /\ n \in Nat /\ mu \in [D -> 0 .. n]
        /\ \A i \in D : (\A j \in D : mu[j] < mu[i] => j \in X) => i \in X
    BY DEF Inductive
  <1>1. PICK Y : Y = {k \in 0 .. n + 1 : \A i \in D : mu[i] < k => i \in X}
    OBVIOUS
  <1>2. 0 \in Y
    <2>1. \A i \in D : ~(mu[i] < 0)
      BY <1>0
    <2>2. 0 \in 0 .. n + 1
      BY <1>0
    <2>3. QED BY <1>1, <2>1, <2>2
  <1>3. ASSUME NEW k \in Y \cap (0 .. n + 1), k < n + 1 PROVE k + 1 \in Y
    <2>1. k + 1 \in 0 .. n + 1
      BY <1>0, <1>3
    <2>2. ASSUME NEW i \in D, mu[i] < k + 1 PROVE i \in X
      <3>1. ASSUME NEW j \in D, mu[j] < mu[i] PROVE j \in X
        <4>1. mu[j] \in 0 .. n /\ mu[i] \in 0 .. n
          BY <1>0
        <4>2. mu[j] < k
          BY <1>0, <2>2, <3>1, <4>1
        <4>3. QED BY <1>1, <1>3, <4>2
      <3>2. QED BY <1>0, <3>1
    <2>3. QED BY <1>1, <2>1, <2>2
  <1>4. n + 1 \in Y
    BY <1>0, <1>2, <1>3, UpTo
  <1>5. ASSUME NEW i \in D PROVE i \in X
    <2>1. mu[i] \in 0 .. n
      BY <1>0
    <2>2. mu[i] < n + 1
      BY <1>0, <2>1
    <2>3. QED BY <1>1, <1>4, <2>2
  <1>6. QED BY <1>5

\* A step looks at places that are lower by mu.
Recursive(D, A, n, mu, step) ==
    /\ n \in Nat /\ mu \in [D -> 0 .. n] /\ step \in [D -> [[D -> A] -> A]]
    /\ \A i \in D : \A f, g \in [D -> A] :
           (\A j \in D : mu[j] < mu[i] => f[j] = g[j]) => step[i][f] = step[i][g]

\* Then a function exists with the value of the step at each place.
LEMMA ByRecursion ==
    ASSUME NEW n, NEW D, NEW mu, NEW A, NEW a \in A, NEW step, Recursive(D, A, n, mu, step)
    PROVE  \E f \in [D -> A] : \A i \in D : f[i] = step[i][f]
  <1>0. /\ n \in Nat /\ mu \in [D -> 0 .. n] /\ step \in [D -> [[D -> A] -> A]]
        /\ \A i \in D : \A f, g \in [D -> A] :
               (\A j \in D : mu[j] < mu[i] => f[j] = g[j]) => step[i][f] = step[i][g]
    BY DEF Recursive
  <1>1. PICK Y : Y = {k \in 0 .. n + 1 :
                        \E f \in [D -> A] : \A i \in D : mu[i] < k => f[i] = step[i][f]}
    BY <1>0
  <1>2. 0 \in Y
    <2>1. PICK f : f = [i \in D |-> a]
      BY <1>0
    <2>2. f \in [D -> A]
      BY <1>0, <2>1
    <2>3. ASSUME NEW i \in D PROVE ~(mu[i] < 0)
      <3>1. mu[i] \in 0 .. n
        BY <1>0
      <3>2. QED BY <1>0, <3>1
    <2>4. 0 \in 0 .. n + 1
      BY <1>0
    <2>5. QED BY <1>0, <1>1, <2>2, <2>3, <2>4
  <1>3. ASSUME NEW k \in Y \cap (0 .. n + 1), k < n + 1 PROVE k + 1 \in Y
    <2>1. k + 1 \in 0 .. n + 1
      BY <1>0, <1>3
    <2>2. PICK f \in [D -> A] : \A i \in D : mu[i] < k => f[i] = step[i][f]
      BY <1>0, <1>1
    <2>3. PICK g : g = [i \in D |-> IF mu[i] < k THEN f[i] ELSE step[i][f]]
      BY <1>0
    <2>4. g \in [D -> A]
      <3>1. \A i \in D : step[i][f] \in A
        BY <1>0
      <3>2. QED BY <1>0, <2>3, <3>1
    <2>5. ASSUME NEW i \in D, mu[i] < k + 1 PROVE g[i] = step[i][g]
      <3>1. g[i] = step[i][f]
        BY <1>0, <2>2, <2>3
      <3>2. ASSUME NEW j \in D, mu[j] < mu[i] PROVE f[j] = g[j]
        <4>1. mu[j] \in 0 .. n /\ mu[i] \in 0 .. n
          BY <1>0
        <4>2. mu[j] < k
          BY <1>0, <2>5, <3>2, <4>1
        <4>3. QED BY <1>0, <2>3, <4>2
      <3>3. step[i][f] = step[i][g]
        BY <1>0, <2>4, <3>2
      <3>4. QED BY <1>0, <3>1, <3>3
    <2>6. QED BY <1>0, <1>1, <2>1, <2>4, <2>5
  <1>4. n + 1 \in Y
    BY <1>0, <1>2, <1>3, UpTo
  <1>5. PICK f \in [D -> A] : \A i \in D : mu[i] < n + 1 => f[i] = step[i][f]
    BY <1>0, <1>1, <1>4
  <1>6. ASSUME NEW i \in D PROVE mu[i] < n + 1
    <2>1. mu[i] \in 0 .. n
      BY <1>0
    <2>2. QED BY <1>0, <2>1
  <1>7. QED BY <1>0, <1>5, <1>6

\* A sequence of bytes.
IsText(t) == \E S : t \in Seq(S)

\* Texts of texts.
LEMMA TextsAre ==
    /\ IsText(<<>>) /\ \A c : IsText(<<c>>)
    /\ \A c, d : IsText(<<c, d>>)
    /\ \A c, d, e : IsText(<<c, d, e>>)
    /\ \A s, t : IsText(s) /\ IsText(t) => IsText(s \o t)
    /\ \A t : \A i, j \in Int : IsText(SubSeq(t, i, j))
    /\ \A t : IsText(t) /\ t # <<>> => IsText(Tail(t))
  <1>1. /\ <<>> \in Seq({}) /\ \A c : <<c>> \in Seq({c})
        /\ \A c, d : <<c, d>> \in Seq({c, d})
        /\ \A c, d, e : <<c, d, e>> \in Seq({c, d, e})
    OBVIOUS
  <1>2. ASSUME NEW S, NEW T, NEW s \in Seq(S), NEW t \in Seq(T) PROVE s \o t \in Seq(S \cup T)
    <2>1. s \in Seq(S \cup T) /\ t \in Seq(S \cup T)
      OBVIOUS
    <2>2. QED BY <2>1
  <1>3. ASSUME NEW t, NEW i \in Int, NEW j \in Int PROVE IsText(SubSeq(t, i, j))
    <2>1. SubSeq(t, i, j) = [k \in 1 .. (1 + j - i) |-> t[i + k - 1]]
      OBVIOUS
    <2>2. PICK S : S = {t[i + k - 1] : k \in 1 .. (1 + j - i)}
      OBVIOUS
    <2>3. PICK n \in Nat : 1 .. (1 + j - i) = 1 .. n
      <3>1. CASE 1 + j - i \in Nat
        BY <3>1
      <3>2. CASE 1 + j - i \notin Nat
        <4>1. 1 .. (1 + j - i) = 1 .. 0
          BY <3>2
        <4>2. QED BY <4>1
      <3>3. QED BY <3>1, <3>2
    <2>4. SubSeq(t, i, j) \in [1 .. n -> S]
      BY <2>1, <2>2, <2>3
    <2>5. QED BY <2>4, SeqDef DEF IsText
  <1>4. ASSUME NEW S, NEW t \in Seq(S), t # <<>> PROVE Tail(t) \in Seq(S)
    BY <1>4
  <1>5. QED BY <1>1, <1>2, <1>3, <1>4 DEF IsText

-----------------------------------------------------------------------------
(* Numbers that are read and printed.                                       *)

\* A set of places has a first and a last one.
LEMMA EndsAre ==
    ASSUME NEW n \in Nat, NEW S \in SUBSET (1 .. n), S # {}
    PROVE  Min(S) \in S /\ Max(S) \in S
  <1>1. \E i \in S : \A j \in S : i <= j
    <2>1. PICK mu : mu = [i \in S |-> i]
      OBVIOUS
    <2>2. mu \in [S -> 0 .. n]
      BY <2>1
    <2>3. SUFFICES ASSUME \A i \in S : ~ \A j \in S : i <= j PROVE FALSE
      OBVIOUS
    <2>0. PICK X : X = {}
      OBVIOUS
    <2>4. ASSUME NEW i \in S, \A j \in S : mu[j] < mu[i] => j \in X PROVE i \in X
      <3>1. PICK j \in S : ~(i <= j)
        BY <2>3
      <3>2. mu[j] < mu[i]
        BY <2>1, <3>1
      <3>3. QED BY <2>0, <2>4, <3>2
    <2>5. S \subseteq X
      <3>1. \A i \in S : (\A j \in S : mu[j] < mu[i] => j \in X) => i \in X
        BY ONLY <2>4
      <3>2. Inductive(S, n, mu, X)
        BY <2>2, <3>1 DEF Inductive
      <3>3. QED BY <3>2, ByMeasure
    <2>6. QED BY <2>0, <2>5
  <1>2. \E i \in S : \A j \in S : i >= j
    <2>1. PICK mu : mu = [i \in S |-> n - i]
      OBVIOUS
    <2>2. mu \in [S -> 0 .. n]
      BY <2>1
    <2>3. SUFFICES ASSUME \A i \in S : ~ \A j \in S : i >= j PROVE FALSE
      OBVIOUS
    <2>0. PICK X : X = {}
      OBVIOUS
    <2>4. ASSUME NEW i \in S, \A j \in S : mu[j] < mu[i] => j \in X PROVE i \in X
      <3>1. PICK j \in S : ~(i >= j)
        BY <2>3
      <3>2. mu[j] < mu[i]
        BY <2>1, <3>1
      <3>3. QED BY <2>0, <2>4, <3>2
    <2>5. S \subseteq X
      <3>1. \A i \in S : (\A j \in S : mu[j] < mu[i] => j \in X) => i \in X
        BY ONLY <2>4
      <3>2. Inductive(S, n, mu, X)
        BY <2>2, <3>1 DEF Inductive
      <3>3. QED BY <3>2, ByMeasure
    <2>6. QED BY <2>0, <2>5
  <1>3. QED BY <1>1, <1>2 DEF Min, Max

\* The number that digits are.
LEMMA NatOfIsInt ==
    ASSUME NEW t, IsText(t) PROVE NatOf(t) \in Int
  <1>1. PICK L \in Nat : L = Len(t)
    BY DEF IsText
  <1>2. \A c : DigitOf(c) \in Int
    <2>1. ASSUME NEW c \in Digit PROVE \E d \in 0 .. 9 : Digits[d + 1] = c
      <3>1. PICK i \in DOMAIN Digits : c = Digits[i]
        BY DEF Digit, ToSet
      <3>2. DOMAIN Digits = 1 .. 10
        BY DEF Digits
      <3>3. i - 1 \in 0 .. 9 /\ (i - 1) + 1 = i
        BY <3>2
      <3>4. QED BY <3>1, <3>3
    <2>2. ASSUME NEW c \in Digit PROVE DigitOf(c) \in 0 .. 9
      <3>1. DigitOf(c) = CHOOSE d \in 0 .. 9 : Digits[d + 1] = c
        BY <2>2 DEF DigitOf
      <3>2. QED BY <2>1, <3>1
    <2>3. ASSUME NEW c, c \notin Digit PROVE DigitOf(c) = 0
      BY <2>3 DEF DigitOf
    <2>4. QED BY <2>2, <2>3
  <1> DEFINE Body(N, k) == IF k = 0 THEN 0 ELSE 10 * N[k - 1] + DigitOf(t[k])
             Is(N) == N = [k \in 0 .. L |-> Body(N, k)]
  <1>3. \E N : Is(N)
    <2>1. PICK mu : mu = [k \in 0 .. L |-> k]
      OBVIOUS
    <2>2. PICK step : step = [k \in 0 .. L |-> [N \in [0 .. L -> Int] |-> Body(N, k)]]
      OBVIOUS
    <2>3. mu \in [0 .. L -> 0 .. L] /\ 0 \in Int
      BY <2>1
    <2>4. ASSUME NEW k \in 0 .. L, NEW N \in [0 .. L -> Int] PROVE Body(N, k) \in Int
      <3>1. CASE k = 0
        BY <3>1
      <3>2. CASE k # 0
        <4>1. k - 1 \in 0 .. L
          BY <3>2
        <4>2. N[k - 1] \in Int /\ DigitOf(t[k]) \in Int
          BY <1>2, <4>1
        <4>3. QED BY <3>2, <4>2
      <3>3. QED BY <3>1, <3>2
    <2>5. step \in [0 .. L -> [[0 .. L -> Int] -> Int]]
      BY <2>2, <2>4
    <2>6. ASSUME NEW k \in 0 .. L, NEW f \in [0 .. L -> Int], NEW g \in [0 .. L -> Int],
                 \A j \in 0 .. L : mu[j] < mu[k] => f[j] = g[j]
          PROVE  step[k][f] = step[k][g]
      <3>1. k # 0 => k - 1 \in 0 .. L /\ mu[k - 1] < mu[k]
        BY <2>1
      <3>2. Body(f, k) = Body(g, k)
        BY <2>6, <3>1
      <3>3. QED BY <2>2, <3>2
    <2>7. PICK f \in [0 .. L -> Int] : \A k \in 0 .. L : f[k] = step[k][f]
      <3>1. Recursive(0 .. L, Int, L, mu, step)
        BY <2>3, <2>5, <2>6 DEF Recursive
      <3>2. PICK D, A : D = 0 .. L /\ A = Int
        OBVIOUS
      <3>3. Recursive(D, A, L, mu, step) /\ 0 \in A
        BY ONLY <3>1, <3>2, 0 \in Int
      <3>4. \E f \in [D -> A] : \A k \in D : f[k] = step[k][f]
        BY ONLY <3>3, ByRecursion
      <3>5. QED BY ONLY <3>2, <3>4
    <2>8. \A k \in 0 .. L : f[k] = Body(f, k)
      BY <2>2, <2>7
    <2>9. f = [k \in 0 .. L |-> Body(f, k)]
      BY <2>8
    <2>10. QED BY <2>9
  <1>4. PICK N : N = CHOOSE M : Is(M)
    OBVIOUS
  <1>5. Is(N)
    BY <1>3, <1>4
  <1>6. NatOf(t) = N[L]
    BY <1>1, <1>4 DEF NatOf
  <1>7. PICK X : X = {k \in 0 .. L : N[k] \in Int}
    OBVIOUS
  <1>8. \A k \in 0 .. L : N[k] = Body(N, k)
    BY <1>5
  <1>9. 0 \in X
    BY <1>7, <1>8
  <1>10. ASSUME NEW k \in X \cap (0 .. L), k < L PROVE k + 1 \in X
    <2>1. k + 1 \in 0 .. L /\ k + 1 # 0 /\ (k + 1) - 1 = k
      BY <1>10
    <2>2. N[k + 1] = 10 * N[k] + DigitOf(t[k + 1])
      BY <1>8, <2>1
    <2>3. N[k] \in Int /\ DigitOf(t[k + 1]) \in Int
      BY <1>2, <1>7
    <2>4. N[k + 1] \in Int
      BY <2>2, <2>3
    <2>5. QED BY <1>7, <2>1, <2>4
  <1>11. L \in X
    BY <1>9, <1>10, UpTo
  <1>12. QED BY <1>6, <1>7, <1>11

\* A text with or without its sign.
LEMMA IntOfIsInt ==
    ASSUME NEW t, IsText(t) PROVE IsText(Unsigned(t)) /\ IntOf(t) \in Int
  <1>1. IsText(Unsigned(t))
    BY TextsAre DEF Unsigned
  <1>2. NatOf(Unsigned(t)) \in Int /\ NatOf(t) \in Int
    BY <1>1, NatOfIsInt
  <1>3. QED BY <1>1, <1>2 DEF IntOf

\* The place of a symbol in a text, or behind it.
LEMMA AtIsPlace ==
    ASSUME NEW t, IsText(t), NEW c PROVE At(t, c) \in Int
  <1>1. PICK n \in Nat : n = Len(t) /\ DOMAIN t = 1 .. n
    BY DEF IsText
  <1>2. PICK I : I = {i \in DOMAIN t : t[i] = c}
    OBVIOUS
  <1>3. At(t, c) = IF I = {} THEN n + 1 ELSE Min(I)
    BY <1>1, <1>2 DEF At, FirstOf
  <1>4. CASE I = {}
    BY <1>3, <1>4
  <1>5. CASE I # {}
    <2>1. I \in SUBSET (1 .. n)
      BY <1>1, <1>2
    <2>2. Min(I) \in I
      BY <1>5, <2>1, EndsAre
    <2>3. At(t, c) \in 1 .. n
      BY <1>3, <1>5, <2>1, <2>2
    <2>4. QED BY <2>3
  <1>6. QED BY <1>4, <1>5

\* A real has digits and a power.
LEMMA RealIsNumber ==
    ASSUME NEW t, IsText(t)
    PROVE  IsText(RealOf(t).digits) /\ RealOf(t).power \in Int
  <1>1. PICK m : m = Unsigned(Mantissa(t))
    OBVIOUS
  <1>2. PICK L \in Nat : L = Len(t)
    BY DEF IsText
  <1>3. At(t, "e") \in Int
    BY AtIsPlace
  <1>4. IsText(Mantissa(t)) /\ IsText(Exponent(t))
    <2>1. At(t, "e") - 1 \in Int /\ At(t, "e") + 1 \in Int /\ 1 \in Int /\ Len(t) \in Int
      BY <1>2, <1>3
    <2>2. QED BY <2>1, TextsAre DEF Mantissa, Exponent
  <1>5. IsText(m)
    BY <1>1, <1>4, IntOfIsInt
  <1>6. PICK point \in Int : point = At(m, ".")
    BY <1>5, AtIsPlace
  <1>7. PICK M \in Nat : M = Len(m)
    BY <1>5 DEF IsText
  <1>8. PICK d : d = SubSeq(m, 1, point - 1) \o SubSeq(m, point + 1, Len(m))
    OBVIOUS
  <1>9. IsText(d)
    <2>1. point - 1 \in Int /\ point + 1 \in Int /\ 1 \in Int /\ Len(m) \in Int
      BY <1>7
    <2>2. QED BY <1>8, <2>1, TextsAre
  <1>10. PICK s : s = Significant(d)
    OBVIOUS
  <1>11. RealOf(t) = IF s = {} THEN [negative |-> Negative(t), digits |-> <<"0">>, power |-> 0]
                     ELSE [negative |-> Negative(t), digits |-> SubSeq(d, Min(s), Max(s)),
                           power |-> point - 1 - Min(s) + IntOf(Exponent(t))]
    BY <1>1, <1>6, <1>8, <1>10 DEF RealOf, Positional, Placed, RemoveAt
  <1>12. CASE s = {}
    <2>1. RealOf(t).digits = <<"0">> /\ RealOf(t).power = 0
      BY <1>11, <1>12
    <2>2. QED BY <2>1, TextsAre
  <1>13. CASE s # {}
    <2>1. PICK n \in Nat : n = Len(d) /\ DOMAIN d = 1 .. n
      BY <1>9 DEF IsText
    <2>2. s \in SUBSET (1 .. n)
      BY <1>10, <2>1 DEF Significant
    <2>3. Min(s) \in s /\ Max(s) \in s
      BY <1>13, <2>2, EndsAre
    <2>4. PICK i \in Int, j \in Int : i = Min(s) /\ j = Max(s)
      <3>1. Min(s) \in 1 .. n /\ Max(s) \in 1 .. n
        BY <2>2, <2>3
      <3>2. Min(s) \in Int /\ Max(s) \in Int
        BY <3>1
      <3>3. QED BY <3>2
    <2>5. PICK x \in Int : x = IntOf(Exponent(t))
      BY <1>4, IntOfIsInt
    <2>6. RealOf(t).digits = SubSeq(d, i, j) /\ RealOf(t).power = point - 1 - i + x
      BY <1>11, <1>13, <2>4, <2>5
    <2>7. QED BY <2>6, TextsAre
  <1>14. QED BY <1>12, <1>13

Zeros(n) == [i \in 1 .. Max({0, n}) |-> "0"]
Pointed(t, k) ==
    SubSeq(t, 1, k) \o (IF k < Len(t) THEN <<".">> \o SubSeq(t, k + 1, Len(t)) ELSE <<>>)

\* What the printer writes of a real is a text.
LEMMA PrintedIsText ==
    ASSUME NEW t, IsText(t) PROVE IsText(PrintedReal(RealOf(t)))
  <1>1. PICK r : r = RealOf(t)
    OBVIOUS
  <1>2. PICK n \in Nat : n = Len(r.digits)
    BY <1>1, RealIsNumber DEF IsText
  <1>3. PICK q \in Int : q = r.power
    BY <1>1, RealIsNumber
  <1>4. PICK g : g = r.digits /\ IsText(g) /\ n = Len(g)
    BY <1>1, <1>2, RealIsNumber
  <1>5. ASSUME NEW k \in Int PROVE IsText(Zeros(k))
    <2>1. \E x \in {0, k} : \A y \in {0, k} : x >= y
      <3>1. k >= 0 \/ 0 >= k
        OBVIOUS
      <3>2. QED BY <3>1
    <2>2. Max({0, k}) \in {0, k} /\ Max({0, k}) >= 0
      BY <2>1 DEF Max
    <2>3. Max({0, k}) \in Nat
      BY <2>2
    <2>4. Zeros(k) \in [1 .. Max({0, k}) -> {"0"}]
      BY DEF Zeros
    <2>5. QED BY <2>3, <2>4, SeqDef DEF IsText
  <1>6. ASSUME NEW s, IsText(s), NEW k \in Int PROVE IsText(Pointed(s, k))
    <2>1. PICK l \in Nat : l = Len(s)
      BY <1>6 DEF IsText
    <2>2. 1 \in Int /\ k + 1 \in Int /\ Len(s) \in Int
      BY <2>1
    <2>3. IsText(SubSeq(s, 1, k)) /\ IsText(SubSeq(s, k + 1, Len(s))) /\ IsText(<<".">>) /\ IsText(<<>>)
      BY <2>2, TextsAre
    <2>4. IsText(<<".">> \o SubSeq(s, k + 1, Len(s)))
      BY <2>3, TextsAre
    <2>5. QED BY <2>3, <2>4, TextsAre DEF Pointed
  <1>7. PICK fixed : fixed = (-5 < q /\ q < Precision)
    OBVIOUS
  <1>8. PICK d : d = IF q < 0 THEN Zeros(-q) \o g ELSE g \o Zeros(q + 1 - n)
    OBVIOUS
  <1>9. PICK whole : whole = IF q < 0 THEN 1 ELSE q + 1
    OBVIOUS
  <1>10. PICK text : text = IF fixed THEN Pointed(d, whole)
                            ELSE Pointed(g, 1) \o <<"e">>
                                   \o (IF q < 0 THEN <<"-">> \o TextOf(-q) ELSE TextOf(q))
    OBVIOUS
  <1>11. PrintedReal(r) =
            (IF r.negative THEN <<"-">> ELSE <<>>) \o text
              \o (IF ToSet(text) \cap {".", "e"} = {} THEN <<".", "0">> ELSE <<>>)
    BY <1>2, <1>3, <1>4, <1>7, <1>8, <1>9, <1>10 DEF PrintedReal, Zeros, Pointed
  <1>12. IsText(d)
    <2>1. -q \in Int /\ q + 1 - n \in Int
      OBVIOUS
    <2>2. IsText(Zeros(-q)) /\ IsText(Zeros(q + 1 - n))
      BY <1>5, <2>1
    <2>3. QED BY <1>4, <1>8, <2>2, TextsAre
  <1>13. whole \in Int /\ 1 \in Int
    BY <1>9
  <1>14. \A k : IsText(TextOf(k))
    BY TextsAre DEF TextOf
  <1>15. IsText(text)
    <2>1. IsText(Pointed(d, whole)) /\ IsText(Pointed(g, 1))
      BY <1>4, <1>6, <1>12, <1>13
    <2>2. IsText(<<"e">>) /\ IsText(<<"-">>) /\ IsText(<<"-">> \o TextOf(-q)) /\ IsText(TextOf(q))
      BY <1>14, TextsAre
    <2>3. PICK a, b : /\ a = Pointed(g, 1) \o <<"e">>
                      /\ b = (IF q < 0 THEN <<"-">> \o TextOf(-q) ELSE TextOf(q))
      OBVIOUS
    <2>4. IsText(a)
      BY <2>1, <2>2, <2>3, TextsAre
    <2>5. IsText(b)
      BY <2>2, <2>3
    <2>6. IsText(a \o b)
      BY <2>4, <2>5, TextsAre
    <2>7. QED BY <1>10, <2>1, <2>3, <2>6
  <1>16. PICK a, b : /\ a = (IF r.negative THEN <<"-">> ELSE <<>>)
                     /\ b = (IF ToSet(text) \cap {".", "e"} = {} THEN <<".", "0">> ELSE <<>>)
    OBVIOUS
  <1>17. IsText(a) /\ IsText(b)
    <2>1. IsText(<<"-">>) /\ IsText(<<>>) /\ IsText(<<".", "0">>)
      BY TextsAre
    <2>2. QED BY <1>16, <2>1
  <1>18. IsText(a \o text)
    BY <1>15, <1>17, TextsAre
  <1>19. IsText((a \o text) \o b)
    BY <1>17, <1>18, TextsAre
  <1>20. QED BY <1>1, <1>11, <1>16, <1>19

-----------------------------------------------------------------------------
(* Strings that are read.                                                   *)

\* The characters of the escapes are texts.
LEMMA EscapedIsText ==
    IsText(Astral) /\ \A x \in DOMAIN Escaped : IsText(Escaped[x])
  BY EscapedAssumption DEF IsText

\* What the loop over a text writes is a text.
LEMMA DecodedIsText ==
    ASSUME NEW t, IsText(t) PROVE IsText(Decode(t).bytes)
  <1>1. PICK S : t \in Seq(S)
    BY DEF IsText
  <1>2. PICK L \in Nat : L = Len(t)
    BY <1>1
  <1>3. \E D : Decodes(D, t)
    <2>1. CASE t = <<>>
      <3>1. Len(t) = 0
        BY <2>1
      <3>2. PICK D : D = [i \in 2 .. Len(t) + 6 |-> DecodedIf(t, i, <<>>)]
        OBVIOUS
      <3>3. ASSUME NEW i \in 2 .. Len(t) + 6 PROVE DecodedIf(t, i, <<>>) = DecodedIf(t, i, D)
        <4>1. i \in Nat /\ ~(i <= Len(t)) /\ Len(t) \in Nat
          BY <3>1, <3>3
        <4>2. QED BY <4>1, DecodedSame
      <3>4. D = [i \in 2 .. Len(t) + 6 |-> DecodedIf(t, i, D)]
        BY <3>2, <3>3
      <3>5. QED BY <3>4 DEF Decodes
    <2>2. CASE t # <<>>
      BY <1>1, <2>2, SomeDecodes
    <2>3. QED BY <2>1, <2>2
  <1>4. PICK E : E = CHOOSE D : Decodes(D, t)
    OBVIOUS
  <1>5. \A i \in 2 .. L + 6 : E[i] = DecodedIf(t, i, E)
    BY <1>2, <1>3, <1>4 DEF Decodes
  <1>6. PICK X : X = {i \in 2 .. L + 6 : IsText(E[i].bytes)}
    OBVIOUS
  <1>7. PICK mu : mu = [i \in 2 .. L + 6 |-> L + 6 - i]
    OBVIOUS
  <1>8. mu \in [2 .. L + 6 -> 0 .. L + 6]
    BY <1>7
  <1>9. ASSUME NEW i \in 2 .. L + 6, \A j \in 2 .. L + 6 : mu[j] < mu[i] => j \in X
        PROVE  i \in X
    <2>1. ASSUME i <= L, NEW k \in 1 .. 6 PROVE IsText(E[i + k].bytes)
      <3>1. i + k \in 2 .. L + 6 /\ mu[i + k] < mu[i]
        BY <1>7, <2>1
      <3>2. QED BY <1>6, <1>9, <3>1
    <2>3. PICK a1, a2, a3, a4, a5, a6 :
             /\ a1 = ByteAt(t, i) /\ a2 = ByteAt(t, i + 1) /\ a3 = ByteAt(t, i + 2)
             /\ a4 = ByteAt(t, i + 3) /\ a5 = ByteAt(t, i + 4) /\ a6 = ByteAt(t, i + 5)
      OBVIOUS
    <2>4. ASSUME i <= L, NEW b, IsText(b), NEW k \in 1 .. 6,
                 E[i] = [how |-> E[i + k].how, bytes |-> b \o E[i + k].bytes]
          PROVE  IsText(E[i].bytes)
      <3>1. IsText(b \o E[i + k].bytes)
        BY <2>1, <2>4, TextsAre
      <3>2. QED BY <2>4, <3>1
    <2>5. ASSUME NEW how, E[i] = [how |-> how, bytes |-> <<>>] PROVE IsText(E[i].bytes)
      <3>1. E[i].bytes = <<>>
        BY <2>5
      <3>2. QED BY <3>1, TextsAre
    <2>6. \/ \E how : E[i] = [how |-> how, bytes |-> <<>>]
          \/ /\ i <= L
             /\ \/ E[i] = [how |-> E[i + 2].how, bytes |-> <<a2>> \o E[i + 2].bytes]
                \/ E[i] = [how |-> E[i + 2].how, bytes |-> <<"newline">> \o E[i + 2].bytes]
                \/ a3 \in DOMAIN Escaped
                     /\ E[i] = [how |-> E[i + 3].how, bytes |-> Escaped[a3] \o E[i + 3].bytes]
                \/ E[i] = [how |-> E[i + 6].how, bytes |-> Astral \o E[i + 6].bytes]
                \/ E[i] = [how |-> E[i + 1].how, bytes |-> <<a1>> \o E[i + 1].bytes]
      <3>1. CASE i > L
        <4>1. Quote # "nul" /\ Backslash # "nul" /\ ~(i <= Len(t))
          BY <1>2, <3>1 DEF Quote, Backslash
        <4>2. E[i] = [how |-> "overrun", bytes |-> <<>>]
          BY <1>2, <1>5, <3>1, <4>1 DEF DecodedIf
        <4>3. QED BY <4>2
      <3>2. CASE ~(i > L)
        <4>1. i <= L /\ ~(i > Len(t))
          BY <1>2, <3>2
        <4>2. E[i] = DecodedIf(t, i, E)
          BY <1>5
        <4>3. QED BY <2>3, <4>1, <4>2 DEF DecodedIf, ByteAt
      <3>3. QED BY <3>1, <3>2
    <2>7. /\ IsText(<<a1>>) /\ IsText(<<a2>>) /\ IsText(<<"newline">>) /\ IsText(Astral)
          /\ a3 \in DOMAIN Escaped => IsText(Escaped[a3])
      BY TextsAre, EscapedIsText
    <2>8. IsText(E[i].bytes)
      <3>1. CASE \E how : E[i] = [how |-> how, bytes |-> <<>>]
        BY <2>5, <3>1
      <3>2. ASSUME i <= L, NEW b, IsText(b), NEW k \in {1, 2, 3, 6},
                   E[i] = [how |-> E[i + k].how, bytes |-> b \o E[i + k].bytes]
            PROVE  IsText(E[i].bytes)
        <4>1. k \in 1 .. 6
          OBVIOUS
        <4>2. QED BY <2>4, <3>2, <4>1
      <3>3. CASE i <= L /\ E[i] = [how |-> E[i + 2].how, bytes |-> <<a2>> \o E[i + 2].bytes]
        BY <2>7, <3>2, <3>3
      <3>4. CASE i <= L /\ E[i] = [how |-> E[i + 2].how, bytes |-> <<"newline">> \o E[i + 2].bytes]
        BY <2>7, <3>2, <3>4
      <3>5. CASE /\ i <= L /\ a3 \in DOMAIN Escaped
                 /\ E[i] = [how |-> E[i + 3].how, bytes |-> Escaped[a3] \o E[i + 3].bytes]
        BY <2>7, <3>2, <3>5
      <3>6. CASE i <= L /\ E[i] = [how |-> E[i + 6].how, bytes |-> Astral \o E[i + 6].bytes]
        BY <2>7, <3>2, <3>6
      <3>7. CASE i <= L /\ E[i] = [how |-> E[i + 1].how, bytes |-> <<a1>> \o E[i + 1].bytes]
        BY <2>7, <3>2, <3>7
      <3>8. QED BY <2>6, <3>1, <3>3, <3>4, <3>5, <3>6, <3>7
    <2>9. QED BY <1>6, <2>8
  <1>10. Inductive(2 .. L + 6, L + 6, mu, X)
    <2>1. L + 6 \in Nat
      OBVIOUS
    <2>2. QED BY <1>8, <1>9, <2>1 DEF Inductive
  <1>11. 2 \in X
    <2>1. 2 .. L + 6 \subseteq X
      BY <1>10, ByMeasure
    <2>2. QED BY <2>1
  <1>12. Decode(t) = E[2]
    BY <1>4, DecodeIs
  <1>13. QED BY <1>6, <1>11, <1>12

-----------------------------------------------------------------------------
(* Values.                                                                  *)

\* Pairs of a key and a value in V.
PairsOf(m, V) == \A p \in m : \E k, w : IsText(k) /\ w \in V /\ p = <<k, w>>

\* A value, with the values in V for its members.
ValueOf(v, V) ==
    \/ v = <<"true">>
    \/ \E t : IsText(t) /\ v \in {<<"integer", t>>, <<"real", RealOf(t)>>, <<"string", t>>}
    \/ \E m \in Seq(V) : v = <<"array", m>>
    \/ \E m : v = <<"object", m>> /\ IsFiniteSet(m) /\ PairsOf(m, V)

\* A value is one of a set of values whose members are in the set.
ValuesOf(V) == \A w \in V : ValueOf(w, V)
IsValue(v) == \E V : v \in V /\ ValuesOf(V)

\* The members of a value may be in a greater set.
LEMMA ValueOfMore ==
    ASSUME NEW v, NEW V, NEW W, V \subseteq W, ValueOf(v, V) PROVE ValueOf(v, W)
  <1>1. \A m \in Seq(V) : m \in Seq(W)
    OBVIOUS
  <1>2. \A m : PairsOf(m, V) => PairsOf(m, W)
    BY DEF PairsOf
  <1>3. QED BY <1>1, <1>2 DEF ValueOf

\* Values join, and one that is made of them is a value.
LEMMA ValuesJoin ==
    ASSUME NEW V, ValuesOf(V), NEW W, ValuesOf(W), NEW v, ValueOf(v, V \cup W)
    PROVE  IsValue(v) /\ ValuesOf(V \cup W)
  <1>1. PICK U : U = V \cup W \cup {v}
    OBVIOUS
  <1>2. V \subseteq U /\ W \subseteq U /\ V \cup W \subseteq U /\ v \in U
    BY <1>1
  <1>3. ASSUME NEW w \in U PROVE ValueOf(w, U)
    <2>1. CASE w \in V
      BY <1>2, <2>1, ValueOfMore DEF ValuesOf
    <2>2. CASE w \in W
      BY <1>2, <2>2, ValueOfMore DEF ValuesOf
    <2>3. CASE w = v
      BY <1>2, <2>3, ValueOfMore
    <2>4. QED BY <1>1, <2>1, <2>2, <2>3
  <1>4. ASSUME NEW w \in V \cup W PROVE ValueOf(w, V \cup W)
    <2>1. CASE w \in V
      BY <2>1, ValueOfMore DEF ValuesOf
    <2>2. CASE w \in W
      BY <2>2, ValueOfMore DEF ValuesOf
    <2>3. QED BY <2>1, <2>2
  <1>5. QED BY <1>2, <1>3, <1>4 DEF ValuesOf, IsValue

\* Literals, numbers, strings and empty containers are values.
LEMMA SimpleValues ==
    /\ IsValue(<<"true">>) /\ IsValue(<<"array", <<>>>>) /\ IsValue(<<"object", {}>>)
    /\ \A t : IsText(t) => /\ IsValue(<<"integer", t>>) /\ IsValue(<<"string", t>>)
                           /\ IsValue(<<"real", RealOf(t)>>)
  <1>1. ASSUME NEW v, ValueOf(v, {}) PROVE IsValue(v)
    <2>1. ValuesOf({}) /\ {} \cup {} = {}
      BY DEF ValuesOf
    <2>2. ValueOf(v, {} \cup {})
      BY <1>1, <2>1
    <2>3. QED BY <2>1, <2>2, ValuesJoin
  <1>2. ValueOf(<<"true">>, {})
    BY DEF ValueOf
  <1>3. ValueOf(<<"array", <<>>>>, {})
    <2>1. <<>> \in Seq({})
      OBVIOUS
    <2>2. QED BY <2>1 DEF ValueOf
  <1>4. ValueOf(<<"object", {}>>, {})
    <2>1. IsFiniteSet({})
      BY FS_EmptySet
    <2>2. PairsOf({}, {})
      BY DEF PairsOf
    <2>3. QED BY <2>1, <2>2 DEF ValueOf
  <1>5. \A t : IsText(t) => /\ ValueOf(<<"integer", t>>, {}) /\ ValueOf(<<"string", t>>, {})
                            /\ ValueOf(<<"real", RealOf(t)>>, {})
    BY DEF ValueOf
  <1>6. QED BY <1>1, <1>2, <1>3, <1>4, <1>5

\* What is an array or an object has what one has.
LEMMA MembersAre ==
    ASSUME NEW V, NEW m
    PROVE  /\ ValueOf(<<"array", m>>, V) => m \in Seq(V)
           /\ ValueOf(<<"object", m>>, V) => IsFiniteSet(m) /\ PairsOf(m, V)
           /\ \A t : ValueOf(<<"string", t>>, V) \/ ValueOf(<<"integer", t>>, V) => IsText(t)
           /\ \A r : ValueOf(<<"real", r>>, V) => \E t : IsText(t) /\ r = RealOf(t)
  <1>1. \A x, y, a, b : <<x, a>> = <<y, b>> => x = y /\ a = b
    OBVIOUS
  <1>2. \A x, a : <<x, a>> # <<"true">>
    OBVIOUS
  <1>3. ASSUME ValueOf(<<"array", m>>, V) PROVE m \in Seq(V)
    <2>1. "array" \notin {"integer", "real", "string", "object"}
      OBVIOUS
    <2>2. QED BY <1>1, <1>2, <1>3, <2>1 DEF ValueOf
  <1>4. ASSUME ValueOf(<<"object", m>>, V)
        PROVE  IsFiniteSet(m) /\ PairsOf(m, V)
    <2>1. "object" \notin {"integer", "real", "string", "array"}
      OBVIOUS
    <2>2. QED BY <1>1, <1>2, <1>4, <2>1 DEF ValueOf
  <1>5. ASSUME NEW t, ValueOf(<<"string", t>>, V) \/ ValueOf(<<"integer", t>>, V) PROVE IsText(t)
    <2>1. {"string", "integer"} \cap {"real", "array", "object"} = {}
      OBVIOUS
    <2>2. QED BY <1>1, <1>2, <1>5, <2>1 DEF ValueOf
  <1>6. ASSUME NEW r, ValueOf(<<"real", r>>, V) PROVE \E t : IsText(t) /\ r = RealOf(t)
    <2>1. "real" \notin {"integer", "string", "array", "object"}
      OBVIOUS
    <2>2. QED BY <1>1, <1>2, <1>6, <2>1 DEF ValueOf
  <1>7. QED BY <1>3, <1>4, <1>5, <1>6

\* A container with one more member is a value.
LEMMA ContainerGrows ==
    ASSUME NEW m, NEW v, IsValue(v)
    PROVE  /\ IsValue(<<"array", m>>) => IsValue(<<"array", Append(m, v)>>)
           /\ \A k : IsValue(<<"object", m>>) /\ IsText(k)
                 => IsValue(<<"object", {p \in m : p[1] # k} \cup {<<k, v>>}>>)
  <1>1. PICK W : v \in W /\ ValuesOf(W)
    BY DEF IsValue
  <1>2. ASSUME IsValue(<<"array", m>>) PROVE IsValue(<<"array", Append(m, v)>>)
    <2>1. PICK V : <<"array", m>> \in V /\ ValuesOf(V)
      BY <1>2 DEF IsValue
    <2>2. m \in Seq(V)
      BY <2>1, MembersAre DEF ValuesOf
    <2>3. PICK U : U = V \cup W
      OBVIOUS
    <2>4. m \in Seq(U) /\ v \in U
      BY <1>1, <2>2, <2>3
    <2>5. Append(m, v) \in Seq(U)
      BY <2>4
    <2>6. ValueOf(<<"array", Append(m, v)>>, U)
      BY <2>5 DEF ValueOf
    <2>7. QED BY <1>1, <2>1, <2>3, <2>6, ValuesJoin
  <1>3. ASSUME IsValue(<<"object", m>>), NEW k, IsText(k)
        PROVE  IsValue(<<"object", {p \in m : p[1] # k} \cup {<<k, v>>}>>)
    <2>1. PICK V : <<"object", m>> \in V /\ ValuesOf(V)
      BY <1>3 DEF IsValue
    <2>2. IsFiniteSet(m) /\ PairsOf(m, V)
      <3>1. ValueOf(<<"object", m>>, V)
        BY <2>1 DEF ValuesOf
      <3>2. QED BY <3>1, MembersAre
    <2>3. PICK U : U = V \cup W
      OBVIOUS
    <2>4. PICK n : n = {p \in m : p[1] # k} \cup {<<k, v>>}
      OBVIOUS
    <2>5. IsFiniteSet(n)
      <3>1. IsFiniteSet({p \in m : p[1] # k})
        BY <2>2, FS_Subset
      <3>2. QED BY <2>4, <3>1, FS_AddElement
    <2>6. ASSUME NEW p \in n PROVE \E l, w : IsText(l) /\ w \in U /\ p = <<l, w>>
      <3>1. CASE p \in m
        BY <2>2, <2>3, <3>1 DEF PairsOf
      <3>2. CASE p = <<k, v>>
        BY <1>1, <1>3, <2>3, <3>2
      <3>3. QED BY <2>4, <3>1, <3>2
    <2>7. ValueOf(<<"object", n>>, U)
      BY <2>5, <2>6 DEF ValueOf, PairsOf
    <2>8. IsValue(<<"object", n>>)
      BY <1>1, <2>1, <2>3, <2>7, ValuesJoin
    <2>9. QED BY <2>4, <2>8
  <1>4. QED BY <1>2, <1>3

-----------------------------------------------------------------------------
(* The parser.                                                              *)

\* A token has the value of its type.
TokenGood(k) ==
    /\ k.type \in {"string", "integer"} => IsText(k.value)
    /\ k.type = "real" => \E t : IsText(t) /\ k.value = RealOf(t)

\* A container under way.
FrameFits(f) ==
    /\ f = [kind |-> f.kind, key |-> f.key, members |-> f.members]
    /\ f.kind \in {"array", "object"} /\ IsText(f.key) /\ IsValue(<<f.kind, f.members>>)
StackFits(s) == \E F : s \in Seq(F) /\ \A f \in F : FrameFits(f)

\* A container is under way where the parser waits for what is in one, and there is a
\* value when nothing but the end of the text may come.
InContainer(s, e, l) == s = "run" /\ e \notin {"top", "eof"} => l # <<>>
HasValue(s, e, v) == (s = "run" /\ e = "eof") \/ s = "accepted" => IsValue(v)

ParserFits ==
    /\ lex = "done" => TokenGood(token)
    /\ StackFits(stack) /\ InContainer(status, expect, stack) /\ HasValue(status, expect, result)

\* The token of a text.
LEMMA TokenIsGood ==
    ASSUME NEW t, IsText(t), NEW type PROVE TokenGood(Token(type, t))
  <1>1. IsText(IntegerOf(t)) /\ IsText(<<>>) /\ IsText(t)
    BY TextsAre DEF IntegerOf
  <1>2. ASSUME NEW x, NEW v, x \notin {"real"} /\ IsText(v) PROVE TokenGood([type |-> x, value |-> v])
    BY <1>2 DEF TokenGood
  <1>3. TokenGood([type |-> "real", value |-> RealOf(t)])
    BY <1>1 DEF TokenGood
  <1>4. NoToken = [type |-> "invalid", value |-> <<>>]
        /\ [NoToken EXCEPT !.type = "abort"] = [type |-> "abort", value |-> <<>>]
    BY DEF NoToken
  <1>5. Token(type, t) \in {[type |-> "integer", value |-> IntegerOf(t)],
                            [type |-> "abort", value |-> <<>>],
                            [type |-> "real", value |-> RealOf(t)],
                            [type |-> "true", value |-> <<>>],
                            [type |-> "invalid", value |-> <<>>]}
    BY <1>4 DEF Token
  <1>6. QED BY <1>1, <1>2, <1>3, <1>5

\* What a step of the lexical analyzer leaves.
LexerLeaves ==
    /\ UNCHANGED <<expect, stack, result>> /\ status' \in {status, "aborted", "overrun"}
    /\ lex' = "done" => TokenGood(token')

\* What it does of a byte.
LEMMA ByteLeaves ==
    ASSUME HasRoom(saved), lex # "done", NEW g, NEW r \in Saves(g.c),
           \/ \E type : PutBack(g, r, type)
           \/ EndString(g, r)
           \/ Running /\ (GiveUp(g, r) \/ \E l \in {"minus", "zero", "digits", "point", "fraction", "exponent",
                                                    "sign", "power", "string", "escape", "hex", "word"} :
                                              Keep(g, r, l))
    PROVE  LexerLeaves
  <1>1. HasRoom(r.buffer) /\ HasRoom(Popped(r.buffer))
    BY SavesHasRoom
  <1>2. IsText(r.buffer.value) /\ IsText(Popped(r.buffer).value)
    BY <1>1 DEF HasRoom, TextBuffer, IsText
  <1>3. TokenGood([type |-> "invalid", value |-> <<>>])
    BY DEF TokenGood
  <1>4. ASSUME NEW type, PutBack(g, r, type) PROVE LexerLeaves
    <2>1. PICK left : left = IF g.c \in End THEN r.buffer ELSE Popped(r.buffer)
      OBVIOUS
    <2>2. PICK token1 : token1 = Token(type, left.value)
      OBVIOUS
    <2>3. TokenGood(token1)
      BY <1>2, <2>1, <2>2, TokenIsGood
    <2>4. Abort(g, r) \/ (lex' = "done" /\ token' = token1 /\ Running)
      BY <1>4, <2>1, <2>2 DEF PutBack
    <2>5. CASE Abort(g, r)
      BY <2>5 DEF Abort, LexerLeaves
    <2>6. CASE lex' = "done" /\ token' = token1 /\ Running
      BY <2>3, <2>6 DEF Running, LexerLeaves
    <2>7. QED BY <2>4, <2>5, <2>6
  <1>5. ASSUME EndString(g, r) PROVE LexerLeaves
    <2>1. PICK d : d = Decode(r.buffer.value)
      OBVIOUS
    <2>2. IsText(d.bytes)
      BY <1>2, <2>1, DecodedIsText
    <2>3. \/ Lexed("string", d.bytes) /\ UNCHANGED status
          \/ Invalid /\ UNCHANGED status
          \/ status' \in {"aborted", "overrun"} /\ UNCHANGED <<lex, token>>
      BY <1>5, <2>1 DEF EndString
    <2>4. UNCHANGED <<expect, stack, result>>
      BY <1>5 DEF EndString
    <2>5. CASE Lexed("string", d.bytes) /\ UNCHANGED status
      BY <2>2, <2>4, <2>5 DEF Lexed, LexerLeaves, TokenGood
    <2>6. CASE Invalid /\ UNCHANGED status
      BY <1>3, <2>4, <2>6 DEF Invalid, Lexed, LexerLeaves
    <2>7. CASE status' \in {"aborted", "overrun"} /\ UNCHANGED <<lex, token>>
      BY <2>4, <2>7 DEF LexerLeaves
    <2>8. QED BY <2>3, <2>5, <2>6, <2>7
  <1>6. ASSUME Running, GiveUp(g, r) PROVE LexerLeaves
    BY <1>3, <1>6 DEF GiveUp, Invalid, Lexed, Running, LexerLeaves
  <1>7. ASSUME Running, NEW l, l # "done", Keep(g, r, l) PROVE LexerLeaves
    BY <1>7 DEF Keep, Goto, Running, LexerLeaves
  <1>8. QED BY <1>4, <1>5, <1>6, <1>7

\* The lexical analyzer leaves the parser alone until it has a token.
LEMMA LexerGoes ==
    ASSUME HasRoom(saved), Scan \/ ScanString \/ ScanNumber \/ ScanPoint \/ ScanWord
    PROVE  LexerLeaves
  <1>0. TokenGood([type |-> "invalid", value |-> <<>>])
    BY DEF TokenGood
  <1>1. CASE Scan
    <2>1. PICK c : \/ lex' \in {"start", "string", "minus", "zero", "digits", "word"}
                   \/ Lexed("eof", <<>>) \/ Invalid
                   \/ c \in Structural /\ Lexed(c, <<>>)
      BY <1>1 DEF Scan, Goto
    <2>2. Running
      BY <1>1 DEF Scan
    <2>3. Structural \cap {"string", "integer", "real"} = {}
      BY DEF Structural
    <2>4. lex' = "done" => TokenGood(token')
      BY <1>0, <2>1, <2>3 DEF Lexed, Invalid, TokenGood
    <2>5. QED BY <2>2, <2>4 DEF Running, LexerLeaves
  <1>2. CASE ScanString
    <2>1. PICK g : \E r \in Saves(g.c) : StringGoes(g, r)
      BY <1>2 DEF ScanString, StringGoes
    <2>2. PICK r \in Saves(g.c) : StringGoes(g, r)
      BY <2>1
    <2>3. \/ \E type : PutBack(g, r, type)
          \/ EndString(g, r)
          \/ Running /\ (GiveUp(g, r) \/ \E l \in {"string", "escape", "hex"} : Keep(g, r, l))
      BY <2>2 DEF StringGoes
    <2>4. lex # "done"
      BY <1>2 DEF ScanString
    <2>5. QED BY <2>3, <2>4, ByteLeaves
  <1>3. CASE ScanNumber
    <2>1. PICK g : \E r \in Saves(g.c) : NumberGoes(g, r)
      BY <1>3 DEF ScanNumber, NumberGoes
    <2>2. PICK r \in Saves(g.c) : NumberGoes(g, r)
      BY <2>1
    <2>3. \/ \E type : PutBack(g, r, type)
          \/ Running /\ \E l \in {"zero", "digits", "point", "fraction", "exponent", "sign", "power"} :
                            Keep(g, r, l)
      BY <2>2 DEF NumberGoes
    <2>4. lex # "done"
      BY <1>3 DEF ScanNumber
    <2>5. QED BY <2>3, <2>4, ByteLeaves
  <1>4. CASE ScanPoint
    <2>1. PICK g : \/ \E r \in Saves(g.c) : Keep(g, r, "fraction")
                   \/ Invalid
      BY <1>4 DEF ScanPoint
    <2>2. Running /\ lex # "done"
      BY <1>4 DEF ScanPoint
    <2>3. ASSUME NEW r \in Saves(g.c), Keep(g, r, "fraction") PROVE LexerLeaves
      BY <2>2, <2>3, ByteLeaves
    <2>4. ASSUME Invalid PROVE LexerLeaves
      BY <1>0, <2>2, <2>4 DEF Invalid, Lexed, Running, LexerLeaves
    <2>5. QED BY <2>1, <2>3, <2>4
  <1>5. CASE ScanWord
    <2>1. PICK g : \E r \in Saves(g.c) : (Keep(g, r, "word") /\ Running) \/ PutBack(g, r, "true")
      BY <1>5 DEF ScanWord
    <2>2. PICK r \in Saves(g.c) : (Keep(g, r, "word") /\ Running) \/ PutBack(g, r, "true")
      BY <2>1
    <2>3. lex # "done"
      BY <1>5 DEF ScanWord
    <2>4. QED BY <2>2, <2>3, ByteLeaves
  <1>6. QED BY <1>1, <1>2, <1>3, <1>4, <1>5

\* What a step of the parser leaves of its stack and result.
StackLeft ==
    StackFits(stack') /\ InContainer(status', expect', stack') /\ HasValue(status', expect', result')

\* A container is put on the stack, taken from it, or changed.
LEMMA StackIs ==
    ASSUME NEW s, StackFits(s)
    PROVE  /\ StackFits(<<>>)
           /\ \A f : FrameFits(f) => StackFits(Append(s, f)) /\ Append(s, f) # <<>>
           /\ s # <<>> => FrameFits(Last(s)) /\ StackFits(Front(s))
  <1>1. PICK F : s \in Seq(F) /\ \A f \in F : FrameFits(f)
    BY DEF StackFits
  <1>2. StackFits(<<>>)
    <2>1. <<>> \in Seq(F)
      OBVIOUS
    <2>2. QED BY <1>1, <2>1 DEF StackFits
  <1>3. ASSUME NEW f, FrameFits(f) PROVE StackFits(Append(s, f)) /\ Append(s, f) # <<>>
    <2>1. PICK G : G = F \cup {f}
      OBVIOUS
    <2>2. s \in Seq(G) /\ f \in G
      BY <1>1, <2>1
    <2>3. Append(s, f) \in Seq(G) /\ Append(s, f) # <<>>
      <3>1. Append(s, f) \in Seq(G) /\ Len(Append(s, f)) = Len(s) + 1 /\ Len(s) \in Nat
        BY <2>2
      <3>2. Len(<<>>) = 0
        OBVIOUS
      <3>3. QED BY <3>1, <3>2
    <2>4. \A h \in G : FrameFits(h)
      BY <1>1, <1>3, <2>1
    <2>5. QED BY <2>3, <2>4 DEF StackFits
  <1>4. ASSUME s # <<>> PROVE FrameFits(Last(s)) /\ StackFits(Front(s))
    <2>1. PICK n \in Nat : n = Len(s) /\ n > 0
      BY <1>1, <1>4
    <2>2. Last(s) \in F
      BY <1>1, <2>1 DEF Last
    <2>3. Front(s) = SubSeq(s, 1, n - 1)
      BY <2>1 DEF Front
    <2>4. SubSeq(s, 1, n - 1) \in Seq(F)
      BY <1>1, <2>1
    <2>5. QED BY <1>1, <2>2, <2>3, <2>4 DEF StackFits
  <1>5. QED BY <1>2, <1>3, <1>4

\* A container may be given a key, or one more member.
LEMMA FrameGrows ==
    ASSUME NEW f, FrameFits(f)
    PROVE  /\ \A k : IsText(k) => FrameFits([f EXCEPT !.key = k])
           /\ \A v : IsValue(v) =>
                 FrameFits(IF f.kind = "array" THEN [f EXCEPT !.members = Append(@, v)]
                           ELSE [f EXCEPT !.members = {p \in @ : p[1] # f.key} \cup {<<f.key, v>>}])
  <1>1. PICK x, k, m : f = [kind |-> x, key |-> k, members |-> m]
    BY DEF FrameFits
  <1>2. f.kind = x /\ f.key = k /\ f.members = m
    BY <1>1
  <1>3. x \in {"array", "object"} /\ IsText(k) /\ IsValue(<<x, m>>)
    BY <1>2 DEF FrameFits
  <1>4. ASSUME NEW l, IsText(l), NEW n, IsValue(<<x, n>>)
        PROVE  FrameFits([kind |-> x, key |-> l, members |-> n])
    BY <1>3, <1>4 DEF FrameFits
  <1>5. ASSUME NEW l, IsText(l) PROVE FrameFits([f EXCEPT !.key = l])
    <2>1. [f EXCEPT !.key = l] = [kind |-> x, key |-> l, members |-> m]
      BY <1>1
    <2>2. QED BY <1>3, <1>4, <1>5, <2>1
  <1>6. ASSUME NEW v, IsValue(v)
        PROVE  FrameFits(IF f.kind = "array" THEN [f EXCEPT !.members = Append(@, v)]
                         ELSE [f EXCEPT !.members = {p \in @ : p[1] # f.key} \cup {<<f.key, v>>}])
    <2>1. CASE x = "array"
      <3>1. [f EXCEPT !.members = Append(@, v)] = [kind |-> x, key |-> k, members |-> Append(m, v)]
        BY <1>1
      <3>2. IsValue(<<x, Append(m, v)>>)
        BY <1>3, <1>6, <2>1, ContainerGrows
      <3>3. QED BY <1>2, <1>3, <1>4, <2>1, <3>1, <3>2
    <2>2. CASE x = "object"
      <3>1. PICK n : n = {p \in m : p[1] # k} \cup {<<k, v>>}
        OBVIOUS
      <3>2. [f EXCEPT !.members = n] = [kind |-> x, key |-> k, members |-> n]
        BY <1>1
      <3>3. [f EXCEPT !.members = {p \in @ : p[1] # f.key} \cup {<<f.key, v>>}] = [f EXCEPT !.members = n]
        BY <1>2, <3>1
      <3>4. IsValue(<<x, n>>)
        BY <1>3, <1>6, <2>2, <3>1, ContainerGrows
      <3>5. QED BY <1>2, <1>3, <1>4, <2>2, <3>2, <3>3, <3>4
    <2>3. QED BY <1>3, <2>1, <2>2
  <1>7. QED BY <1>5, <1>6

\* A value is returned to its container, or is the result.
LEMMA ReturnFits ==
    ASSUME status = "run", StackFits(stack), NEW v, IsValue(v), NEW outer, StackFits(outer),
           Return(v, outer)
    PROVE  StackLeft
  <1>1. PICK m : IF ~m.ok THEN status' = "rejected" /\ UNCHANGED <<lex, expect, stack, result>>
                 ELSE IF outer = <<>>
                      THEN /\ stack' = outer /\ result' = v
                           /\ IF Flag("noeof") THEN status' = "accepted" /\ UNCHANGED <<lex, expect>>
                              ELSE NextToken("eof") /\ UNCHANGED status
                      ELSE LET f == Last(outer)
                           IN  /\ stack' = Append(Front(outer),
                                     IF f.kind = "array"
                                     THEN [f EXCEPT !.members = Append(@, v)]
                                     ELSE [f EXCEPT !.members =
                                              {p \in @ : p[1] # f.key} \cup {<<f.key, v>>}])
                               /\ NextToken(IF f.kind = "array" THEN "next]" ELSE "next}")
                               /\ UNCHANGED <<status, result>>
    BY DEF Return
  <1>2. CASE ~m.ok
    <2>1. status' = "rejected" /\ stack' = stack
      BY <1>1, <1>2
    <2>2. QED BY <2>1 DEF StackLeft, InContainer, HasValue
  <1>3. CASE m.ok /\ outer = <<>>
    <2>1. stack' = outer /\ result' = v /\ (status' = "accepted" \/ (expect' = "eof" /\ status' = "run"))
      BY <1>1, <1>3 DEF NextToken
    <2>2. QED BY <2>1 DEF StackLeft, InContainer, HasValue
  <1>4. CASE m.ok /\ outer # <<>>
    <2>1. PICK f : f = Last(outer)
      OBVIOUS
    <2>2. PICK h : h = IF f.kind = "array" THEN [f EXCEPT !.members = Append(@, v)]
                       ELSE [f EXCEPT !.members = {p \in @ : p[1] # f.key} \cup {<<f.key, v>>}]
      OBVIOUS
    <2>3. FrameFits(f) /\ StackFits(Front(outer))
      BY <1>4, <2>1, StackIs
    <2>4. FrameFits(h)
      BY <2>2, <2>3, FrameGrows
    <2>5. stack' = Append(Front(outer), h) /\ expect' \in {"next]", "next}"} /\ status' = status
      BY <1>1, <1>4, <2>1, <2>2 DEF NextToken
    <2>6. StackFits(stack') /\ stack' # <<>>
      BY <2>3, <2>4, <2>5, StackIs
    <2>7. QED BY <2>5, <2>6 DEF StackLeft, InContainer, HasValue
  <1>5. QED BY <1>2, <1>3, <1>4

\* The other pieces of the parser.
LEMMA OpenFits ==
    ASSUME status = "run", StackFits(stack)
    PROVE  /\ \A kind \in {"array", "object"} : \A e : e \notin {"top", "eof"} /\ Open(kind, e) => StackLeft
           /\ \A e : e \notin {"top", "eof"} /\ stack # <<>> /\ Proceed(e) => StackLeft
           /\ Reject => StackLeft
           /\ stack # <<>> /\ Close => StackLeft
  <1>1. ASSUME NEW kind \in {"array", "object"}, NEW e, e \notin {"top", "eof"}, Open(kind, e)
        PROVE  StackLeft
    <2>1. PICK f : f = Container(kind)
      OBVIOUS
    <2>2. PICK n : f = [kind |-> kind, key |-> <<>>, members |-> n]
                   /\ n = IF kind = "array" THEN <<>> ELSE {}
      BY <2>1 DEF Container
    <2>3. IsText(<<>>) /\ IsValue(<<kind, n>>)
      BY <2>2, TextsAre, SimpleValues
    <2>4. FrameFits(f)
      <3>1. f.kind = kind /\ f.key = <<>> /\ f.members = n
        BY <2>2
      <3>2. QED BY <2>2, <2>3, <3>1 DEF FrameFits
    <2>5. \/ stack' = Append(stack, f) /\ expect' = e /\ status' = status
          \/ status' = "rejected" /\ stack' = stack
      BY <1>1, <2>1 DEF Open, NextToken
    <2>6. CASE stack' = Append(stack, f) /\ expect' = e /\ status' = status
      <3>1. StackFits(stack') /\ stack' # <<>>
        BY <2>4, <2>6, StackIs
      <3>2. QED BY <1>1, <2>6, <3>1 DEF StackLeft, InContainer, HasValue
    <2>7. CASE status' = "rejected" /\ stack' = stack
      BY <2>7 DEF StackLeft, InContainer, HasValue
    <2>8. QED BY <2>5, <2>6, <2>7
  <1>2. ASSUME NEW e, e \notin {"top", "eof"}, stack # <<>>, Proceed(e) PROVE StackLeft
    <2>1. expect' = e /\ stack' = stack /\ status' = status
      BY <1>2 DEF Proceed, NextToken
    <2>2. QED BY <1>2, <2>1 DEF StackLeft, InContainer, HasValue
  <1>3. ASSUME Reject PROVE StackLeft
    BY <1>3 DEF Reject, StackLeft, InContainer, HasValue
  <1>4. ASSUME stack # <<>>, Close PROVE StackLeft
    <2>1. FrameFits(Top) /\ StackFits(Front(stack))
      BY <1>4, StackIs DEF Top
    <2>2. PICK v : v = <<Top.kind, Top.members>>
      OBVIOUS
    <2>3. IsValue(v) /\ Return(v, Front(stack))
      BY <1>4, <2>1, <2>2 DEF FrameFits, Close
    <2>4. QED BY <2>1, <2>3, ReturnFits
  <1>5. QED BY <1>1, <1>2, <1>3, <1>4

\* A token that begins a value, and one that is a key.
LEMMA TokenFits ==
    ASSUME status = "run", StackFits(stack), TokenGood(token), IsText(saved.value)
    PROVE  /\ ParseValue => StackLeft
           /\ stack # <<>> /\ ParseKey => StackLeft
  <1>1. ASSUME ParseValue PROVE StackLeft
    <2>1. \/ token.type = "string" /\ Return(<<"string", token.value>>, stack)
          \/ token.type = "integer" /\ (\/ Return(<<"real", RealOf(saved.value)>>, stack)
                                        \/ Return(<<"integer", token.value>>, stack))
          \/ token.type = "real" /\ Return(<<"real", token.value>>, stack)
          \/ Return(<<"true">>, stack)
          \/ Open("object", "first}") \/ Open("array", "first]") \/ Reject
      BY <1>1 DEF ParseValue
    <2>2. ASSUME NEW v, IsValue(v), Return(v, stack) PROVE StackLeft
      BY <2>2, ReturnFits
    <2>3. CASE token.type = "string" /\ Return(<<"string", token.value>>, stack)
      <3>1. IsText(token.value)
        BY <2>3 DEF TokenGood
      <3>2. IsValue(<<"string", token.value>>)
        BY <3>1, SimpleValues
      <3>3. QED BY <2>2, <2>3, <3>2
    <2>4. CASE token.type = "integer" /\ (\/ Return(<<"real", RealOf(saved.value)>>, stack)
                                          \/ Return(<<"integer", token.value>>, stack))
      <3>1. IsText(token.value)
        BY <2>4 DEF TokenGood
      <3>2. IsValue(<<"integer", token.value>>) /\ IsValue(<<"real", RealOf(saved.value)>>)
        BY <3>1, SimpleValues
      <3>3. QED BY <2>2, <2>4, <3>2
    <2>5. CASE token.type = "real" /\ Return(<<"real", token.value>>, stack)
      <3>1. PICK t : IsText(t) /\ token.value = RealOf(t)
        BY <2>5 DEF TokenGood
      <3>2. IsValue(<<"real", token.value>>)
        BY <3>1, SimpleValues
      <3>3. QED BY <2>2, <2>5, <3>2
    <2>6. CASE Return(<<"true">>, stack)
      BY <2>2, <2>6, SimpleValues
    <2>7. CASE Open("object", "first}") \/ Open("array", "first]") \/ Reject
      BY <2>7, OpenFits
    <2>8. QED BY <2>1, <2>3, <2>4, <2>5, <2>6, <2>7
  <1>2. ASSUME stack # <<>>, ParseKey PROVE StackLeft
    <2>1. \/ Reject
          \/ /\ token.type = "string"
             /\ stack' = Append(Front(stack), [Top EXCEPT !.key = token.value])
             /\ expect' = "colon" /\ UNCHANGED <<status, result>>
      BY <1>2 DEF ParseKey, WithTop, NextToken
    <2>2. CASE Reject
      BY <2>2, OpenFits
    <2>3. CASE /\ token.type = "string"
               /\ stack' = Append(Front(stack), [Top EXCEPT !.key = token.value])
               /\ expect' = "colon" /\ UNCHANGED <<status, result>>
      <3>1. FrameFits(Top) /\ StackFits(Front(stack))
        BY <1>2, StackIs DEF Top
      <3>2. IsText(token.value)
        BY <2>3 DEF TokenGood
      <3>3. PICK f : f = [Top EXCEPT !.key = token.value]
        OBVIOUS
      <3>4. FrameFits(f)
        BY <3>1, <3>2, <3>3, FrameGrows
      <3>5. StackFits(stack') /\ stack' # <<>>
        BY <2>3, <3>1, <3>3, <3>4, StackIs
      <3>6. QED BY <2>3, <3>5 DEF StackLeft, InContainer, HasValue
    <2>4. QED BY <2>1, <2>2, <2>3
  <1>3. QED BY <1>1, <1>2

\* A step of the parser keeps its stack of containers, and has a value at the end.
LEMMA ParseKeeps ==
    ASSUME ParserFits, expect \in Expected, status = "run", IsText(saved.value), Parse
    PROVE  StackLeft
  <1>1. lex = "done" /\ TokenGood(token) /\ StackFits(stack)
    BY DEF Parse, ParserFits
  <1>2. CASE expect = "top"
    <2>1. ParseValue \/ Reject
      BY <1>2 DEF Parse
    <2>2. QED BY <1>1, <2>1, OpenFits, TokenFits
  <1>3. CASE expect = "eof"
    <2>1. \/ status' = "accepted" /\ UNCHANGED <<stack, result>>
          \/ status' = "rejected" /\ stack' = stack
      BY <1>3 DEF Parse
    <2>2. IsValue(result)
      BY <1>3 DEF ParserFits, HasValue
    <2>3. QED BY <1>1, <2>1, <2>2 DEF StackLeft, InContainer, HasValue
  <1>4. CASE expect \notin {"top", "eof"}
    <2>1. stack # <<>>
      BY <1>4 DEF ParserFits, InContainer
    <2>2. \/ ParseValue \/ ParseKey \/ Close \/ Reject
          \/ \E e \in {"value", "key", "element"} : Proceed(e)
      BY <1>4 DEF Parse, Expected
    <2>3. {"value", "key", "element"} \cap {"top", "eof"} = {}
      OBVIOUS
    <2>4. QED BY <1>1, <2>1, <2>2, <2>3, OpenFits, TokenFits
  <1>5. QED BY <1>2, <1>3, <1>4

\* Every step of a load keeps it so.
LEMMA LoadKeeps ==
    ASSUME ParserFits, expect \in Expected, HasRoom(saved), LoadStep PROVE ParserFits'
  <1>1. CASE Scan \/ ScanString \/ ScanNumber \/ ScanPoint \/ ScanWord
    <2>1. LexerLeaves
      BY <1>1, LexerGoes
    <2>2. status = "run"
      BY DEF LoadStep
    <2>3. QED BY <2>1, <2>2 DEF LexerLeaves, ParserFits, InContainer, HasValue
  <1>2. CASE Parse
    <2>1. status = "run" /\ lex = "done" /\ token' = token
      BY <1>2 DEF LoadStep, Parse
    <2>2. IsText(saved.value)
      BY DEF HasRoom, TextBuffer, IsText
    <2>3. StackLeft
      BY <1>2, <2>1, <2>2, ParseKeeps
    <2>4. QED BY <2>1, <2>3 DEF StackLeft, ParserFits, InContainer, HasValue
  <1>3. QED BY <1>1, <1>2 DEF LoadStep

\* A load begins so.
LEMMA NewParser ==
    ASSUME lex' = "start", stack' = <<>>, expect' = "top", status' \in {"idle", "run", "rejected"}
    PROVE  ParserFits'
  <1>1. StackFits(<<>>)
    <2>1. <<>> \in Seq({})
      OBVIOUS
    <2>2. QED BY <2>1 DEF StackFits
  <1>2. QED BY <1>1 DEF ParserFits, InContainer, HasValue

-----------------------------------------------------------------------------
(* Strings that are written.                                                *)

\* A sequence of texts.
TextsOf(p) == \E S : p \in Seq(Seq(S))

\* The first n bytes of s from a place are a character, as utf8_iterate finds one.
CharacterAt(s, i, n, c) ==
    /\ n = CheckFirst(s[i]) /\ c = SubSeq(s, i, Min({i + n - 1, Len(s)}))
    /\ n = 1 \/ c \in MultiByte

\* The smaller of two numbers.
LEMMA MinIs ==
    ASSUME NEW a \in Int, NEW b \in Int
    PROVE  Min({a, b}) \in {a, b} /\ Min({a, b}) <= a /\ Min({a, b}) <= b
  <1>1. \E x \in {a, b} : \A y \in {a, b} : x <= y
    BY a <= b \/ b <= a
  <1>2. QED BY <1>1 DEF Min

\* The number of bytes a first byte tells.
LEMMA FirstTells ==
    ASSUME NEW b
    PROVE  /\ CheckFirst(b) \in Nat
           /\ \A m \in MultiByte : b = m[1] => CheckFirst(b) = Len(m)
  <1>1. \A m \in MultiByte : Len(m) \in Nat /\ Len(m) > 1
    BY MultiByteAssumption
  <1>2. CASE \E m \in MultiByte : b = m[1]
    <2>1. PICK m \in MultiByte : b = m[1] /\ CheckFirst(b) = Len(m)
      BY <1>2 DEF CheckFirst
    <2>2. \A k \in MultiByte : b = k[1] => Len(k) = Len(m)
      BY <2>1, MultiByteAssumption
    <2>3. QED BY <1>1, <2>1, <2>2
  <1>3. CASE ~ \E m \in MultiByte : b = m[1]
    <2>1. CheckFirst(b) = 0 \/ CheckFirst(b) = 1
      BY <1>3 DEF CheckFirst
    <2>2. QED BY <1>3, <2>1
  <1>4. QED BY <1>2, <1>3

\* A character that begins at a place ends in the string.
LEMMA CharacterEnds ==
    ASSUME NEW S, NEW s \in Seq(S), NEW i \in 1 .. Len(s), NEW n, NEW c, CharacterAt(s, i, n, c)
    PROVE  n \in Nat /\ n > 0 /\ i + n <= Len(s) + 1 /\ c \in Seq(S)
  <1>1. PICK L \in Nat : L = Len(s) /\ i <= L /\ i >= 1
    OBVIOUS
  <1>2. n \in Nat /\ n = CheckFirst(s[i])
    BY FirstTells DEF CharacterAt
  <1>3. PICK x \in Int : x = i + n - 1
    BY <1>1, <1>2
  <1>4. PICK j : j = Min({x, L})
    OBVIOUS
  <1>5. j \in Int /\ j \in {x, L} /\ j <= x /\ j <= L
    <2>1. L \in Int
      OBVIOUS
    <2>2. Min({x, L}) \in {x, L} /\ Min({x, L}) <= x /\ Min({x, L}) <= L
      BY <1>3, <2>1, MinIs
    <2>3. QED BY <1>4, <2>1, <2>2
  <1>6. c = SubSeq(s, i, j) /\ (n = 1 \/ c \in MultiByte)
    BY <1>1, <1>3, <1>4 DEF CharacterAt
  <1>7. ASSUME j >= i PROVE c \in Seq(S) /\ Len(c) = j - i + 1 /\ c[1] = s[i]
    <2>1. j \in 1 .. Len(s) /\ i <= j
      BY <1>1, <1>5, <1>7
    <2>2. QED BY <1>1, <1>6, <2>1
  <1>8. ASSUME j < i PROVE Len(c) = 0
    <2>1. SubSeq(s, i, j) = <<>>
      BY <1>1, <1>5, <1>8
    <2>2. QED BY <1>6, <2>1
  <1>9. CASE n = 1
    <2>1. j = i
      BY <1>1, <1>3, <1>5, <1>9
    <2>2. c \in Seq(S)
      BY <1>7, <2>1
    <2>3. i + n <= Len(s) + 1
      BY <1>1, <1>9
    <2>4. QED BY <1>9, <2>2, <2>3
  <1>10. CASE c \in MultiByte
    <2>1. Len(c) > 1
      BY <1>10, MultiByteAssumption
    <2>2. j >= i
      <3>1. ~(j < i)
        BY <1>8, <2>1
      <3>2. QED BY <1>1, <1>5, <3>1
    <2>3. c \in Seq(S) /\ Len(c) = j - i + 1 /\ c[1] = s[i]
      BY <1>7, <2>2
    <2>4. n = Len(c)
      BY <1>2, <1>10, <2>3, FirstTells
    <2>5. i + n <= Len(s) + 1
      BY <1>1, <1>2, <1>5, <2>3, <2>4
    <2>6. n > 0
      BY <2>1, <2>4
    <2>7. QED BY <1>2, <2>3, <2>5, <2>6
  <1>11. QED BY <1>6, <1>9, <1>10

\* The characters of a text are texts.
LEMMA CharactersAre ==
    ASSUME NEW s, IsText(s) PROVE TextsOf(Characters(s))
  <1>1. PICK S : s \in Seq(S)
    BY DEF IsText
  <1>2. PICK L \in Nat : L = Len(s)
    BY <1>1
  <1>3. PICK D, R, A : D = 1 .. L + 1 /\ R = S \cup {"undecodable"} /\ A = Seq(Seq(R))
    OBVIOUS
  <1> DEFINE First(i) == CheckFirst(s[i])
             Char(i) == SubSeq(s, i, Min({i + First(i) - 1, Len(s)}))
             Goes(i) == First(i) = 1 \/ Char(i) \in MultiByte
             Body(C, i) == IF i > Len(s) THEN <<>>
                           ELSE IF Goes(i) THEN <<Char(i)>> \o C[i + First(i)] ELSE <<Undecodable>>
             Is(C) == C = [i \in 1 .. Len(s) + 1 |-> Body(C, i)]
  <1>4. ASSUME NEW i \in D, ~(i > Len(s)), Goes(i)
        PROVE  First(i) \in Nat /\ First(i) > 0 /\ i + First(i) \in D /\ Char(i) \in Seq(S)
    <2>1. i \in 1 .. Len(s)
      BY <1>2, <1>3, <1>4
    <2>2. First(i) \in Nat /\ First(i) > 0 /\ i + First(i) <= Len(s) + 1 /\ Char(i) \in Seq(S)
      BY <1>1, <1>4, <2>1, CharacterEnds DEF CharacterAt
    <2>3. PICK n \in Nat : n = First(i) /\ n > 0 /\ i + n <= Len(s) + 1
      BY <2>2
    <2>4. i + n \in D
      BY <1>2, <1>3, <2>1, <2>3
    <2>5. QED BY <2>2, <2>3, <2>4
  <1>5. PICK mu : mu = [i \in D |-> L + 1 - i]
    OBVIOUS
  <1>6. mu \in [D -> 0 .. L + 1]
    BY <1>3, <1>5
  <1>7. ASSUME NEW i \in D, NEW C, ~(i > Len(s)), Goes(i), C[i + First(i)] \in A
        PROVE  Body(C, i) \in A
    <2>1. PICK c, r : c = Char(i) /\ r = C[i + First(i)]
      OBVIOUS
    <2>2. c \in Seq(S) /\ r \in Seq(Seq(R))
      BY <1>3, <1>4, <1>7, <2>1
    <2>3. c \in Seq(R)
      BY <1>3, <2>2
    <2>4. <<c>> \o r \in Seq(Seq(R))
      BY <2>2, <2>3
    <2>5. QED BY <1>3, <1>7, <2>1, <2>4
  <1>8. ASSUME NEW i \in D, NEW C, i > Len(s) \/ ~Goes(i) PROVE Body(C, i) \in A
    <2>1. Undecodable \in Seq(R)
      BY <1>3 DEF Undecodable
    <2>2. <<>> \in A /\ <<Undecodable>> \in A
      BY <1>3, <2>1
    <2>3. QED BY <1>8, <2>2
  <1>9. ASSUME NEW i \in D, ~(i > Len(s)), Goes(i)
        PROVE  i + First(i) \in D /\ mu[i + First(i)] < mu[i]
    <2>1. PICK n : n = First(i)
      OBVIOUS
    <2>2. n \in Nat /\ n > 0 /\ i + n \in D
      BY <1>4, <1>9, <2>1
    <2>3. mu[i + n] < mu[i]
      BY <1>3, <1>5, <2>2
    <2>4. QED BY <2>1, <2>2, <2>3
  <1> HIDE DEF First, Char, Goes
  <1>10. \E C : Is(C)
    <2>1. PICK step : step = [i \in D |-> [C \in [D -> A] |-> Body(C, i)]]
      OBVIOUS
    <2>2. <<>> \in A
      BY <1>3
    <2>3. ASSUME NEW i \in D, NEW C \in [D -> A] PROVE Body(C, i) \in A
      <3>1. CASE i > Len(s) \/ ~Goes(i)
        BY <1>8, <3>1
      <3>2. CASE ~(i > Len(s)) /\ Goes(i)
        <4>1. C[i + First(i)] \in A
          BY <1>9, <3>2
        <4>2. QED BY <1>7, <3>2, <4>1
      <3>3. QED BY <3>1, <3>2
    <2>4. step \in [D -> [[D -> A] -> A]]
      BY <2>1, <2>3
    <2>5. ASSUME NEW i \in D, NEW f \in [D -> A], NEW g \in [D -> A],
                 \A j \in D : mu[j] < mu[i] => f[j] = g[j]
          PROVE  step[i][f] = step[i][g]
      <3>1. CASE i > Len(s) \/ ~Goes(i)
        <4>1. Body(f, i) = Body(g, i)
          BY <3>1
        <4>2. QED BY <2>1, <4>1
      <3>2. CASE ~(i > Len(s)) /\ Goes(i)
        <4>1. f[i + First(i)] = g[i + First(i)]
          BY <1>9, <2>5, <3>2
        <4>2. Body(f, i) = Body(g, i)
          BY <4>1
        <4>3. QED BY <2>1, <4>2
      <3>3. QED BY <3>1, <3>2
    <2>6. PICK n \in Nat : n = L + 1
      OBVIOUS
    <2>7. mu \in [D -> 0 .. n]
      BY <1>6, <2>6
    <2>8. Recursive(D, A, n, mu, step)
      BY <2>4, <2>5, <2>7 DEF Recursive
    <2>9. PICK f \in [D -> A] : \A i \in D : f[i] = step[i][f]
      BY ONLY <2>2, <2>8, ByRecursion
    <2>10. \A i \in D : f[i] = Body(f, i)
      BY <2>1, <2>9
    <2>11. f = [i \in D |-> Body(f, i)]
      BY <2>10
    <2>12. 1 .. Len(s) + 1 = D
      BY <1>2, <1>3
    <2>13. Is(f)
      BY <2>11, <2>12
    <2>14. QED BY <2>13
  <1>11. PICK C : C = CHOOSE F : Is(F)
    OBVIOUS
  <1>12. \A i \in D : C[i] = Body(C, i)
    <2>1. Is(C)
      BY <1>10, <1>11
    <2>2. 1 .. Len(s) + 1 = D
      BY <1>2, <1>3
    <2>3. QED BY <2>1, <2>2
  <1>13. PICK X : X = {i \in D : C[i] \in A}
    OBVIOUS
  <1>14. ASSUME NEW i \in D, \A j \in D : mu[j] < mu[i] => j \in X PROVE i \in X
    <2>1. Body(C, i) \in A
      <3>1. CASE i > Len(s) \/ ~Goes(i)
        BY <1>8, <3>1
      <3>2. CASE ~(i > Len(s)) /\ Goes(i)
        <4>1. C[i + First(i)] \in A
          BY <1>9, <1>13, <1>14, <3>2
        <4>2. QED BY <1>7, <3>2, <4>1
      <3>3. QED BY <3>1, <3>2
    <2>2. C[i] \in A
      BY <1>12, <2>1
    <2>3. QED BY <1>13, <2>2
  <1>15. 1 \in X
    <2>1. PICK n \in Nat : n = L + 1
      OBVIOUS
    <2>2. Inductive(D, n, mu, X)
      <3>1. \A i \in D : (\A j \in D : mu[j] < mu[i] => j \in X) => i \in X
        BY ONLY <1>14
      <3>2. QED BY <1>6, <2>1, <3>1 DEF Inductive
    <2>3. D \subseteq X
      BY <2>2, ByMeasure
    <2>4. 1 \in D
      BY <1>3
    <2>5. QED BY <2>3, <2>4
  <1>16. Characters(s) = C[1]
    BY <1>11 DEF Characters, First, Char, Goes
  <1>17. Characters(s) \in Seq(Seq(R))
    BY <1>3, <1>13, <1>15, <1>16
  <1>18. QED BY <1>17 DEF TextsOf

\* A text is a sequence of the bytes that are in it.
LEMMA TextIsOf ==
    ASSUME NEW t, IsText(t) PROVE t \in Seq(ToSet(t))
  <1>1. PICK S : t \in Seq(S)
    BY DEF IsText
  <1>2. PICK n \in Nat : n = Len(t) /\ DOMAIN t = 1 .. n
    BY <1>1
  <1>3. t \in [1 .. n -> ToSet(t)]
    <2>1. t = [i \in 1 .. n |-> t[i]]
      BY <1>1, <1>2
    <2>2. \A i \in 1 .. n : t[i] \in ToSet(t)
      BY <1>2 DEF ToSet
    <2>3. QED BY <2>1, <2>2
  <1>4. QED BY <1>3, SeqDef

\* An escape is a text.
LEMMA EscapeIsText == \A c : IsText(Escape(c))
  <1>1. SUFFICES ASSUME NEW c PROVE IsText(Escape(c))
    OBVIOUS
  <1>2. PICK h : h = CHOOSE x \in DOMAIN Escaped : Escaped[x] = c
    OBVIOUS
  <1>3. PICK six : six = <<Backslash, "u", High, Backslash, "u", Low>>
    OBVIOUS
  <1>4. \/ Escape(c) = <<Backslash, Quote>> \/ Escape(c) = <<Backslash, Backslash>>
        \/ Escape(c) = <<Backslash, "n">> \/ Escape(c) = <<Backslash, "u", h>>
        \/ Escape(c) = six \/ Escape(c) = <<>>
    BY <1>2, <1>3 DEF Escape
  <1>5. IsText(six)
    <2>1. six \in Seq({Backslash, "u", High, Low})
      BY <1>3
    <2>2. QED BY <2>1 DEF IsText
  <1>6. IsText(<<Backslash, "u", h>>) /\ IsText(<<Backslash, Quote>>)
        /\ IsText(<<Backslash, Backslash>>) /\ IsText(<<Backslash, "n">>) /\ IsText(<<>>)
    BY TextsAre
  <1>7. QED BY <1>4, <1>5, <1>6

\* There are n steps from a, each in A.
Stepwise(n, A, a, step) == n \in Nat /\ a \in A /\ step \in [1 .. n -> [A -> A]]

\* What comes of them is in A.
LEMMA ByCounting ==
    ASSUME NEW n, NEW A, NEW a, NEW step, Stepwise(n, A, a, step)
    PROVE  \E F \in [0 .. n -> A] : F[0] = a /\ \A k \in 1 .. n : F[k] = step[k][F[k - 1]]
  <1>0. n \in Nat /\ a \in A /\ step \in [1 .. n -> [A -> A]]
    BY DEF Stepwise
  <1>1. PICK X : X = {k \in 0 .. n : \E F \in [0 .. k -> A] :
                         F[0] = a /\ \A i \in 1 .. k : F[i] = step[i][F[i - 1]]}
    OBVIOUS
  <1>2. 0 \in X
    <2>1. PICK F : F = [k \in 0 .. 0 |-> a]
      OBVIOUS
    <2>2. F \in [0 .. 0 -> A] /\ F[0] = a
      BY <1>0, <2>1
    <2>3. 0 \in 0 .. n /\ \A i : i \notin 1 .. 0
      BY <1>0
    <2>4. QED BY <1>0, <1>1, <2>2, <2>3
  <1>3. ASSUME NEW k \in X \cap (0 .. n), k < n PROVE k + 1 \in X
    <2>1. PICK F \in [0 .. k -> A] : F[0] = a /\ \A i \in 1 .. k : F[i] = step[i][F[i - 1]]
      BY <1>0, <1>1
    <2>2. k + 1 \in 1 .. n /\ k + 1 \in 0 .. n /\ k \in 0 .. k
      BY <1>0, <1>3
    <2>3. PICK b \in A : b = step[k + 1][F[k]]
      BY <1>0, <2>1, <2>2
    <2>4. PICK G : G = [i \in 0 .. k + 1 |-> IF i = k + 1 THEN b ELSE F[i]]
      OBVIOUS
    <2>5. \A i \in 0 .. k : G[i] = F[i]
      <3>1. \A i \in 0 .. k : i \in 0 .. k + 1 /\ i # k + 1
        BY <1>0, <1>3
      <3>2. QED BY <1>0, <2>4, <3>1
    <2>6. G[k + 1] = b
      BY <1>0, <1>3, <2>4
    <2>7. G \in [0 .. k + 1 -> A]
      <3>1. \A i \in 0 .. k + 1 : i # k + 1 => i \in 0 .. k
        BY <1>0, <1>3
      <3>2. \A i \in 0 .. k + 1 : (IF i = k + 1 THEN b ELSE F[i]) \in A
        BY <1>0, <3>1
      <3>3. QED BY <1>0, <2>4, <3>2
    <2>8. ASSUME NEW i \in 1 .. k + 1 PROVE G[i] = step[i][G[i - 1]]
      <3>1. CASE i = k + 1
        <4>1. i - 1 = k /\ k \in 0 .. k
          BY <1>0, <1>3, <3>1
        <4>2. G[i - 1] = F[k]
          BY <1>0, <2>5, <4>1
        <4>3. QED BY <1>0, <2>3, <2>6, <3>1, <4>2
      <3>2. CASE i # k + 1
        <4>1. i \in 1 .. k /\ i \in 0 .. k /\ i - 1 \in 0 .. k
          BY <1>0, <1>3, <3>2
        <4>2. QED BY <1>0, <2>1, <2>5, <4>1
      <3>3. QED BY <1>0, <3>1, <3>2
    <2>9. G[0] = a
      <3>1. 0 \in 0 .. k
        BY <1>0, <1>3
      <3>2. QED BY <1>0, <2>1, <2>5, <3>1
    <2>10. QED BY <1>0, <1>1, <2>2, <2>7, <2>8, <2>9
  <1>4. 0 .. n \subseteq X
    BY <1>0, <1>2, <1>3, UpTo
  <1>5. n \in X
    BY <1>0, <1>4
  <1>6. QED BY <1>0, <1>1, <1>5

\* What has been found of a string is texts.
LEMMA FoundIsTexts ==
    ASSUME NEW s, IsText(s)
    PROVE  \E B : Found(s) \in [pieces : Seq(Seq(B)) \ {<<>>}, run : Seq(B)]
  <1>1. PICK S : Characters(s) \in Seq(Seq(S))
    BY CharactersAre DEF TextsOf
  <1>0. PICK chars : chars = Characters(s)
    OBVIOUS
  <1>2. PICK n \in Nat : n = Len(chars)
    BY <1>0, <1>1
  <1>3. PICK B : B = S \cup {Quote} \cup UNION {ToSet(Escape(c)) : c \in Seq(S)}
    OBVIOUS
  <1>4. PICK A : A = [pieces : Seq(Seq(B)) \ {<<>>}, run : Seq(B)]
    OBVIOUS
  <1>5. ASSUME NEW c \in Seq(S) PROVE c \in Seq(B) /\ Escape(c) \in Seq(B)
    <2>1. Escape(c) \in Seq(ToSet(Escape(c)))
      BY EscapeIsText, TextIsOf
    <2>2. S \subseteq B /\ ToSet(Escape(c)) \subseteq B
      BY <1>3
    <2>3. PICK e, E : e = Escape(c) /\ E = ToSet(Escape(c))
      OBVIOUS
    <2>4. e \in Seq(E) /\ E \subseteq B
      BY <2>1, <2>2, <2>3
    <2>5. e \in Seq(B) /\ c \in Seq(B)
      BY <2>2, <2>4
    <2>6. QED BY <2>3, <2>5
  <1>6. ASSUME NEW p \in Seq(Seq(B)), NEW t \in Seq(B) PROVE Append(p, t) \in Seq(Seq(B)) \ {<<>>}
    <2>1. PICK q : q = Append(p, t)
      OBVIOUS
    <2>2. q \in Seq(Seq(B)) /\ Len(q) = Len(p) + 1 /\ Len(p) \in Nat
      BY <2>1
    <2>3. q # <<>>
      BY <2>2
    <2>4. QED BY <2>1, <2>2, <2>3
  <1>7. ASSUME NEW f \in A, NEW c \in Seq(S) PROVE Finding(f, c) \in A
    <2>1. f.pieces \in Seq(Seq(B)) /\ f.pieces # <<>> /\ f.run \in Seq(B)
          /\ f = [pieces |-> f.pieces, run |-> f.run]
      BY <1>4
    <2>2. Ended(f) \in Seq(Seq(B))
      <3>1. CASE f.run = <<>>
        BY <2>1, <3>1 DEF Ended
      <3>2. CASE f.run # <<>>
        BY <1>6, <2>1, <3>2 DEF Ended
      <3>3. QED BY <3>1, <3>2
    <2>3. ASSUME NEW p, p \in Seq(Seq(B)) \ {<<>>}, NEW r, r \in Seq(B)
          PROVE  [pieces |-> p, run |-> r] \in A
      BY <1>4, <2>3
    <2>4. <<>> \in Seq(B)
      OBVIOUS
    <2>5. CASE c = Undecodable
      <3>1. Finding(f, c) = [pieces |-> Append(f.pieces, c), run |-> <<>>]
        BY <2>5 DEF Finding
      <3>2. Append(f.pieces, c) \in Seq(Seq(B)) \ {<<>>}
        BY <1>5, <1>6, <2>1
      <3>3. QED BY <2>3, <2>4, <3>1, <3>2
    <2>6. CASE c # Undecodable /\ Escape(c) = <<>>
      <3>1. Finding(f, c) = [f EXCEPT !.run = @ \o c]
        BY <2>6 DEF Finding
      <3>2. PICK p, r : p = f.pieces /\ r = f.run /\ f = [pieces |-> p, run |-> r]
        BY <2>1
      <3>3. Finding(f, c) = [pieces |-> p, run |-> r \o c]
        BY <3>1, <3>2
      <3>4. r \o c \in Seq(B)
        BY <1>5, <2>1, <3>2
      <3>5. QED BY <2>1, <2>3, <3>2, <3>3, <3>4
    <2>7. CASE c # Undecodable /\ Escape(c) # <<>>
      <3>1. Finding(f, c) = [pieces |-> Append(Ended(f), Escape(c)), run |-> <<>>]
        BY <2>7 DEF Finding
      <3>2. Append(Ended(f), Escape(c)) \in Seq(Seq(B)) \ {<<>>}
        BY <1>5, <1>6, <2>2
      <3>3. QED BY <2>3, <2>4, <3>1, <3>2
    <2>8. QED BY <2>5, <2>6, <2>7
  <1>8. PICK a : a = [pieces |-> <<<<Quote>>>>, run |-> <<>>]
    OBVIOUS
  <1>9. a \in A
    <2>1. <<Quote>> \in Seq(B)
      BY <1>3
    <2>2. <<<<Quote>>>> \in Seq(Seq(B)) /\ <<<<Quote>>>> # <<>> /\ <<>> \in Seq(B)
      BY <2>1
    <2>3. QED BY <1>4, <1>8, <2>2
  <1> DEFINE Is(F) == F = [k \in 0 .. Len(chars) |-> IF k = 0 THEN a ELSE Finding(F[k - 1], chars[k])]
  <1>10. \A k \in 1 .. n : chars[k] \in Seq(S)
    BY <1>0, <1>1, <1>2
  <1>11. \E F : Is(F)
    <2>1. PICK step : step = [k \in 1 .. n |-> [f \in A |-> Finding(f, chars[k])]]
      OBVIOUS
    <2>2. step \in [1 .. n -> [A -> A]]
      BY <1>7, <1>10, <2>1
    <2>3. PICK F \in [0 .. n -> A] : F[0] = a /\ \A k \in 1 .. n : F[k] = step[k][F[k - 1]]
      <3>1. Stepwise(n, A, a, step)
        BY <1>9, <2>2 DEF Stepwise
      <3>2. QED BY ONLY <3>1, ByCounting
    <2>4. ASSUME NEW k \in 0 .. n, k # 0 PROVE F[k] = Finding(F[k - 1], chars[k])
      <3>1. k \in 1 .. n /\ k - 1 \in 0 .. n
        BY <2>4
      <3>2. F[k - 1] \in A /\ F[k] = step[k][F[k - 1]]
        BY <2>3, <3>1
      <3>3. QED BY <2>1, <3>1, <3>2
    <2>5. F = [k \in 0 .. n |-> IF k = 0 THEN a ELSE Finding(F[k - 1], chars[k])]
      BY <2>3, <2>4
    <2>6. Is(F)
      BY <1>2, <2>5
    <2>7. QED BY <2>6
  <1>12. PICK F : F = CHOOSE G : Is(G)
    OBVIOUS
  <1>13. \A k \in 0 .. n : F[k] = IF k = 0 THEN a ELSE Finding(F[k - 1], chars[k])
    <2>1. Is(F)
      BY <1>11, <1>12
    <2>2. QED BY <1>2, <2>1
  <1>14. PICK X : X = {k \in 0 .. n : F[k] \in A}
    OBVIOUS
  <1>15. 0 \in X
    BY <1>9, <1>13, <1>14
  <1>16. ASSUME NEW k \in X \cap (0 .. n), k < n PROVE k + 1 \in X
    <2>1. k + 1 \in 0 .. n /\ k + 1 \in 1 .. n /\ k + 1 # 0 /\ (k + 1) - 1 = k
      BY <1>16
    <2>2. F[k + 1] = Finding(F[k], chars[k + 1])
      BY <1>13, <2>1
    <2>3. F[k] \in A
      BY <1>14
    <2>4. F[k + 1] \in A
      BY <1>7, <1>10, <2>1, <2>2, <2>3
    <2>5. QED BY <1>14, <2>1, <2>4
  <1>17. n \in X
    <2>1. 0 .. n \subseteq X
      BY <1>15, <1>16, UpTo
    <2>2. QED BY <2>1
  <1>18. Found(s) = F[n]
    BY <1>0, <1>2, <1>8, <1>12 DEF Found
  <1>19. QED BY <1>4, <1>14, <1>17, <1>18

\* The pieces dump_string writes are texts, and there is one at least.
LEMMA DumpStringIsTexts ==
    ASSUME NEW s, IsText(s) PROVE TextsOf(DumpString(s)) /\ DumpString(s) # <<>>
  <1>1. PICK B : Found(s) \in [pieces : Seq(Seq(B)) \ {<<>>}, run : Seq(B)]
    BY FoundIsTexts
  <1>2. PICK f : f = Found(s)
    OBVIOUS
  <1>3. f.pieces \in Seq(Seq(B)) /\ f.run \in Seq(B)
    BY <1>1, <1>2
  <1>4. Ended(f) \in Seq(Seq(B))
    BY <1>3 DEF Ended
  <1>5. PICK C : C = B \cup {Quote}
    OBVIOUS
  <1>6. PICK e : e = Ended(f)
    OBVIOUS
  <1>7. e \in Seq(Seq(C)) /\ <<Quote>> \in Seq(C)
    <2>1. Seq(B) \subseteq Seq(C)
      BY <1>5
    <2>2. QED BY <1>4, <1>5, <1>6, <2>1
  <1>8. Append(e, <<Quote>>) \in Seq(Seq(C)) /\ Len(Append(e, <<Quote>>)) = Len(e) + 1
    BY <1>7
  <1>9. Append(e, <<Quote>>) # <<>>
    <2>1. Len(e) + 1 # 0
      BY <1>7
    <2>2. QED BY <1>8, <2>1
  <1>10. DumpString(s) = Append(e, <<Quote>>)
    BY <1>2, <1>6 DEF DumpString
  <1>11. QED BY <1>8, <1>9, <1>10 DEF TextsOf

-----------------------------------------------------------------------------
(* What do_dump has left to do.                                             *)

\* What do_dump may have left to do: values, and texts that are written.
ItemFits(x) ==
    \/ x = SortKeys
    \/ \E v : \E d \in Nat : IsValue(v) /\ x = Value(v, d)
    \/ \E p, b : TextsOf(p) /\ p # <<>> /\ x = [pieces |-> p, minds |-> b]
AgendaFits(a) == \E T : a \in Seq(T) /\ \A x \in T : ItemFits(x)

\* Agendas of agendas.
LEMMA AgendasAre ==
    /\ AgendaFits(<<>>)
    /\ \A x : ItemFits(x) => AgendaFits(<<x>>)
    /\ \A a, b : AgendaFits(a) /\ AgendaFits(b) => AgendaFits(a \o b)
    /\ \A a : AgendaFits(a) /\ a # <<>> => ItemFits(Head(a)) /\ AgendaFits(Tail(a))
  <1>1. AgendaFits(<<>>)
    <2>1. PICK T : T = {}
      OBVIOUS
    <2>2. <<>> \in Seq(T) /\ \A x \in T : ItemFits(x)
      BY <2>1
    <2>3. QED BY <2>2 DEF AgendaFits
  <1>2. ASSUME NEW x, ItemFits(x) PROVE AgendaFits(<<x>>)
    <2>1. PICK T : T = {x}
      OBVIOUS
    <2>2. <<x>> \in Seq(T) /\ \A y \in T : ItemFits(y)
      BY <1>2, <2>1
    <2>3. QED BY <2>2 DEF AgendaFits
  <1>3. ASSUME NEW a, NEW b, AgendaFits(a), AgendaFits(b) PROVE AgendaFits(a \o b)
    <2>1. PICK T : a \in Seq(T) /\ \A x \in T : ItemFits(x)
      BY <1>3 DEF AgendaFits
    <2>2. PICK U : b \in Seq(U) /\ \A x \in U : ItemFits(x)
      BY <1>3 DEF AgendaFits
    <2>3. a \in Seq(T \cup U) /\ b \in Seq(T \cup U)
      BY <2>1, <2>2
    <2>4. a \o b \in Seq(T \cup U)
      BY <2>3
    <2>5. \A x \in T \cup U : ItemFits(x)
      BY <2>1, <2>2
    <2>6. QED BY <2>4, <2>5 DEF AgendaFits
  <1>4. ASSUME NEW a, AgendaFits(a), a # <<>> PROVE ItemFits(Head(a)) /\ AgendaFits(Tail(a))
    <2>1. PICK T : a \in Seq(T) /\ \A x \in T : ItemFits(x)
      BY <1>4 DEF AgendaFits
    <2>2. Head(a) \in T /\ Tail(a) \in Seq(T)
      BY <1>4, <2>1
    <2>3. QED BY <2>1, <2>2 DEF AgendaFits
  <1>5. QED BY <1>1, <1>2, <1>3, <1>4

\* Texts are written in one item or in several.
LEMMA PiecesFit ==
    /\ \A p, b : TextsOf(p) /\ p # <<>> => ItemFits([pieces |-> p, minds |-> b])
    /\ \A t : IsText(t) => ItemFits(Piece(t))
    /\ \A v : \A d \in Nat : IsValue(v) => ItemFits(Value(v, d))
    /\ ItemFits(SortKeys)
  <1>1. \A p, b : TextsOf(p) /\ p # <<>> => ItemFits([pieces |-> p, minds |-> b])
    BY DEF ItemFits
  <1>2. ASSUME NEW t, IsText(t) PROVE ItemFits(Piece(t))
    <2>1. PICK S : t \in Seq(S)
      BY <1>2 DEF IsText
    <2>2. <<t>> \in Seq(Seq(S)) /\ <<t>> # <<>>
      BY <2>1
    <2>3. QED BY <1>1, <2>2 DEF TextsOf, Piece, Pieces
  <1>3. QED BY <1>1, <1>2 DEF ItemFits

\* Agendas one behind the other are an agenda.
LEMMA FlatFits ==
    ASSUME NEW n \in Nat, NEW q, q = [i \in 1 .. n |-> q[i]], \A i \in 1 .. n : AgendaFits(q[i])
    PROVE  AgendaFits(FlattenSeq(q))
  <1>1. q \in Seq({q[i] : i \in 1 .. n}) /\ Len(q) = n
    <2>1. PICK V : V = {q[i] : i \in 1 .. n}
      OBVIOUS
    <2>2. q \in [1 .. n -> V]
      BY <2>1
    <2>3. q \in Seq(V)
      BY <2>2, SeqDef
    <2>4. Len(q) = n
      BY <2>2, <2>3
    <2>5. QED BY <2>1, <2>3, <2>4
  <1>2. PICK U : U = UNION {ToSet(q[i]) : i \in 1 .. n}
    OBVIOUS
  <1>3. PICK A : A = Seq(U)
    OBVIOUS
  <1>4. ASSUME NEW i \in 1 .. n PROVE q[i] \in A /\ \A x \in ToSet(q[i]) : ItemFits(x)
    <2>1. PICK T : q[i] \in Seq(T) /\ \A x \in T : ItemFits(x)
      BY DEF AgendaFits
    <2>2. q[i] \in Seq(ToSet(q[i]))
      BY <2>1, TextIsOf DEF IsText
    <2>3. PICK t, B : t = q[i] /\ B = ToSet(q[i])
      OBVIOUS
    <2>4. B \subseteq U /\ t \in Seq(B)
      BY <1>2, <2>2, <2>3
    <2>5. t \in Seq(U)
      BY <2>4
    <2>6. B \subseteq T
      BY <2>1, <2>3 DEF ToSet
    <2>7. QED BY <1>3, <2>1, <2>3, <2>5, <2>6
  <1>5. \A x \in U : ItemFits(x)
    BY <1>2, <1>4
  <1>6. CASE n = 0
    <2>1. q = <<>> /\ FlattenSeq(q) = q
      BY <1>1, <1>6 DEF FlattenSeq
    <2>2. QED BY <2>1, AgendasAre
  <1>7. CASE n # 0
    <2> DEFINE Is(F) == F = [i \in 1 .. Len(q) |-> IF i = 1 THEN q[i] ELSE F[i - 1] \o q[i]]
    <2>1. PICK m \in Nat : n = m + 1 /\ m = n - 1
      BY <1>7
    <2>2. PICK step : step = [k \in 1 .. m |-> [a \in A |-> a \o q[k + 1]]]
      OBVIOUS
    <2>3. ASSUME NEW k \in 1 .. m, NEW a \in A PROVE a \o q[k + 1] \in A
      <3>1. k + 1 \in 1 .. n
        BY <2>1
      <3>2. PICK b : b = q[k + 1]
        OBVIOUS
      <3>3. b \in Seq(U) /\ a \in Seq(U)
        BY <1>3, <1>4, <3>1, <3>2
      <3>4. a \o b \in Seq(U)
        BY <3>3
      <3>5. QED BY <1>3, <3>2, <3>4
    <2>4. q[1] \in A
      BY <1>4, <2>1
    <2>5. PICK G \in [0 .. m -> A] : G[0] = q[1] /\ \A k \in 1 .. m : G[k] = step[k][G[k - 1]]
      <3>1. step \in [1 .. m -> [A -> A]]
        BY <2>2, <2>3
      <3>2. PICK a, l : a = q[1] /\ l = m
        OBVIOUS
      <3>3. Stepwise(l, A, a, step)
        BY <2>4, <3>1, <3>2 DEF Stepwise
      <3>4. \E G \in [0 .. l -> A] : G[0] = a /\ \A k \in 1 .. l : G[k] = step[k][G[k - 1]]
        BY ONLY <3>3, ByCounting
      <3>5. QED BY <3>2, <3>4
    <2>6. PICK F : F = [i \in 1 .. n |-> G[i - 1]]
      OBVIOUS
    <2>7. ASSUME NEW i \in 1 .. n, i # 1 PROVE F[i] = F[i - 1] \o q[i]
      <3>1. i - 1 \in 1 .. m /\ i - 1 \in 1 .. n /\ (i - 1) + 1 = i /\ (i - 1) - 1 \in 0 .. m
        BY <2>1, <2>7
      <3>2. F[i] = G[i - 1] /\ F[i - 1] = G[(i - 1) - 1] /\ G[i - 1] = step[i - 1][G[(i - 1) - 1]]
        BY <2>5, <2>6, <3>1
      <3>3. PICK k \in 1 .. m : k = i - 1
        BY <3>1
      <3>4. PICK a \in A : a = G[(i - 1) - 1]
        BY <2>5, <3>1
      <3>5. step[k][a] = a \o q[k + 1]
        BY <2>2
      <3>6. QED BY <3>1, <3>2, <3>3, <3>4, <3>5
    <2>8. F[1] = q[1]
      <3>1. 1 \in 1 .. n /\ 1 - 1 = 0
        BY <2>1
      <3>2. QED BY <2>5, <2>6, <3>1
    <2>9. F = [i \in 1 .. n |-> IF i = 1 THEN q[i] ELSE F[i - 1] \o q[i]]
      BY <2>6, <2>7, <2>8
    <2>10. Is(F)
      BY <1>1, <2>9
    <2>11. PICK H : H = CHOOSE E : Is(E)
      OBVIOUS
    <2>12. \A i \in 1 .. n : H[i] = IF i = 1 THEN q[i] ELSE H[i - 1] \o q[i]
      <3>1. Is(H)
        BY <2>10, <2>11
      <3>2. QED BY <1>1, <3>1
    <2>13. PICK X : X = {k \in 0 .. m : H[k + 1] \in A}
      OBVIOUS
    <2>14. 0 \in X
      <3>1. 1 \in 1 .. n /\ 0 + 1 = 1 /\ 0 \in 0 .. m
        BY <2>1
      <3>2. H[1] = q[1]
        BY <2>12, <3>1
      <3>3. QED BY <2>4, <2>13, <3>1, <3>2
    <2>15. ASSUME NEW k \in X \cap (0 .. m), k < m PROVE k + 1 \in X
      <3>1. PICK j \in Nat : j = k + 1 /\ j \in 1 .. m /\ j \in 0 .. m /\ j + 1 \in 1 .. n /\ j + 1 # 1
                             /\ (j + 1) - 1 = j
        BY <2>1, <2>15
      <3>2. H[j + 1] = H[j] \o q[j + 1]
        BY <2>12, <3>1
      <3>3. PICK a : a = H[j]
        OBVIOUS
      <3>4. a \in A
        BY <2>13, <3>1, <3>3
      <3>5. a \o q[j + 1] \in A
        BY <2>3, <3>1, <3>4
      <3>6. H[j + 1] \in A
        BY <3>2, <3>3, <3>5
      <3>7. QED BY <2>13, <3>1, <3>6
    <2>16. m \in X
      <3>1. 0 .. m \subseteq X
        BY <2>14, <2>15, UpTo
      <3>2. QED BY <3>1
    <2>17. FlattenSeq(q) = H[n]
      <3>1. Len(q) # 0
        BY <1>1, <1>7
      <3>2. FlattenSeq(q) = H[Len(q)]
        BY <2>11, <3>1 DEF FlattenSeq
      <3>3. QED BY <1>1, <3>2
    <2>18. FlattenSeq(q) \in Seq(U)
      BY <1>3, <2>1, <2>13, <2>16, <2>17
    <2>19. QED BY <1>5, <2>18 DEF AgendaFits
  <1>8. QED BY <1>6, <1>7

\* A line and its indentation, or a blank.
LEMMA IndentFits ==
    ASSUME NEW depth \in Nat, NEW space PROVE AgendaFits(Indent(depth, space))
  <1>1. PICK S : <<" ">> \in Seq(S) /\ <<"newline">> \in Seq(S)
    <2>1. PICK b, c : b = " " /\ c = "newline"
      OBVIOUS
    <2>2. <<b>> \in Seq({b, c}) /\ <<c>> \in Seq({b, c})
      OBVIOUS
    <2>3. QED BY <2>1, <2>2
  <1>2. PICK w : w = [i \in 1 .. depth |-> <<" ">>]
    OBVIOUS
  <1>3. w \in Seq(Seq(S))
    <2>1. w \in [1 .. depth -> Seq(S)]
      BY <1>1, <1>2
    <2>2. QED BY <2>1, SeqDef
  <1>4. PICK p : p = <<<<"newline">>>> \o w
    OBVIOUS
  <1>5. p \in Seq(Seq(S)) /\ p # <<>>
    <2>1. PICK t \in Seq(S) : t = <<"newline">>
      BY <1>1
    <2>2. p = <<t>> \o w
      BY <1>4, <2>1
    <2>3. p \in Seq(Seq(S)) /\ Len(p) = 1 + Len(w) /\ Len(w) \in Nat
      BY <1>3, <2>2
    <2>4. QED BY <2>3
  <1>6. AgendaFits(<<Pieces(p)>>)
    <2>1. ItemFits([pieces |-> p, minds |-> TRUE])
      BY <1>5, PiecesFit DEF TextsOf
    <2>2. QED BY <2>1, AgendasAre DEF Pieces
  <1>7. AgendaFits(<<Piece(<<" ">>)>>) /\ AgendaFits(<<>>)
    BY AgendasAre, PiecesFit, TextsAre
  <1>8. \/ Indent(depth, space) = <<Pieces(p)>> \/ Indent(depth, space) = <<Piece(<<" ">>)>>
        \/ Indent(depth, space) = <<>>
    BY <1>2, <1>4 DEF Indent
  <1>9. QED BY <1>6, <1>7, <1>8

\* What is left to do of a container, with what is left to do of its members.
LEMMA ItemsFit ==
    ASSUME NEW open, IsText(open), NEW close, IsText(close), NEW depth \in Nat, NEW n \in Nat,
           NEW items, items = [i \in 1 .. n |-> items[i]], \A i \in 1 .. n : AgendaFits(items[i])
    PROVE  AgendaFits(Items(open, items, close, depth))
  <1>1. Len(items) = n
    <2>1. PICK V : V = {items[i] : i \in 1 .. n}
      OBVIOUS
    <2>2. items \in [1 .. n -> V]
      BY <2>1
    <2>3. items \in Seq(V)
      BY <2>2, SeqDef
    <2>4. QED BY <2>2, <2>3
  <1>2. PICK head, tail, sort :
           head = <<Piece(open)>> /\ tail = <<Piece(close)>>
           /\ sort = IF open = <<"{">> /\ Flag("sort") THEN <<SortKeys>> ELSE <<>>
    OBVIOUS
  <1>3. AgendaFits(head) /\ AgendaFits(tail) /\ AgendaFits(sort)
    BY <1>2, AgendasAre, PiecesFit
  <1>4. PICK before, between, after :
           before = Indent(depth + 1, FALSE) /\ between = Indent(depth + 1, TRUE)
           /\ after = Indent(depth, FALSE)
    OBVIOUS
  <1>5. AgendaFits(before) /\ AgendaFits(between) /\ AgendaFits(after)
    <2>1. depth + 1 \in Nat
      OBVIOUS
    <2>2. QED BY <1>4, <2>1, IndentFits
  <1>6. PICK q : q = [i \in 1 .. n |-> (IF i = 1 THEN <<>> ELSE <<Piece(<<",">>)>> \o between)
                                         \o items[i]]
    OBVIOUS
  <1>7. AgendaFits(FlattenSeq(q))
    <2>1. AgendaFits(<<Piece(<<",">>)>> \o between)
      BY <1>5, AgendasAre, PiecesFit, TextsAre
    <2>2. ASSUME NEW i \in 1 .. n PROVE AgendaFits(q[i])
      <3>1. PICK l : l = IF i = 1 THEN <<>> ELSE <<Piece(<<",">>)>> \o between
        OBVIOUS
      <3>2. AgendaFits(l) /\ AgendaFits(items[i])
        BY <2>1, <3>1, AgendasAre
      <3>3. q[i] = l \o items[i]
        BY <1>6, <3>1
      <3>4. QED BY <3>2, <3>3, AgendasAre
    <2>3. q = [i \in 1 .. n |-> q[i]]
      BY <1>6
    <2>4. QED BY <2>2, <2>3, FlatFits
  <1>8. PICK flat : flat = FlattenSeq(q)
    OBVIOUS
  <1>9. PICK middle : middle = IF items = <<>> THEN <<>> ELSE before \o sort \o flat \o after
    OBVIOUS
  <1>10. AgendaFits(middle)
    <2>1. AgendaFits(before \o sort)
      BY <1>3, <1>5, AgendasAre
    <2>2. AgendaFits((before \o sort) \o flat)
      BY <1>7, <1>8, <2>1, AgendasAre
    <2>3. AgendaFits(((before \o sort) \o flat) \o after)
      BY <1>5, <2>2, AgendasAre
    <2>4. QED BY <1>9, <2>3, AgendasAre
  <1>11. Items(open, items, close, depth) = head \o middle \o tail
    BY <1>1, <1>2, <1>4, <1>6, <1>8, <1>9 DEF Items
  <1>12. AgendaFits(head \o middle)
    BY <1>3, <1>10, AgendasAre
  <1>13. AgendaFits((head \o middle) \o tail)
    BY <1>3, <1>12, AgendasAre
  <1>14. QED BY <1>11, <1>13

\* What is left to do of a member of an object.
LEMMA MemberFits ==
    ASSUME NEW k, IsText(k), NEW w, IsValue(w), NEW depth \in Nat
    PROVE  AgendaFits(Member(<<k, w>>, depth))
  <1>1. PICK x, y, z : x = KeyPieces(DumpString(k)) /\ y = Separator /\ z = Value(w, depth + 1)
    OBVIOUS
  <1>2. ItemFits(x)
    <2>1. TextsOf(DumpString(k)) /\ DumpString(k) # <<>>
      BY DumpStringIsTexts
    <2>2. PICK p : p = DumpString(k)
      OBVIOUS
    <2>3. ItemFits([pieces |-> p, minds |-> FALSE])
      BY <2>1, <2>2, PiecesFit
    <2>4. QED BY <1>1, <2>2, <2>3 DEF KeyPieces
  <1>3. ItemFits(y)
    <2>1. PICK t : t = IF Flag("compact") THEN <<":">> ELSE <<":", " ">>
      OBVIOUS
    <2>2. IsText(t)
      BY <2>1, TextsAre
    <2>3. QED BY <1>1, <2>1, <2>2, PiecesFit DEF Separator
  <1>4. ItemFits(z)
    <2>1. depth + 1 \in Nat
      OBVIOUS
    <2>2. QED BY <1>1, <2>1, PiecesFit
  <1>5. Member(<<k, w>>, depth) = <<x, y, z>>
    BY <1>1 DEF Member
  <1>6. PICK T : T = {x, y, z}
    OBVIOUS
  <1>7. <<x, y, z>> \in Seq(T) /\ \A u \in T : ItemFits(u)
    BY <1>2, <1>3, <1>4, <1>6
  <1>8. QED BY <1>5, <1>7 DEF AgendaFits

\* What is left to do of a value, in any order its members are met in.
LEMMA DumpsFit ==
    ASSUME NEW v, IsValue(v), NEW depth \in Nat, NEW a \in Dumps(v, depth)
    PROVE  AgendaFits(a)
  <1>1. PICK V : ValueOf(v, V) /\ ValuesOf(V)
    BY DEF IsValue, ValuesOf
  <1>2. \A w \in V : IsValue(w)
    BY <1>1 DEF IsValue
  <1>3. ASSUME NEW t, IsText(t) PROVE AgendaFits(<<Piece(t)>>)
    BY <1>3, AgendasAre, PiecesFit
  <1>4. CASE v = <<"true">>
    <2>1. v[1] = "true"
      BY <1>4
    <2>2. a = <<Piece(<<"true">>)>>
      BY <2>1 DEF Dumps
    <2>3. QED BY <1>3, <2>2, TextsAre
  <1>5. ASSUME NEW t, IsText(t), v = <<"integer", t>> PROVE AgendaFits(a)
    <2>1. v[1] = "integer" /\ v[2] = t
      BY <1>5
    <2>2. a = <<Piece(v[2])>>
      BY <2>1 DEF Dumps
    <2>3. QED BY <1>3, <1>5, <2>1, <2>2
  <1>6. ASSUME NEW t, IsText(t), v = <<"real", RealOf(t)>> PROVE AgendaFits(a)
    <2>1. v[1] = "real" /\ v[2] = RealOf(t)
      BY <1>6
    <2>2. a = <<Piece(PrintedReal(v[2]))>>
      BY <2>1 DEF Dumps
    <2>3. IsText(PrintedReal(RealOf(t)))
      BY <1>6, PrintedIsText
    <2>4. QED BY <1>3, <2>1, <2>2, <2>3
  <1>7. ASSUME NEW t, IsText(t), v = <<"string", t>> PROVE AgendaFits(a)
    <2>1. v[1] = "string" /\ v[2] = t
      BY <1>7
    <2>2. a = <<Pieces(DumpString(v[2]))>>
      BY <2>1 DEF Dumps
    <2>3. PICK p : p = DumpString(t)
      OBVIOUS
    <2>4. TextsOf(p) /\ p # <<>>
      BY <1>7, <2>3, DumpStringIsTexts
    <2>5. ItemFits([pieces |-> p, minds |-> TRUE])
      BY <2>4, PiecesFit
    <2>6. AgendaFits(<<Pieces(p)>>)
      BY <2>5, AgendasAre DEF Pieces
    <2>7. QED BY <2>1, <2>2, <2>3, <2>6
  <1>8. ASSUME NEW m \in Seq(V), v = <<"array", m>> PROVE AgendaFits(a)
    <2>1. v[1] = "array" /\ v[2] = m
      BY <1>8
    <2>2. PICK n \in Nat : n = Len(m) /\ DOMAIN m = 1 .. n
      BY <1>8
    <2>3. PICK items : items = [i \in 1 .. n |-> <<Value(m[i], depth + 1)>>]
      OBVIOUS
    <2>4. a = Items(<<"[">>, [i \in DOMAIN v[2] |-> <<Value(v[2][i], depth + 1)>>], <<"]">>, depth)
      BY <2>1 DEF Dumps
    <2>5. a = Items(<<"[">>, items, <<"]">>, depth)
      BY <2>1, <2>2, <2>3, <2>4
    <2>6. ASSUME NEW i \in 1 .. n PROVE AgendaFits(items[i])
      <3>1. IsValue(m[i])
        BY <1>2, <1>8, <2>2
      <3>2. ItemFits(Value(m[i], depth + 1))
        <4>1. depth + 1 \in Nat
          OBVIOUS
        <4>2. QED BY <3>1, <4>1, PiecesFit
      <3>3. QED BY <2>3, <3>2, AgendasAre
    <2>7. items = [i \in 1 .. n |-> items[i]]
      BY <2>3
    <2>8. IsText(<<"[">>) /\ IsText(<<"]">>)
      BY TextsAre
    <2>9. QED BY <2>5, <2>6, <2>7, <2>8, ItemsFit
  <1>9. ASSUME NEW m, v = <<"object", m>>, IsFiniteSet(m), PairsOf(m, V) PROVE AgendaFits(a)
    <2>1. v[1] = "object" /\ v[2] = m
      BY <1>9
    <2>2. PICK n \in Nat : n = Cardinality(m)
      BY <1>9, FS_CardinalityType
    <2>3. PICK o \in Orders(v[2]) :
             a = Items(<<"{">>, [i \in DOMAIN o |-> Member(o[i], depth)], <<"}">>, depth)
      BY <2>1 DEF Dumps
    <2>4. o \in [1 .. n -> m]
      BY <2>1, <2>2, <2>3 DEF Orders
    <2>5. PICK items : items = [i \in 1 .. n |-> Member(o[i], depth)]
      OBVIOUS
    <2>6. a = Items(<<"{">>, items, <<"}">>, depth)
      BY <2>3, <2>4, <2>5
    <2>7. ASSUME NEW i \in 1 .. n PROVE AgendaFits(items[i])
      <3>1. PICK k, w : IsText(k) /\ w \in V /\ o[i] = <<k, w>>
        BY <1>9, <2>4 DEF PairsOf
      <3>2. AgendaFits(Member(<<k, w>>, depth))
        BY <1>2, <3>1, MemberFits
      <3>3. QED BY <2>5, <3>1, <3>2
    <2>8. items = [i \in 1 .. n |-> items[i]]
      BY <2>5
    <2>9. IsText(<<"{">>) /\ IsText(<<"}">>)
      BY TextsAre
    <2>10. QED BY <2>6, <2>7, <2>8, <2>9, ItemsFit
  <1>10. QED BY <1>1, <1>4, <1>5, <1>6, <1>7, <1>8, <1>9 DEF ValueOf

-----------------------------------------------------------------------------
(* The two buffers.                                                         *)

\* What a dump keeps.
PrinterFits == HasRoom(out) /\ AgendaFits(agenda)

\* The kinds of items are told apart by their fields.
LEMMA ItemIs ==
    ASSUME NEW x, ItemFits(x)
    PROVE  /\ "value" \in DOMAIN x => IsValue(x.value) /\ x.depth \in Nat
           /\ "pieces" \in DOMAIN x => /\ TextsOf(x.pieces) /\ x.pieces # <<>>
                                       /\ x = [pieces |-> x.pieces, minds |-> x.minds]
  <1>1. CASE x = SortKeys
    <2>1. DOMAIN x = {"keys"}
      BY <1>1 DEF SortKeys
    <2>2. QED BY <2>1
  <1>2. ASSUME NEW v, NEW d \in Nat, IsValue(v), x = Value(v, d)
        PROVE  DOMAIN x = {"value", "depth"} /\ x.value = v /\ x.depth = d
    BY <1>2 DEF Value
  <1>3. ASSUME NEW p, NEW b, TextsOf(p), p # <<>>, x = [pieces |-> p, minds |-> b]
        PROVE  DOMAIN x = {"pieces", "minds"} /\ x.pieces = p /\ x.minds = b
    BY <1>3
  <1>4. CASE \E v : \E d \in Nat : IsValue(v) /\ x = Value(v, d)
    BY <1>2, <1>4
  <1>5. CASE \E p, b : TextsOf(p) /\ p # <<>> /\ x = [pieces |-> p, minds |-> b]
    BY <1>3, <1>5
  <1>6. QED BY <1>1, <1>4, <1>5 DEF ItemFits

\* The first of the texts that are left, and the others.
LEMMA TextsGoOn ==
    ASSUME NEW p, TextsOf(p), p # <<>>
    PROVE  IsText(Head(p)) /\ TextsOf(Tail(p)) /\ (Len(p) # 1 => Tail(p) # <<>>)
  <1>1. PICK S : p \in Seq(Seq(S))
    BY DEF TextsOf
  <1>2. Head(p) \in Seq(S) /\ Tail(p) \in Seq(Seq(S))
    BY <1>1
  <1>3. ASSUME Len(p) # 1 PROVE Tail(p) # <<>>
    <2>1. PICK q : q = Tail(p)
      OBVIOUS
    <2>2. q \in Seq(Seq(S)) /\ Len(q) = Len(p) - 1 /\ Len(p) \in Nat
      BY <1>1, <2>1
    <2>3. q # <<>>
      BY <1>3, <2>2
    <2>4. QED BY <2>1, <2>3
  <1>4. QED BY <1>2, <1>3 DEF IsText, TextsOf

\* A call of the callback.
LEMMA PieceKeeps ==
    ASSUME PrinterFits, DumpPiece PROVE PrinterFits'
  <1>1. agenda # <<>> /\ "pieces" \in DOMAIN Head(agenda)
    BY DEF DumpPiece
  <1>2. PICK item : item = Head(agenda)
    OBVIOUS
  <1>3. PICK p, b : item = [pieces |-> p, minds |-> b] /\ p = item.pieces /\ TextsOf(p) /\ p # <<>>
    <2>1. ItemFits(item)
      BY <1>1, <1>2, AgendasAre DEF PrinterFits
    <2>2. QED BY <1>1, <1>2, <2>1, ItemIs
  <1>4. AgendaFits(Tail(agenda)) /\ AgendaFits(<<>>)
    BY <1>1, AgendasAre DEF PrinterFits
  <1>5. PICK rest : rest = IF Len(item.pieces) = 1 THEN Tail(agenda)
                           ELSE <<[item EXCEPT !.pieces = Tail(@)]>> \o Tail(agenda)
    OBVIOUS
  <1>6. AgendaFits(rest)
    <2>1. CASE Len(item.pieces) = 1
      BY <1>4, <1>5, <2>1
    <2>2. CASE Len(item.pieces) # 1
      <3>1. PICK q : q = Tail(p)
        OBVIOUS
      <3>2. TextsOf(q) /\ q # <<>>
        BY <1>3, <2>2, <3>1, TextsGoOn
      <3>3. [item EXCEPT !.pieces = Tail(@)] = [pieces |-> q, minds |-> b]
        BY <1>3, <3>1
      <3>4. PICK x : x = [pieces |-> q, minds |-> b]
        OBVIOUS
      <3>5. ItemFits(x)
        BY <3>2, <3>4, PiecesFit
      <3>6. rest = <<x>> \o Tail(agenda)
        BY <1>5, <2>2, <3>3, <3>4
      <3>7. QED BY <1>4, <3>5, <3>6, AgendasAre
    <2>3. QED BY <2>1, <2>2
  <1>7. PICK R : R = IF Head(item.pieces) = Undecodable
                     THEN {[ok |-> FALSE, buffer |-> out, failed |-> 0]}
                     ELSE Appends(out, Head(item.pieces))
    OBVIOUS
  <1>8. PICK r \in R : /\ out' = r.buffer
                       /\ \/ agenda' = rest \/ Failing \/ agenda' = Tail(agenda)
    BY <1>2, <1>5, <1>7 DEF DumpPiece
  <1>9. HasRoom(r.buffer)
    <2>1. CASE Head(item.pieces) = Undecodable
      <3>1. r.buffer = out
        BY <1>7, <1>8, <2>1
      <3>2. QED BY <3>1 DEF PrinterFits
    <2>2. CASE Head(item.pieces) # Undecodable
      <3>1. PICK S : Head(p) \in Seq(S)
        BY <1>3, TextsGoOn DEF IsText
      <3>2. r \in Appends(out, Head(p))
        BY <1>3, <1>7, <1>8, <2>2
      <3>3. HasRoom(out)
        BY DEF PrinterFits
      <3>4. QED BY <3>1, <3>2, <3>3, AppendsHasRoom
    <2>3. QED BY <2>1, <2>2
  <1>10. AgendaFits(agenda')
    BY <1>4, <1>6, <1>8 DEF Failing
  <1>11. QED BY <1>8, <1>9, <1>10 DEF PrinterFits

\* Every step of a dump keeps it so.
LEMMA DumpKeeps ==
    ASSUME PrinterFits, DumpStep PROVE PrinterFits'
  <1>1. CASE DumpValue
    <2>1. agenda # <<>> /\ "value" \in DOMAIN Head(agenda) /\ out' = out
      BY <1>1 DEF DumpValue
    <2>2. PICK d \in Dumps(Head(agenda).value, Head(agenda).depth) : agenda' = d \o Tail(agenda)
      BY <1>1 DEF DumpValue
    <2>3. ItemFits(Head(agenda)) /\ AgendaFits(Tail(agenda))
      BY <2>1, AgendasAre DEF PrinterFits
    <2>4. PICK v, n : v = Head(agenda).value /\ n = Head(agenda).depth
      OBVIOUS
    <2>5. IsValue(v) /\ n \in Nat
      BY <2>1, <2>3, <2>4, ItemIs
    <2>6. AgendaFits(d)
      BY <2>2, <2>4, <2>5, DumpsFit
    <2>7. AgendaFits(agenda')
      BY <2>2, <2>3, <2>6, AgendasAre
    <2>8. QED BY <2>1, <2>7 DEF PrinterFits
  <1>2. CASE DumpSortKeys
    <2>1. agenda # <<>> /\ out' = out /\ agenda' \in {Tail(agenda), <<>>}
      BY <1>2 DEF DumpSortKeys, Failing
    <2>2. AgendaFits(Tail(agenda)) /\ AgendaFits(<<>>)
      BY <2>1, AgendasAre DEF PrinterFits
    <2>3. AgendaFits(agenda')
      BY <2>1, <2>2
    <2>4. QED BY <2>1, <2>3 DEF PrinterFits
  <1>3. CASE DumpPiece
    BY <1>3, PieceKeeps
  <1>4. CASE DumpEnd
    BY <1>4 DEF DumpEnd, PrinterFits
  <1>5. QED BY <1>1, <1>2, <1>3, <1>4 DEF DumpStep

\* What holds of the two buffers, and of what they are made from.
TextInv == LexerInv /\ HasRoom(saved) /\ ParserFits /\ PrinterFits

\* Every step keeps it.
LEMMA TextSteps ==
    ASSUME TextInv, [Next]_vars PROVE TextInv'
  <1>1. LexerInv' /\ HasRoom(saved')
    BY LexerSteps, SavedSteps DEF TextInv, LexerInv
  <1>2. CASE Begin \/ BeginReload
    <2>1. /\ lex' = "start" /\ stack' = <<>> /\ expect' = "top" /\ status' \in {"idle", "run", "rejected"}
          /\ UNCHANGED dumping
      BY <1>2 DEF Begin, BeginReload, Load
    <2>2. ParserFits'
      BY <2>1, NewParser
    <2>3. PrinterFits'
      BY <2>1 DEF TextInv, PrinterFits, dumping
    <2>4. QED BY <1>1, <2>2, <2>3 DEF TextInv
  <1>3. CASE BeginDump
    <2>1. /\ lex' = "start" /\ stack' = <<>> /\ expect' = "top" /\ status' \in {"idle", "run", "rejected"}
          /\ status = "accepted" /\ out' = NewBuffer /\ agenda' \in {<<>>, <<Value(result, 0)>>}
      BY <1>3 DEF BeginDump, Dump
    <2>2. ParserFits'
      BY <2>1, NewParser
    <2>3. IsValue(result)
      BY <2>1 DEF TextInv, ParserFits, HasValue
    <2>4. ItemFits(Value(result, 0))
      BY <2>3, PiecesFit
    <2>5. AgendaFits(<<>>) /\ AgendaFits(<<Value(result, 0)>>)
      BY <2>4, AgendasAre
    <2>6. PrinterFits'
      BY <2>1, <2>5, NewHasRoom DEF PrinterFits
    <2>7. QED BY <1>1, <2>2, <2>6 DEF TextInv
  <1>4. CASE Loading
    <2>1. LoadStep /\ UNCHANGED dumping
      BY <1>4 DEF Loading
    <2>2. ParserFits'
      BY <2>1, LoadKeeps DEF TextInv, LexerInv
    <2>3. PrinterFits'
      BY <2>1 DEF TextInv, PrinterFits, dumping
    <2>4. QED BY <1>1, <2>2, <2>3 DEF TextInv
  <1>5. CASE Dumping
    <2>1. DumpStep /\ UNCHANGED loading
      BY <1>5 DEF Dumping
    <2>2. ParserFits'
      BY <2>1 DEF TextInv, ParserFits, HasValue, InContainer, loading
    <2>3. PrinterFits'
      BY <2>1, DumpKeeps DEF TextInv
    <2>4. QED BY <1>1, <2>2, <2>3 DEF TextInv
  <1>6. CASE Finish \/ UNCHANGED vars
    <2>1. UNCHANGED loading /\ UNCHANGED dumping
      BY <1>6 DEF Finish, vars, loading, dumping
    <2>2. ParserFits'
      BY <2>1 DEF TextInv, ParserFits, HasValue, InContainer, loading
    <2>3. PrinterFits'
      BY <2>1 DEF TextInv, PrinterFits, dumping
    <2>4. QED BY <1>1, <2>2, <2>3 DEF TextInv
  <1>7. QED BY <1>2, <1>3, <1>4, <1>5, <1>6 DEF Next

\* For any sizes that fit a size_t, any characters and any texts, both buffers have room
\* for their text and its NUL: no size that is computed while one grows has wrapped around.
THEOREM BuffersKeepRoom == Spec => []BuffersHaveRoom
  <1>1. Init => TextInv
    <2> SUFFICES ASSUME Init PROVE TextInv
      OBVIOUS
    <2>1. /\ lex = "start" /\ stack = <<>> /\ expect = "top" /\ status = "idle"
          /\ lost = FALSE /\ saved = NewBuffer /\ out = NewBuffer /\ agenda = <<>>
      BY DEF Init, InitLoad, InitDump
    <2>2. HasRoom(saved) /\ HasRoom(out)
      BY <2>1, NewHasRoom
    <2>3. LexerInv
      <3>1. Fits(lost, lex, saved, status)
        BY <2>1, NewFits
      <3>2. QED BY <2>1, <3>1 DEF LexerInv, Expected
    <2>4. ParserFits
      <3>1. PICK F : F = {}
        OBVIOUS
      <3>2. <<>> \in Seq(F) /\ \A f \in F : FrameFits(f)
        BY <3>1
      <3>3. StackFits(<<>>)
        BY <3>2 DEF StackFits
      <3>4. QED BY <2>1, <3>3 DEF ParserFits, InContainer, HasValue
    <2>5. PrinterFits
      BY <2>1, <2>2, AgendasAre DEF PrinterFits
    <2>6. QED BY <2>2, <2>3, <2>4, <2>5 DEF TextInv
  <1>2. TextInv /\ [Next]_vars => TextInv'
    BY TextSteps
  <1>3. TextInv => BuffersHaveRoom
    BY DEF TextInv, PrinterFits, HasRoom, BuffersHaveRoom
  <1>4. QED BY <1>1, <1>2, <1>3, PTL DEF Spec

-----------------------------------------------------------------------------
(* The seed of the hash tables.                                             *)

\* The threads that are about to write the seed.
Seeders == {t \in Thread : pc[t] \in {"generate", "store"}}

\* Where a claim guards the seeding, its holder is alone and the seed is not set.
Exclusive ==
    Claims =>
        /\ \A s, t \in Seeders : s = t
        /\ Seeders # {} => seed_initialized /\ hashtable_seed = 0
        /\ ~seed_initialized => hashtable_seed = 0

\* What a thread is about to store, or to store again, is a seed.
StoresSeed ==
    \A t \in Thread :
        pc[t] = "store" \/ (pc[t] = "wait" /\ variant = "sync") => new_seed[t] \in Seed

\* Only the variants with a claim ask for it.
ClaimsOnly == \A t \in Thread : pc[t] = "claim" => Claims

\* All pairs are hashed with the seed of now, which is set.
Hashed == \A t \in Thread : \A p \in object[t] : p.seed = hashtable_seed /\ p.seed # 0

IInv ==
    /\ SeedTypeOK
    /\ Exclusive
    /\ StoresSeed
    /\ ClaimsOnly
    /\ SeededBeforeUse
    /\ Hashed

USE SeedAssumption

\* The inductive invariant holds initially.
LEMMA InitIInv == SeedInit => IInv
  BY DEF SeedInit, IInv, SeedTypeOK, Exclusive, Seeders, StoresSeed, ClaimsOnly, SeededBeforeUse,
         Hashed, Pair

\* Making an object needs a set seed or goes through the seeding.
LEMMA JsonObjectStep ==
    ASSUME IInv, UNCHANGED variant, NEW t \in Thread, JsonObject(t)
    PROVE  IInv'
  BY DEF JsonObject, Moves, IInv, SeedTypeOK, Exclusive, Seeders, StoresSeed, ClaimsOnly,
         SeededBeforeUse, Hashed, Claims, Pair

\* A thread that finds the seed set goes on, one that does not asks to set it.
LEMMA EnterStep ==
    ASSUME IInv, UNCHANGED variant, NEW t \in Thread, Enter(t), "fallback" \notin Variants
    PROVE  IInv'
  <1>1. PICK p \in {"init", "claim", "generate"} :
            /\ Moves(t, p)
            /\ p = "init" => hashtable_seed # 0
            /\ p = "claim" => Claims
            /\ p = "generate" => ~Claims
    BY DEF Enter
  <1>2. Claims' = Claims
    BY DEF Claims
  <1>3. QED
    BY <1>1, <1>2 DEF Enter, Moves, IInv, SeedTypeOK, Exclusive, Seeders, StoresSeed, ClaimsOnly,
                      SeededBeforeUse, Hashed, Pair

\* The claim goes to one thread, while the seed is zero.
LEMMA ClaimStep ==
    ASSUME IInv, UNCHANGED variant, NEW t \in Thread, Claim(t)
    PROVE  IInv'
  <1>1. Claims /\ Claims'
    BY DEF Claim, IInv, ClaimsOnly, Claims
  <1>2. PICK p \in {"wait", "generate"} :
            Moves(t, p) /\ (p = "generate" => ~seed_initialized)
    BY DEF Claim
  <1>3. Exclusive'
    BY <1>1, <1>2 DEF Claim, Moves, IInv, SeedTypeOK, Exclusive, Seeders, Claims
  <1>4. QED
    BY <1>1, <1>2, <1>3 DEF Claim, Moves, IInv, SeedTypeOK, StoresSeed, ClaimsOnly,
                            SeededBeforeUse, Hashed, Claims, Pair

\* The generated seed is not zero.
LEMMA GenerateStep ==
    ASSUME IInv, UNCHANGED variant, NEW t \in Thread, Generate(t)
    PROVE  IInv'
  BY DEF Generate, Moves, IInv, SeedTypeOK, Exclusive, Seeders, StoresSeed, ClaimsOnly,
         SeededBeforeUse, Hashed, Claims, Pair

\* A store overwrites a zero seed only, so there is no pair yet that it strands.
LEMMA StoreFinds ==
    ASSUME IInv, UNCHANGED variant, NEW t \in Thread, Store(t), "fallback" \notin Variants
    PROVE  hashtable_seed = 0 \/ hashtable_seed' = hashtable_seed
  BY DEF Store, IInv, SeedTypeOK, Exclusive, Seeders, Claims

\* Storing the seed keeps the invariant.
LEMMA StoreStep ==
    ASSUME IInv, UNCHANGED variant, NEW t \in Thread, Store(t), "fallback" \notin Variants
    PROVE  IInv'
  <1>1. CASE /\ variant = "sync" => hashtable_seed = 0
             /\ hashtable_seed' = new_seed[t]
             /\ Moves(t, "init")
    <2>1. hashtable_seed = 0 /\ hashtable_seed' \in Seed
      BY <1>1, StoreFinds DEF Store, IInv, SeedTypeOK, StoresSeed, Exclusive, Seeders, Claims
    <2>2. \A s \in Thread : object[s] = {}
      BY <2>1 DEF IInv, Hashed
    <2>3. SeedTypeOK'
      BY <1>1, <2>1 DEF Store, Moves, IInv, SeedTypeOK
    <2>4. Exclusive'
      <3>1. SUFFICES ASSUME Claims PROVE Exclusive'
        BY DEF Exclusive, Claims
      <3>2. seed_initialized /\ Seeders = {t} /\ Seeders' = {}
        BY <1>1, <3>1 DEF Store, Moves, IInv, SeedTypeOK, Exclusive, Seeders
      <3>3. QED BY <3>2 DEF Store, Exclusive
    <2>5. QED
      BY <1>1, <2>1, <2>2, <2>3, <2>4 DEF Store, Moves, IInv, SeedTypeOK, StoresSeed, ClaimsOnly,
                                          SeededBeforeUse, Hashed, Claims
  <1>2. CASE /\ variant = "sync" /\ hashtable_seed # 0
             /\ Moves(t, "wait")
             /\ UNCHANGED hashtable_seed
    BY <1>2 DEF Store, Moves, IInv, SeedTypeOK, Exclusive, Seeders, StoresSeed, ClaimsOnly,
                SeededBeforeUse, Hashed, Claims, Pair
  <1>3. QED BY <1>1, <1>2 DEF Store

\* A waiting thread goes on when the seed is set.  With a compare-and-swap it
\* waits only after another thread's seed was there.
LEMMA WaitStep ==
    ASSUME IInv, UNCHANGED variant, NEW t \in Thread, Wait(t)
    PROVE  IInv'
  <1>1. PICK p \in {"init", "store", "wait"} :
            /\ Moves(t, p)
            /\ p = "init" => hashtable_seed # 0
            /\ p = "store" => variant = "sync" /\ hashtable_seed = 0
    BY DEF Wait
  <1>2. QED
    BY <1>1 DEF Wait, Moves, IInv, SeedTypeOK, Exclusive, Seeders, StoresSeed, ClaimsOnly,
                SeededBeforeUse, Hashed, Claims, Pair

\* The buckets are allocated, or the object is not made.
LEMMA InitTableStep ==
    ASSUME IInv, UNCHANGED variant, NEW t \in Thread, InitTable(t)
    PROVE  IInv'
  BY DEF InitTable, Moves, IInv, SeedTypeOK, Exclusive, Seeders, StoresSeed, ClaimsOnly,
         SeededBeforeUse, Hashed, Claims, Pair

\* A key is stored under the hash of the seed of now.
LEMMA HashtableSetStep ==
    ASSUME IInv, UNCHANGED variant, NEW t \in Thread, HashtableSet(t)
    PROVE  IInv'
  <1>1. PICK k \in Key : object' = [object EXCEPT ![t] = @ \cup {FindPair(t, k)}]
    BY DEF HashtableSet
  <1>2. FindPair(t, k) \in Pair /\ FindPair(t, k).seed = hashtable_seed /\ hashtable_seed # 0
    BY DEF HashtableSet, FindPair, Pair, IInv, SeedTypeOK, SeededBeforeUse
  <1>3. SeedTypeOK' /\ Hashed'
    BY <1>1, <1>2 DEF HashtableSet, IInv, SeedTypeOK, Hashed
  <1>4. QED
    BY <1>3 DEF HashtableSet, IInv, Exclusive, Seeders, StoresSeed, ClaimsOnly,
                SeededBeforeUse, Claims

\* Removing pairs strands none of the others.
LEMMA RemoveStep ==
    ASSUME IInv, UNCHANGED variant, NEW t \in Thread, HashtableDel(t) \/ JsonDelete(t) PROVE IInv'
  <1>1. PICK P \in SUBSET object[t] : object' = [object EXCEPT ![t] = P]
    BY DEF HashtableDel, JsonDelete
  <1>2. Hashed'
    BY <1>1 DEF HashtableDel, JsonDelete, IInv, SeedTypeOK, Hashed
  <1>3. QED
    BY <1>1, <1>2 DEF HashtableDel, JsonDelete, Moves, IInv, SeedTypeOK, Exclusive, Seeders,
                      StoresSeed, ClaimsOnly, SeededBeforeUse, Claims

\* Every step of a build that is not the fallback keeps the invariant.
LEMMA NextStep == ASSUME IInv, [SeedNext]_seedVars, "fallback" \notin Variants PROVE IInv'
  <1>1. CASE UNCHANGED seedVars
    BY <1>1 DEF seedVars, IInv, SeedTypeOK, Exclusive, Seeders, StoresSeed, ClaimsOnly,
                SeededBeforeUse, Hashed, Claims, Pair
  <1>2. CASE SeedNext
    BY <1>2, JsonObjectStep, EnterStep, ClaimStep, GenerateStep, StoreStep, WaitStep,
       InitTableStep, HashtableSetStep, RemoveStep
    DEF SeedNext, SeedStep
  <1>3. QED BY <1>1, <1>2

\* The inductive invariant is one.
THEOREM SeedInvariance == ASSUME "fallback" \notin Variants PROVE SeedSpec => []IInv
  <1>1. SeedInit => IInv
    BY InitIInv
  <1>2. IInv /\ [SeedNext]_seedVars => IInv'
    BY NextStep
  <1>3. QED BY <1>1, <1>2, PTL DEF SeedSpec

\* For any threads, keys and seeds: with a claim or a compare-and-swap, no race
\* for the first object ever hides a key or stores it twice.
THEOREM KeysStayFound == ASSUME "fallback" \notin Variants PROVE SeedSpec => []KeysAreFound
  <1>1. IInv => KeysAreFound
    BY DEF IInv, SeedTypeOK, Hashed, KeysAreFound, HashtableGet, FindPair, Pair
  <1>2. QED BY <1>1, SeedInvariance, PTL

\* Nor does a thread use an object while the seed can still be chosen.
THEOREM SeedsBeforeUse == ASSUME "fallback" \notin Variants PROVE SeedSpec => []SeededBeforeUse
  <1>1. IInv => SeededBeforeUse
    BY DEF IInv
  <1>2. QED BY <1>1, SeedInvariance, PTL

\* And the seed is set once.
THEOREM SeedsOnce == ASSUME "fallback" \notin Variants PROVE SeedSpec => SeedIsFinal
  <1>1. IInv /\ [SeedNext]_seedVars => (hashtable_seed # 0 => hashtable_seed' = hashtable_seed)
    BY StoreFinds
    DEF SeedNext, seedVars, SeedStep, JsonObject, Enter, Claim, Generate, Wait, InitTable,
        HashtableSet, HashtableDel, JsonDelete
  <1>2. QED BY <1>1, SeedInvariance, PTL DEF SeedSpec, SeedIsFinal
=============================================================================
