---------------------------- MODULE JsonSymbols ----------------------------
(***************************************************************************)
(* The texts and the values of jansson, as its parser and printer see      *)
(* them.  A byte is a symbol: "n" is the letter of all short escapes, " "  *)
(* a blank but the newline, "true" a literal, "^" a control character;     *)
(* "e", "u" and "n" are the other letters.  The four digits of an escape   *)
(* \uXXXX are one symbol.  A text has no NUL, as json_loads ends there.    *)
(*                                                                         *)
(* A value is a tuple of its type and of what it holds: the bytes of a     *)
(* string ("nul" may be one), the text of an integer, the sign, digits and *)
(* exponent of a real, the elements of an array, the pairs of an object.   *)
(***************************************************************************)
EXTENDS StrBuffer

CONSTANTS
    Inputs,     \* the inputs: symbols, those inside a string, length, flags
    MultiByte,  \* the characters of more than one byte, as their bytes
    Escaped,    \* the digits of an escape that is a character, with its bytes
    High, Low,  \* the digits of the two escapes of a surrogate pair,
    Astral,     \* and the bytes of the character they are
    MaxDigits,    \* the digits of the largest json_int_t
    MaxExponent,  \* the decimal exponent of the largest double
    Precision     \* the digits a double is printed with

\* No byte inside a character begins one, or is a newline, and the first byte
\* tells how many there are.
ASSUME MultiByteAssumption == \A m \in MultiByte :
    /\ m \in Seq(ToSet(m)) /\ Len(m) > 1 /\ "newline" \notin ToSet(m)
    /\ \A k \in MultiByte : \A i \in 2 .. Len(m) : m[i] # k[1]
    /\ \A k \in MultiByte : k[1] = m[1] => Len(k) = Len(m)

\* The characters of the escapes are bytes.
ASSUME EscapedAssumption ==
    \A c \in {Escaped[x] : x \in DOMAIN Escaped} \cup {Astral} : c \in Seq(ToSet(c))

\* The end of a text is not one of them.
ASSUME HexAssumption == {"eof", "error"} \cap (DOMAIN Escaped \cup {High, Low}) = {}

VARIABLE input  \* the text is one of these

Flag(f) == f \in input.flags

Quote == "\""
Backslash == "\\"
Blank == {" ", "newline"}
Structural == {"{", "}", "[", "]", ":", ","}
Digits == <<"0", "1", "2", "3", "4", "5", "6", "7", "8", "9">>
Digit == ToSet(Digits)
Alpha == {"true", "e", "n", "u"}
Control == {"newline", "^"}
Hex == DOMAIN Escaped \cup {High, Low}

\* utf8_check_first: the bytes of the character that begins with b, or none.
CheckFirst(b) ==
    IF \E m \in MultiByte : b = m[1] THEN Len(CHOOSE m \in MultiByte : b = m[1])
    ELSE IF \E m \in MultiByte : b \in ToSet(m) THEN 0 ELSE 1

-----------------------------------------------------------------------------
(* Numbers, as strtoll, strtod and snprintf take them.                      *)

Unsigned(t) == IF t # <<>> /\ t[1] = "-" THEN Tail(t) ELSE t
Negative(t) == t # <<>> /\ t[1] = "-"
DigitOf(c) == IF c \in Digit THEN CHOOSE d \in 0 .. 9 : Digits[d + 1] = c ELSE 0
NatOf(t) ==
    LET N[k \in 0 .. Len(t)] == IF k = 0 THEN 0 ELSE 10 * N[k - 1] + DigitOf(t[k])
    IN  N[Len(t)]
IntOf(t) == IF Negative(t) THEN -NatOf(Unsigned(t)) ELSE NatOf(t)
TextOf(n) ==
    IF n < 10 THEN <<Digits[n + 1]>> ELSE <<Digits[n \div 10 + 1], Digits[(n % 10) + 1]>>

\* Where a mark first stands, or behind the end: the mantissa lies before the "e".
FirstOf(places, n) == IF places = {} THEN n ELSE Min(places)
At(t, c) == FirstOf({i \in DOMAIN t : t[i] = c}, Len(t) + 1)
Mantissa(t) == SubSeq(t, 1, At(t, "e") - 1)
Exponent(t) == SubSeq(t, At(t, "e") + 1, Len(t))

\* What strtoll and strtod read to the end.
IsInteger(t) == Unsigned(t) # <<>> /\ ToSet(Unsigned(t)) \subseteq Digit
IsReal(t) ==
    /\ LET m == Unsigned(Mantissa(t))
       IN  /\ ToSet(m) \subseteq Digit \cup {"."} /\ ToSet(m) \cap Digit # {}
           /\ \A i, j \in DOMAIN m : m[i] = "." /\ m[j] = "." => i = j
    /\ "e" \in ToSet(t) => IsInteger(Exponent(t))

\* The digits with no zeros before or behind them.
Significant(d) == {i \in DOMAIN d : d[i] # "0"}

\* The number that digits make with a point before the given place, and the one
\* that a mantissa holding its own point makes.
Placed(d, point, negative, exponent) ==
    LET s == Significant(d)
    IN  IF s = {} THEN [negative |-> negative, digits |-> <<"0">>, power |-> 0]
        ELSE [negative |-> negative, digits |-> SubSeq(d, Min(s), Max(s)),
              power |-> point - 1 - Min(s) + exponent]
Positional(m, negative, exponent) ==
    Placed(RemoveAt(m, At(m, ".")), At(m, "."), negative, exponent)
RealOf(t) == Positional(Unsigned(Mantissa(t)), Negative(t), IntOf(Exponent(t)))
IntegerOf(t) == IF t = <<"-", "0">> THEN <<"0">> ELSE t

\* Out of the range of json_int_t, or of a double.
TooBig(t) == Len(Unsigned(t)) > MaxDigits
TooReal(t) == RealOf(t).power > MaxExponent

\* What "%.*g" prints, with no sign and no zeros before an exponent, and with a
\* ".0" when neither a point nor an exponent says that it is a real.
PrintedReal(r) ==
    LET zeros(n) == [i \in 1 .. Max({0, n}) |-> "0"]
        n == Len(r.digits)
        d == IF r.power < 0 THEN zeros(-r.power) \o r.digits
             ELSE r.digits \o zeros(r.power + 1 - n)
        whole == IF r.power < 0 THEN 1 ELSE r.power + 1
        fixed == -5 < r.power /\ r.power < Precision
        point(t, k) == SubSeq(t, 1, k) \o (IF k < Len(t) THEN <<".">> \o SubSeq(t, k + 1, Len(t))
                                           ELSE <<>>)
        text == IF fixed THEN point(d, whole)
                ELSE point(r.digits, 1) \o <<"e">>
                       \o (IF r.power < 0 THEN <<"-">> \o TextOf(-r.power) ELSE TextOf(r.power))
    IN  (IF r.negative THEN <<"-">> ELSE <<>>) \o text
          \o (IF ToSet(text) \cap {".", "e"} = {} THEN <<".", "0">> ELSE <<>>)
=============================================================================
