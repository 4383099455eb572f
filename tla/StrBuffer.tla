----------------------------- MODULE StrBuffer -----------------------------
(***************************************************************************)
(* jansson's strbuffer.c, a text that grows, and the memory it asks for.   *)
(* What a call may do is the set of its outcomes: what it returns, and how *)
(* many allocations fail in it.                                            *)
(***************************************************************************)
EXTENDS Integers, SequencesExt

CONSTANTS
    MinSize,     \* STRBUFFER_MIN_SIZE
    SizeMax,     \* STRBUFFER_SIZE_MAX, the largest size_t
    MaxFailures  \* bound on the allocations that fail in a behaviour

ASSUME StrBufferAssumption ==
    /\ MinSize \in Nat /\ SizeMax \in Nat /\ 1 < MinSize /\ MinSize < SizeMax
    /\ MaxFailures \in Nat

VARIABLE failures  \* the allocations that have failed

\* jsonp_malloc.
Mallocs ==
    {[ok |-> TRUE, failed |-> 0]} \cup
        IF failures < MaxFailures THEN {[ok |-> FALSE, failed |-> 1]} ELSE {}
After(outcome) == failures' = failures + outcome.failed

Factor == 2
NewBuffer == [value |-> <<>>, size |-> MinSize]
Cleared(b) == [b EXCEPT !.value = <<>>]

\* Mutant: the last byte stays.
PoppedNothing(b) == b

\* strbuffer_pop.
Popped(b) == [b EXCEPT !.value = IF @ = <<>> THEN @ ELSE Front(@)]

\* Mutant: the sizes are not checked before they are computed.
OverflowsNever(b, n) == FALSE

Overflows(b, n) ==
    \/ b.size > SizeMax \div Factor
    \/ n > SizeMax - 1
    \/ Len(b.value) > SizeMax - 1 - n

\* The size computed in size_t.
Grown(b, n) ==
    Max({(b.size * Factor) % (SizeMax + 1), (Len(b.value) + n + 1) % (SizeMax + 1)})

\* strbuffer_append_bytes of s, and the buffer after it.
Appends(b, s) ==
    LET n == Len(s)
        appended == b.value \o s
        fails(k) == [ok |-> FALSE, buffer |-> b, failed |-> k]
    IN  CASE n < b.size - Len(b.value) ->
                {[ok |-> TRUE, buffer |-> [b EXCEPT !.value = appended], failed |-> 0]}
          [] n >= b.size - Len(b.value) /\ Overflows(b, n) ->
                {fails(0)}
          [] OTHER ->
                {IF m.ok
                 THEN [ok |-> TRUE, failed |-> 0,
                       buffer |-> [value |-> appended, size |-> Grown(b, n)]]
                 ELSE fails(m.failed) : m \in Mallocs}
=============================================================================
