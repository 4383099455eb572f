------------------------------- MODULE KeyMap -------------------------------
(***************************************************************************)
(* What jansson's hashtable.h promises to the JSON objects built on it: a  *)
(* map from keys to values.  A call that runs out of memory changes        *)
(* nothing, but it may leave the map fit for nothing but to be closed.     *)
(***************************************************************************)
CONSTANTS Key, Value, Null

VARIABLES
    map,     \* the values by their keys
    usable,  \* may the map still be used
    answer   \* what the last call returned

vars == <<map, usable, answer>>

Init == map = <<>> /\ usable = TRUE /\ answer = "ok"

With(k, v) == [j \in DOMAIN map \cup {k} |-> IF j = k THEN v ELSE map[j]]
Without(k) == [j \in DOMAIN map \ {k} |-> map[j]]

Set(k, v) ==
    /\ usable = TRUE
    /\ map' = With(k, v) /\ answer' = "ok"
    /\ UNCHANGED usable

SetFails ==
    /\ usable = TRUE
    /\ usable' \in BOOLEAN /\ answer' = "fail"
    /\ UNCHANGED map

Get(k) ==
    /\ usable = TRUE
    /\ answer' = IF k \in DOMAIN map THEN map[k] ELSE Null
    /\ UNCHANGED <<map, usable>>

Del(k) ==
    /\ usable = TRUE
    /\ map' = Without(k)
    /\ answer' = IF k \in DOMAIN map THEN "ok" ELSE "fail"
    /\ UNCHANGED usable

\* The value of a pair found by an iteration is replaced.
Replace(k, v) ==
    /\ k \in DOMAIN map
    /\ map' = With(k, v)
    /\ UNCHANGED <<usable, answer>>

Clear ==
    /\ usable = TRUE
    /\ map' = <<>> /\ answer' = "ok"
    /\ UNCHANGED usable

Close ==
    /\ map' = <<>> /\ usable' = TRUE /\ answer' = "ok"

Next ==
    \/ \E k \in Key, v \in Value : Set(k, v) \/ Replace(k, v)
    \/ \E k \in Key : Get(k) \/ Del(k)
    \/ SetFails
    \/ Clear
    \/ Close

Spec == Init /\ [][Next]_vars
=============================================================================
