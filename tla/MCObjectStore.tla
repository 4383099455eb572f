--------------------------- MODULE MCObjectStore ---------------------------
(* Instances of ObjectStore for TLC.                                        *)
EXTENDS ObjectStore, TLC

CONSTANTS t1, t2
TwoThreads == {t1, t2}
Symmetry == Permutations(TwoThreads)

\* The calls on one object.
OnObject == {"createWithId", "patch", "replace", "get", "delete"}

\* A success and a refusal: the readers of these calls tell no others apart.
AcceptOrRefuse == {200, 412}
=============================================================================
