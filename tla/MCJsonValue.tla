---------------------------- MODULE MCJsonValue ----------------------------
(* Instances of JsonValue for TLC.                                          *)
EXTENDS JsonValue

Symmetry == Permutations(Node)
=============================================================================
