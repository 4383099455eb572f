----------------------------- MODULE MCJsonSeed -----------------------------
(* Instances of JsonSeed for TLC.                                           *)
EXTENDS JsonSeed

CONSTANTS t1, t2, t3, k1, k2
=============================================================================
