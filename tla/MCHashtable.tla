---------------------------- MODULE MCHashtable ----------------------------
(* Instances of Hashtable for TLC.                                          *)
EXTENDS Hashtable

CONSTANTS k1, k2, k3, k4, none, v1, v2, null

\* Three keys share one of two and of four buckets, two of them one of eight.
SomeHash == (k1 :> 0) @@ (k2 :> 4) @@ (k3 :> 8) @@ (k4 :> 1)

Symmetry == Permutations({v1, v2})
=============================================================================
