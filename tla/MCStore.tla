------------------------------ MODULE MCStore ------------------------------
(* Instances of Store for TLC: four blocks, one as long as the others together. *)
EXTENDS Store

CONSTANTS d1, d2, d3, d4

OneLong == [d \in Digests |-> IF d = d4 THEN 3 ELSE 1]
=============================================================================
