--------------------------- MODULE MCNifResources ---------------------------
(* NifResources for TLC: which adapter has the lower address.              *)
EXTENDS NifResources

CONSTANTS a1, a2

AddrOrder == [a \in Adapters |-> IF a = a1 THEN 1 ELSE 2]
=============================================================================
