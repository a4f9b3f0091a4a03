--------------------------- MODULE MCCachePublish ---------------------------
(* Small instances of CachePublish for TLC. *)
EXTENDS CachePublish, TLC

(* Every key in the same namespace. *)
OneNamespace == [k \in Keys |-> CHOOSE n \in Namespaces : TRUE]

WriterSymmetry == Permutations(Writers)
ActorSymmetry == Permutations(Writers) \cup Permutations(Refs)
=============================================================================
