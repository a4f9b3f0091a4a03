------------------------- MODULE MCWriterSemaphore -------------------------
(* Small instances of WriterSemaphore for TLC. *)
EXTENDS WriterSemaphore, TLC

ProcSymmetry == Permutations(Procs)
=============================================================================
