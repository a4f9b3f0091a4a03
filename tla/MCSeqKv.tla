------------------------------ MODULE MCSeqKv ------------------------------
(* SeqKv for TLC: the prompts and tails of its requests.  Two prompts      *)
(* share a first token, the third shares none with them.                   *)
EXTENDS SeqKv

MCPrompts == {<<1, 1>>, <<1, 2, 1>>, <<2, 2>>}
MCTails   == {<<2, 1>>}
Symmetry  == Permutations(Sessions)
=============================================================================
