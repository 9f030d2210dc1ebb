---------------------------- MODULE MCLocalState ----------------------------
(* Instance of LocalState. *)
EXTENDS LocalState, TLC

Symmetry == Permutations(Threads) \cup Permutations(Queries)
=============================================================================
