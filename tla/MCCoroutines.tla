---------------------------- MODULE MCCoroutines ----------------------------
(* Coroutines for TLC: the .cfg files name model values for the identities.  *)
EXTENDS Coroutines, TLC

Symmetry == Permutations(Coros) \cup Permutations(States)
=============================================================================
