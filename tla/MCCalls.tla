------------------------------ MODULE MCCalls ------------------------------
(* Calls for TLC: the .cfg files name model values for the runtimes.         *)
EXTENDS Calls, TLC

Symmetry == Permutations(Runtimes)
=============================================================================
