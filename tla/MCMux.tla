------------------------------- MODULE MCMux -------------------------------
(* Small instances of Mux.                                                 *)
EXTENDS Mux, TLC

Symmetry == Permutations(Threads)
=============================================================================
