------------------------------ MODULE MCClient ------------------------------
(* Small instances of Client.                                              *)
EXTENDS Client, TLC

Symmetry == Permutations(Threads)
=============================================================================
