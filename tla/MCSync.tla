------------------------------- MODULE MCSync -------------------------------
(* Sync for TLC. *)
EXTENDS Sync, TLC

Symmetry == Permutations(Threads)

=============================================================================
