------------------------- MODULE MCAutoreleasePool -------------------------
(* AutoreleasePool for TLC. *)
EXTENDS AutoreleasePoolInv, TLC

(* Objects are interchangeable (not used with liveness).                   *)
Symmetry == Permutations(Objects)

=============================================================================
