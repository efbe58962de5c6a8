-------------------------- MODULE MCWeakReferences --------------------------
(* WeakReferences for TLC. *)
EXTENDS WeakReferences, TLC

CONSTANTS o1, o2

(* Two side tables; Nil shares one with o1.                                *)
MCStripe == (Nil :> 0) @@ [o \in Objects |-> IF o = o1 THEN 0 ELSE 1]

Symmetry == Permutations(Threads) \cup Permutations(Locations)

=============================================================================
