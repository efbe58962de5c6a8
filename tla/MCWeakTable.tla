----------------------------- MODULE MCWeakTable -----------------------------
(* WeakTable for TLC: all but one of the objects, and of the locations,    *)
(* belong into the last two slots, so that searches wrap around.           *)
EXTENDS WeakTable

MCHash == [x \in Objects \cup Locations |-> CASE x % 10 = 1 -> 8 [] x % 10 = 2 -> 6 [] OTHER -> 7]

(* Bounds: one object is referenced by many locations, or one location     *)
(* references many objects; beyond that TLC looks one step ahead.          *)
MCStored == {p \in Objects \X Locations : p[1] = 11 \/ p[2] = 21}
Bounded == (\A p \in Pairs : p[1] = 11) \/ (\A p \in Pairs : p[2] = 21)

=============================================================================
