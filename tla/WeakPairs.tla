------------------------------ MODULE WeakPairs ------------------------------
(***************************************************************************)
(* What a weak table is to its users, storeWeak and dealloc: a set of      *)
(* pairs of an object and the location of a __weak variable.               *)
(***************************************************************************)

CONSTANTS Objects, Locations

VARIABLE pairs

Init == pairs = {}

Register(o, l) == pairs' = pairs \cup {<<o, l>>}
Unregister(o, l) == pairs' = pairs \ {<<o, l>>}
Clear(o) == pairs' = pairs \ {<<o, l>> : l \in Locations}

Next ==
  \/ \E o \in Objects, l \in Locations : Register(o, l) \/ Unregister(o, l)
  \/ \E o \in Objects : Clear(o)

Spec == Init /\ [][Next]_pairs

=============================================================================
