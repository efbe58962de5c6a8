--------------------------- MODULE MCMethodCache ---------------------------
EXTENDS MethodCache, TLC
CONSTANTS Base, Derived
MCClasses == {Base, Derived}
MCSuper == Base :> NoClass @@ Derived :> Base
MCMessages == {<<Derived, 7>>, <<Base, 7>>}
MCChanged == {<<Base, 7>>}
MCFixed == {<<Derived, 3>>, <<Derived, 4>>, <<Derived, 5>>}
MCCached == 3 :> Bucket(3, Imp(Derived, 3, 1)) @@ 0 :> Bucket(4, Imp(Derived, 4, 1)) @@ 1 :> Bucket(5, Imp(Derived, 5, 1))
Symmetry == Permutations(Threads) \cup Permutations(Arrays)
=============================================================================
