--------------------------- MODULE MCLoadMethods ---------------------------
(* Instance of LoadMethods for TLC: the classes of the second and third    *)
(* image inherit from the one before, the first image lists a subclass     *)
(* before its superclass, and the second has no +load method.              *)
EXTENDS LoadMethods, TLC
CONSTANTS First, Second, Third, Other,
          Base, Sub, Silent, Leaf, Solo, BaseCat, SilentCat, LeafCat, SoloCat
MCClasses == {Base, Sub, Silent, Leaf, Solo}
MCHasLoad == MCClasses \ {Silent}
MCSuper == Base :> NoClass @@ Sub :> Base @@ Silent :> Base @@ Leaf :> Silent @@ Solo :> NoClass
MCClassList == First :> <<Sub, Base>> @@ Second :> <<Silent>> @@ Third :> <<Leaf>> @@ Other :> <<Solo>>
MCCategoryList ==
  First :> <<BaseCat>> @@ Second :> <<>> @@ Third :> <<>> @@ Other :> <<SoloCat, SilentCat, LeafCat>>
MCClassOf == BaseCat :> Sub @@ SilentCat :> Silent @@ LeafCat :> Base @@ SoloCat :> Solo
Symmetry == Permutations(Threads)
=============================================================================
