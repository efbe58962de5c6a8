---------------------------- MODULE MCInitialize ----------------------------
(* Initialize on a root class, a family of three of which one is trivial,  *)
(* a class outside the family, and two programs.                           *)
EXTENDS Initialize, TLC

CONSTANTS Object, Controller, Console, Other

MCClasses == {Root, Object, Controller, Console, Other}
MCSuper == Root :> NoClass @@ Object :> Root @@ Controller :> Object
           @@ Console :> Controller @@ Other :> Root
MCTrivial == {Root, Console}

MCEarly == {Root}

Program(u) == u @@ [c \in MCClasses |-> {}]

(* The method of a superclass messages a subclass of its subclass, whose   *)
(* superclass messages back, and a class outside; and two classes that     *)
(* use each other.                                                         *)
MCUses == {Program(Object :> {Console} @@ Controller :> {Object, Other}),
           Program(Object :> {Other} @@ Other :> {Object})}
=============================================================================
