----------------------------- MODULE MCRunLoop -----------------------------
(* RunLoop for TLC: one block for mode A and one for both modes, and one   *)
(* source of each version.                                                 *)
EXTENDS RunLoop

CONSTANTS A, B, b1, b2, s0, port

MCBlockModes == (b1 :> {A}) @@ (b2 :> {A, B})
MCOrder == [s \in Version0 |-> 0]

MCHomes == [s \in Sources |-> IF s = port THEN {B} ELSE {A}]

(* Mode A is run until it is stopped, mode B for a time and for one source.*)
MCCalls == {<<A, "never", FALSE>>, <<B, "armed", TRUE>>}

(* The observers where a nested run makes a difference.                    *)
MCObserved == (A :> {"exit"}) @@ (B :> {"beforeWaiting"})

=============================================================================
