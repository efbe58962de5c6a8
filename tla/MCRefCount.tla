----------------------------- MODULE MCRefCount -----------------------------
(* RefCount for TLC: MCRefCount.cfg gives the constants their values.  The *)
(* threads are not interchangeable, as symmetry is unsound for liveness.   *)
EXTENDS RefCount

=============================================================================
