---------------------------- MODULE MCReferences ----------------------------
(* Instance of References for TLC.                                         *)
EXTENDS References
CONSTANTS host, inner, leaf, key
MCAssociable == {<<inner, key, leaf>>}
MCProperties == {<<host, inner>>, <<host, leaf>>}
=============================================================================
