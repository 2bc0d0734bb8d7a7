---------------------------- MODULE MCAppMessage ----------------------------
(* Small instances of AppMessage.  No CHOOSE picks an attempt, so attempts    *)
(* are interchangeable.                                                       *)
EXTENDS AppMessage, TLC

Symmetry == Permutations(Requests)
=============================================================================
