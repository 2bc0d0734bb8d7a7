---------------------------- MODULE MCRichMenu ----------------------------
(* Instances of RichMenu.                                                    *)
EXTENDS RichMenu, TLC
CONSTANTS r1, r2
RequestSet == {r1, r2}
RequestSymmetry == Permutations(RequestSet)
=============================================================================
