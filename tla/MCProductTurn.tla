--------------------------- MODULE MCProductTurn ---------------------------
(* ProductTurn with two attempts that may overlap.                            *)
EXTENDS ProductTurn, TLC

CONSTANTS A1, A2
MCModes == {"GENERAL", "KNOWLEDGE", "BOTH", "PRODUCT"}
MCAttempts == {A1, A2}
Interchangeable == Permutations(MCAttempts)
=============================================================================
