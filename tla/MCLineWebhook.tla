--------------------------- MODULE MCLineWebhook ---------------------------
(* Instances of LineWebhook for TLC.                                        *)
EXTENDS LineWebhook, TLC

ProcessSymmetry == Permutations(Processes)
=============================================================================
