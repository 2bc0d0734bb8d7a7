--------------------------- MODULE MCProductIndex ---------------------------
(* An instance of ProductIndex for TLC: every process runs one build.       *)
EXTENDS ProductIndex

CONSTANTS modelA, modelB, labels1
OneBuild  == {[model |-> modelA, labels |-> labels1]}
=============================================================================
