--------------------------- MODULE MCLineDelivery ---------------------------
(* Instances of LineDelivery for TLC.                                       *)
EXTENDS LineDelivery, TLC
=============================================================================
