--------------------------- MODULE MCCreditBilling ---------------------------
(* Instances of CreditBilling for TLC.                                      *)
EXTENDS CreditBilling, TLC

CONSTANTS k1, k2, s1, s2, b1, w1, w2

TwoScopes  == (k1 :> s2) @@ (k2 :> s1)
QuotesOf   == (k1 :> {2}) @@ (k2 :> {1, 3})
TwoThenOne == (k1 :> 2) @@ (k2 :> 1)
OneBill    == (b1 :> 6)

WorkerSymmetry == Permutations(Workers)
=============================================================================
