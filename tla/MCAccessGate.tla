---------------------------- MODULE MCAccessGate ----------------------------
(* A small instance of AccessGate for TLC.  A tick stands for ten seconds. *)
EXTENDS AccessGate, TLC

\* Guests and callers are interchangeable: every property here is an invariant.
Symmetry == Permutations(Guests) \cup Permutations(Callers)

\* A burst is one call, the longer windows have room for two, and the total of all messages
\* is not limited (APP_MSG_DAILY_TOTAL = 0).
LimitsLow == [l \in Layers |-> CASE l = "total" -> 0
                                 [] l \in {"burst", "lineBurst", "authfail"} -> 1
                                 [] OTHER -> 2]
WindowsShort == [l \in Layers |-> IF l \in {"burst", "lineBurst", "aiGlobal"} THEN 1 ELSE 2]
\* Messages; the other requests of the public API; LINE; and the AI budget of every customer,
\* which shares no key with them.
Channels == {{"create", "send"},
             {"create", "wrongToken", "read", "revoke", "admin"},
             {"event", "retry", "admin"},
             {"ai"}}
BansShort == [n \in 3 .. 5 |-> n - 2]
=============================================================================
