---------------------------- MODULE MessageOutbox ----------------------------
(***************************************************************************)
(* What the delivery of a message promises, without leases, methods, retry  *)
(* keys or recovery: the customer is shown each message at most once, and   *)
(* the sender is told one outcome, once.  ACCEPTED is told only of a        *)
(* message that was shown; UNKNOWN and FAILED promise nothing.              *)
(***************************************************************************)
EXTENDS Naturals

CONSTANT Messages

VARIABLES
  shown,   \* how often each message was shown
  outcome  \* what its sender was told

Outcomes == {"ACCEPTED", "FAILED", "UNKNOWN"}

Init == /\ shown = [m \in Messages |-> 0]
        /\ outcome = [m \in Messages |-> "open"]

Show(m) == /\ shown[m] = 0
           /\ shown' = [shown EXCEPT ![m] = 1]
           /\ UNCHANGED outcome

Tell(m, o) == /\ outcome[m] = "open"
              /\ o = "ACCEPTED" => shown[m] = 1
              /\ outcome' = [outcome EXCEPT ![m] = o]
              /\ UNCHANGED shown

Next == \E m \in Messages : Show(m) \/ \E o \in Outcomes : Tell(m, o)

Spec == Init /\ [][Next]_<<shown, outcome>>
=============================================================================
