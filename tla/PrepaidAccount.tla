--------------------------- MODULE PrepaidAccount ----------------------------
(* What prepaid AI billing promises: credit comes in only by approved       *)
(* top-ups, each once; an operation is paid for at most once, never past    *)
(* the minimum balance; and every answer handed out is the paid one.        *)
EXTENDS Integers

CONSTANTS Keys, Bills, BillAmount, MinBalance, Charges, Payloads

VARIABLES
  balance,   \* the wallet's balance
  answer,    \* payload each operation was paid for; 0 while it is unpaid
  credited,  \* top-ups that were added
  replies    \* <<key, payload>> handed to a caller

avars == <<balance, answer, credited, replies>>

Init ==
  /\ balance = 0
  /\ answer = [k \in Keys |-> 0]
  /\ credited = {}
  /\ replies = {}

\* The operation is paid; its caller may learn of it at once, or only later.
Pay(k, charge, payload) ==
  /\ answer[k] = 0
  /\ balance - charge > MinBalance
  /\ balance' = balance - charge
  /\ answer' = [answer EXCEPT ![k] = payload]
  /\ replies' \in {replies, replies \cup {<<k, payload>>}}
  /\ UNCHANGED credited

Reply(k) ==
  /\ answer[k] # 0
  /\ replies' = replies \cup {<<k, answer[k]>>}
  /\ UNCHANGED <<balance, answer, credited>>

Credit(b) ==
  /\ b \notin credited
  /\ credited' = credited \cup {b}
  /\ balance' = balance + BillAmount[b]
  /\ UNCHANGED <<answer, replies>>

Next ==
  \/ \E k \in Keys : Reply(k)
  \/ \E k \in Keys, c \in Charges, p \in Payloads : Pay(k, c, p)
  \/ \E b \in Bills : Credit(b)

Spec == Init /\ [][Next]_avars
=============================================================================
