-------------------------- MODULE Accounts_proofs --------------------------
(* Machine-checked facts about the components that keep accounts:             *)
(* CreditBilling, for every number of workers, operations, scopes and top-ups *)
(* and all amounts; AccessGate, for every number of customers and calls and   *)
(* all limits; and Catalog, for every catalog, every set of commands, every   *)
(* plan and every template of an answer.                                      *)
EXTENDS CreditBilling, AccessGate, Catalog,
        FiniteSetTheorems, WellFoundedInduction, TLAPS

-----------------------------------------------------------------------------
(* Type correctness.                                                        *)

LEMMA IdleTypes == IdleWorker \in WorkerState /\ IdleAdmin \in AdminState
<1>1. AnyKey \in Keys
  BY SetsAssumption DEF AnyKey
<1> QED
  BY <1>1 DEF IdleWorker, IdleAdmin, WorkerState, AdminState, WorkerPC

\* A worker that moves to another program point stays well typed.
LEMMA GotoTypes ==
  ASSUME TypeOK, NEW w \in Workers, NEW pc \in WorkerPC, Goto(w, pc)
  PROVE  worker' \in [Workers -> WorkerState]
BY DEF TypeOK, WorkerState, Goto

LEMMA ReturnTypes ==
  ASSUME TypeOK, NEW w \in Workers, Return(w)
  PROVE  worker' \in [Workers -> WorkerState]
BY IdleTypes DEF TypeOK, Return

\* The locals a worker acts on.
LEMMA LocalTypes ==
  ASSUME TypeOK, NEW w \in Workers
  PROVE  /\ worker[w].key \in Keys
         /\ ScopeOf[worker[w].key] \in Scopes
         /\ worker[w].amount \in Nat
         /\ worker[w].charge \in Nat
         /\ worker[w].call \in Nat
BY SetsAssumption DEF TypeOK, WorkerState

LEMMA AddReservedTypes ==
  ASSUME TypeOK, NEW k \in Keys, NEW amount \in Int, AddReserved(k, amount)
  PROVE  wallet' \in WalletRow /\ budget' \in [Scopes -> BudgetRow]
<1>1. wallet' \in WalletRow
  BY DEF TypeOK, WalletRow, AddReserved
<1>2. budget' \in [Scopes -> BudgetRow]
  BY SetsAssumption DEF TypeOK, BudgetRow, AddReserved
<1> QED
  BY <1>1, <1>2

LEMMA ReleaseTypes ==
  ASSUME TypeOK, NEW k \in Keys, NEW amount \in Nat, ReleaseAiCredit(k, amount)
  PROVE  /\ wallet' \in WalletRow
         /\ budget' \in [Scopes -> BudgetRow]
         /\ hold' \in [Keys -> HoldRow]
<1>1. CASE hold[k].status \in LiveStatus
  <2>1. hold' \in [Keys -> HoldRow]
    BY <1>1 DEF TypeOK, HoldRow, HoldStatus, ReleaseAiCredit
  <2>2. AddReserved(k, -amount)
    BY <1>1 DEF ReleaseAiCredit
  <2> QED
    BY <2>1, <2>2, AddReservedTypes
<1>2. CASE hold[k].status \notin LiveStatus
  BY <1>2 DEF TypeOK, ReleaseAiCredit
<1> QED
  BY <1>1, <1>2

LEMMA RecordTypes ==
  ASSUME TypeOK, NEW k \in Keys, NEW amount \in Nat, NEW charge \in Nat,
         NEW status \in HoldStatus, NEW result \in Nat,
         RecordUsage(k, amount, charge, status, result)
  PROVE  /\ wallet' \in WalletRow
         /\ budget' \in [Scopes -> BudgetRow]
         /\ hold' \in [Keys -> HoldRow]
         /\ ledger' \subseteq LedgerRow
<1>1. wallet' \in WalletRow
  BY DEF TypeOK, WalletRow, RecordUsage
<1>2. budget' \in [Scopes -> BudgetRow]
  <2> DEFINE s == ScopeOf[k]
  <2>1. s \in Scopes /\ budget[s] \in BudgetRow
    BY SetsAssumption DEF TypeOK
  <2>2. [limit |-> budget[s].limit, used |-> budget[s].used + charge,
         reserved |-> budget[s].reserved - amount] \in BudgetRow
    BY <2>1 DEF BudgetRow
  <2> QED
    BY <2>1, <2>2 DEF TypeOK, RecordUsage
<1>3. hold' \in [Keys -> HoldRow]
  BY DEF TypeOK, HoldRow, RecordUsage
<1>4. ledger' \subseteq LedgerRow
  BY DEF TypeOK, WalletRow, LedgerRow, RecordUsage
<1> QED
  BY <1>1, <1>2, <1>3, <1>4

LEMMA TypeStep == TypeOK /\ [Next]_vars => TypeOK'
<1> SUFFICES ASSUME TypeOK, [Next]_vars PROVE TypeOK'
  OBVIOUS
<1>1. ASSUME NEW w \in Workers, NEW k \in Keys, Start(w, k) PROVE TypeOK'
  <2>1. worker' \in [Workers -> WorkerState]
    BY <1>1 DEF Start, TypeOK, WorkerState, WorkerPC
  <2> QED
    BY <1>1, <2>1 DEF Start, TypeOK
<1>2. ASSUME NEW w \in Workers, ReplaySettled(w) PROVE TypeOK'
  <2>1. hold[worker[w].key].result \in Nat
    BY LocalTypes DEF TypeOK, HoldRow
  <2> QED
    BY <1>2, <2>1, LocalTypes, ReturnTypes DEF ReplaySettled, TypeOK
<1>3. ASSUME NEW w \in Workers, Quote(w) PROVE TypeOK'
  <2>1. worker' \in [Workers -> WorkerState]
    BY <1>3, AmountsAssumption DEF Quote, TypeOK, WorkerState, WorkerPC
  <2> QED
    BY <1>3, <2>1 DEF Quote, TypeOK
<1>4. ASSUME NEW w \in Workers, Reserve(w) PROVE TypeOK'
  <2>1. hold' \in [Keys -> HoldRow]
    BY <1>4, LocalTypes DEF Reserve, TypeOK, HoldRow, HoldStatus
  <2>2. worker' \in [Workers -> WorkerState]
    BY <1>4, GotoTypes DEF Reserve, WorkerPC
  <2>3. AddReserved(worker[w].key, worker[w].amount)
    BY <1>4 DEF Reserve
  <2> QED
    BY <1>4, <2>1, <2>2, <2>3, LocalTypes, AddReservedTypes DEF Reserve, TypeOK
<1>5. ASSUME NEW w \in Workers,
             ReservePending(w) \/ ReserveInsufficient(w) \/ ReplayPending(w)
      PROVE  TypeOK'
  <2>1. worker' \in [Workers -> WorkerState]
    BY <1>5, GotoTypes, ReturnTypes
       DEF ReservePending, ReserveInsufficient, ReplayPending, WorkerPC
  <2> QED
    BY <1>5, <2>1 DEF ReservePending, ReserveInsufficient, ReplayPending, TypeOK
<1>6. ASSUME NEW w \in Workers, ProviderAnswers(w) PROVE TypeOK'
  <2>1. worker' \in [Workers -> WorkerState]
    BY <1>6, AmountsAssumption DEF ProviderAnswers, TypeOK, WorkerState, WorkerPC
  <2> QED
    BY <1>6, <2>1 DEF ProviderAnswers, TypeOK
<1>7. ASSUME NEW w \in Workers,
             ProviderFails(w) \/ RecordSuccessFails(w) \/ RecordFailureFails(w) \/ Crash(w)
      PROVE  TypeOK'
  <2>1. worker' \in [Workers -> WorkerState]
    BY <1>7, GotoTypes, ReturnTypes
       DEF ProviderFails, RecordSuccessFails, RecordFailureFails, Crash, WorkerPC
  <2> QED
    BY <1>7, <2>1 DEF ProviderFails, RecordSuccessFails, RecordFailureFails, Crash, TypeOK
<1>8. ASSUME NEW w \in Workers, RecordSuccess(w) \/ RecordSuccessUnacknowledged(w)
      PROVE  TypeOK'
  <2>1. RecordUsage(worker[w].key, worker[w].amount, worker[w].charge, "SETTLED",
                    worker[w].call)
    BY <1>8 DEF RecordSuccess, RecordSuccessUnacknowledged
  <2>2. worker' \in [Workers -> WorkerState]
    BY <1>8, GotoTypes, ReturnTypes
       DEF RecordSuccess, RecordSuccessUnacknowledged, WorkerPC
  <2>3. "SETTLED" \in HoldStatus
    BY DEF HoldStatus
  <2> QED
    BY <1>8, <2>1, <2>2, <2>3, LocalTypes, RecordTypes
       DEF RecordSuccess, RecordSuccessUnacknowledged, TypeOK
<1>9. ASSUME NEW w \in Workers, MarkReservationUnknown(w) PROVE TypeOK'
  <2>1. hold' \in [Keys -> HoldRow]
    BY <1>9, LocalTypes DEF MarkReservationUnknown, TypeOK, HoldRow, HoldStatus
  <2> QED
    BY <1>9, <2>1, ReturnTypes DEF MarkReservationUnknown, TypeOK
<1>10. ASSUME NEW w \in Workers, RecordFailure(w) PROVE TypeOK'
  <2>1. RecordUsage(worker[w].key, worker[w].amount, 0, "RELEASED",
                    hold[worker[w].key].result)
    BY <1>10 DEF RecordFailure
  <2>2. worker' \in [Workers -> WorkerState]
    BY <1>10, GotoTypes, ReturnTypes DEF RecordFailure, WorkerPC
  <2>3. "RELEASED" \in HoldStatus /\ hold[worker[w].key].result \in Nat
    BY LocalTypes DEF HoldStatus, TypeOK, HoldRow
  <2> QED
    BY <1>10, <2>1, <2>2, <2>3, LocalTypes, RecordTypes DEF RecordFailure, TypeOK
<1>11. ASSUME NEW w \in Workers, ReleaseAfterFailure(w) PROVE TypeOK'
  BY <1>11, LocalTypes, ReleaseTypes, ReturnTypes DEF ReleaseAfterFailure, TypeOK
<1>12. ASSUME NEW w \in Workers, KeepReservationAlive(w) PROVE TypeOK'
  BY <1>12, LocalTypes DEF KeepReservationAlive, TypeOK, HoldRow
<1>13. ASSUME NEW k \in Keys, HoldLapses(k) PROVE TypeOK'
  BY <1>13 DEF HoldLapses, TypeOK, HoldRow
<1>14. CASE ListUnresolvedReservations
  <2>1. hold' \in [Keys -> HoldRow]
    BY <1>14 DEF ListUnresolvedReservations, TypeOK, HoldRow, HoldStatus
  <2> QED
    BY <1>14, <2>1 DEF ListUnresolvedReservations, TypeOK
<1>15. ASSUME NEW a \in Admins, NEW k \in Keys, ReadUnknownReservation(a, k)
       PROVE  TypeOK'
  <2>1. admin' \in [Admins -> AdminState]
    BY <1>15 DEF ReadUnknownReservation, TypeOK, HoldRow, AdminState
  <2> QED
    BY <1>15, <2>1 DEF ReadUnknownReservation, TypeOK
<1>16. ASSUME NEW a \in Admins, ReleaseUnknownReservation(a) PROVE TypeOK'
  <2>1. admin[a].key \in Keys /\ admin[a].amount \in Nat
    BY DEF TypeOK, AdminState
  <2> QED
    BY <1>16, <2>1, IdleTypes, ReleaseTypes DEF ReleaseUnknownReservation, TypeOK
<1>17. ASSUME NEW s \in Scopes, NEW l \in Limits \cup {NoLimit}, SetBudgetLimit(s, l)
       PROVE  TypeOK'
  BY <1>17, AmountsAssumption DEF SetBudgetLimit, TypeOK, BudgetRow
<1>18. ASSUME NEW b \in Bills, CreateTopup(b) \/ RejectTopup(b) PROVE TypeOK'
  BY <1>18 DEF CreateTopup, RejectTopup, TypeOK, BillStatus
<1>19. ASSUME NEW b \in Bills, ConfirmTopup(b) PROVE TypeOK'
  <2>1. BillAmount[b] \in Nat
    BY AmountsAssumption
  <2>2. wallet' \in WalletRow
    BY <1>19, <2>1 DEF ConfirmTopup, TypeOK, WalletRow
  <2>3. ledger' \subseteq LedgerRow
    BY <1>19, <2>1 DEF ConfirmTopup, TypeOK, WalletRow, LedgerRow
  <2> QED
    BY <1>19, <2>2, <2>3 DEF ConfirmTopup, TypeOK, BillStatus
<1>20. CASE UNCHANGED vars
  BY <1>20 DEF vars, TypeOK
<1> QED
  BY <1>1, <1>2, <1>3, <1>4, <1>5, <1>6, <1>7, <1>8, <1>9, <1>10, <1>11, <1>12, <1>13,
     <1>14, <1>15, <1>16, <1>17, <1>18, <1>19, <1>20 DEF Next, WorkerStep, AdminStep

\* Every reachable state of the billing code is well typed.
THEOREM TypeCorrect == Spec => []TypeOK
<1>1. Init => TypeOK
  BY IdleTypes DEF Init, TypeOK, NoHold, HoldStatus, BillStatus, WalletRow, BudgetRow,
                   HoldRow, LedgerRow
<1> QED
  BY <1>1, TypeStep, PTL DEF Spec

-----------------------------------------------------------------------------
(* What a step can do to the rows.  Every step of Next is of one of these    *)
(* kinds; the invariants are proved kind by kind.                            *)

\* Only locals, counters or an unapproved request change.
Quiet ==
  /\ UNCHANGED <<wallet, budget, hold, ledger, replies>>
  /\ \A b \in Bills : bill[b] = "APPROVED" => bill'[b] = "APPROVED"
  /\ \A b \in Bills : bill'[b] = "APPROVED" => bill[b] = "APPROVED"

\* A worker hands out the payload of a settled operation.
Replays(k) ==
  /\ hold[k].status = "SETTLED"
  /\ replies' = replies \cup {<<k, hold[k].result>>}
  /\ UNCHANGED <<wallet, budget, hold, ledger, bill>>

Reserves(k, amount) ==
  /\ CanReserve(k, amount)
  /\ hold' = [hold EXCEPT ![k] = [status |-> "HELD", amount |-> amount,
                                  lapsed |-> FALSE, result |-> @.result]]
  /\ AddReserved(k, amount)
  /\ UNCHANGED <<ledger, bill, replies>>

Settles(k, amount, charge, call) ==
  /\ CanRecord(k, amount, charge)
  /\ RecordUsage(k, amount, charge, "SETTLED", call)
  /\ replies' \in {replies, replies \cup {<<k, call>>}}
  /\ UNCHANGED bill

RecordsFailure(k, amount) ==
  /\ CanRecord(k, amount, 0)
  /\ RecordUsage(k, amount, 0, "RELEASED", hold[k].result)
  /\ UNCHANGED <<bill, replies>>

Releases(k, amount) ==
  /\ ReleaseAiCredit(k, amount)
  /\ UNCHANGED <<ledger, bill, replies>>

\* Held rows are renewed, lapse or become UNKNOWN.
Reviews ==
  /\ \A k \in Keys :
       \/ hold'[k] = hold[k]
       \/ /\ hold[k].status = "HELD"
          /\ hold'[k].status \in LiveStatus
          /\ hold'[k].result = hold[k].result
  /\ UNCHANGED <<wallet, budget, ledger, bill, replies>>

StepKind ==
  \/ Quiet
  \/ \E k \in Keys : Replays(k)
  \/ \E k \in Keys, q \in Nat : Reserves(k, q)
  \/ \E k \in Keys : \E q \in Nat, c \in Charges, n \in 1..MaxCalls[k] : Settles(k, q, c, n)
  \/ \E k \in Keys, q \in Nat : RecordsFailure(k, q)
  \/ \E k \in Keys, q \in Nat : Releases(k, q)
  \/ Reviews
  \/ \E s \in Scopes, l \in Limits \cup {NoLimit} : SetBudgetLimit(s, l)
  \/ \E b \in Bills : ConfirmTopup(b)

LEMMA StepKinds ==
  ASSUME TypeOK, CallsNumbered, [Next]_vars
  PROVE  StepKind
<1>1. ASSUME NEW w \in Workers,
             \/ \E k \in Keys : Start(w, k)
             \/ Quote(w) \/ ReservePending(w) \/ ReserveInsufficient(w) \/ ReplayPending(w)
             \/ ProviderAnswers(w) \/ ProviderFails(w)
             \/ RecordSuccessFails(w) \/ RecordFailureFails(w) \/ Crash(w)
      PROVE  Quiet
  BY <1>1 DEF Quiet, Start, Quote, ReservePending, ReserveInsufficient, ReplayPending,
              ProviderAnswers, ProviderFails, RecordSuccessFails, RecordFailureFails, Crash
<1>2. ASSUME NEW w \in Workers, ReplaySettled(w) PROVE \E k \in Keys : Replays(k)
  BY <1>2, LocalTypes DEF ReplaySettled, Replays
<1>3. ASSUME NEW w \in Workers, Reserve(w) PROVE \E k \in Keys, q \in Nat : Reserves(k, q)
  BY <1>3, LocalTypes DEF Reserve, Reserves
<1>4. ASSUME NEW w \in Workers, RecordSuccess(w) \/ RecordSuccessUnacknowledged(w)
      PROVE  \E k \in Keys : \E q \in Nat, c \in Charges, n \in 1..MaxCalls[k] :
               Settles(k, q, c, n)
  <2> DEFINE k == worker[w].key
  <2>1. worker[w].call \in 1..MaxCalls[k]
    BY <1>4 DEF CallsNumbered, RecordSuccess, RecordSuccessUnacknowledged
  <2>2. worker[w].charge \in Charges
    BY <1>4 DEF CallsNumbered, RecordSuccess, RecordSuccessUnacknowledged
  <2>3. Settles(k, worker[w].amount, worker[w].charge, worker[w].call)
    BY <1>4 DEF Settles, RecordSuccess, RecordSuccessUnacknowledged
  <2> QED
    BY <2>1, <2>3, <2>2, LocalTypes
<1>5. ASSUME NEW w \in Workers, RecordFailure(w)
      PROVE  \E k \in Keys, q \in Nat : RecordsFailure(k, q)
  BY <1>5, LocalTypes DEF RecordFailure, RecordsFailure
<1>6. ASSUME NEW w \in Workers, ReleaseAfterFailure(w)
      PROVE  \E k \in Keys, q \in Nat : Releases(k, q)
  BY <1>6, LocalTypes DEF ReleaseAfterFailure, Releases
<1>7. ASSUME NEW w \in Workers, MarkReservationUnknown(w) \/ KeepReservationAlive(w)
      PROVE  Reviews
  <2>1. CASE MarkReservationUnknown(w)
    BY <2>1, LocalTypes DEF MarkReservationUnknown, Reviews, LiveStatus, TypeOK, HoldRow
  <2>2. CASE KeepReservationAlive(w)
    BY <2>2, LocalTypes DEF KeepReservationAlive, Reviews, LiveStatus, TypeOK, HoldRow
  <2> QED
    BY <1>7, <2>1, <2>2
<1>8. ASSUME NEW k \in Keys, HoldLapses(k) PROVE Reviews
  BY <1>8 DEF HoldLapses, Reviews, LiveStatus, TypeOK, HoldRow
<1>9. ASSUME ListUnresolvedReservations PROVE Reviews
  BY <1>9 DEF ListUnresolvedReservations, Reviews, LiveStatus, TypeOK, HoldRow
<1>10. ASSUME NEW a \in Admins, NEW k \in Keys, ReadUnknownReservation(a, k) PROVE Quiet
  BY <1>10 DEF ReadUnknownReservation, Quiet
<1>11. ASSUME NEW a \in Admins, ReleaseUnknownReservation(a)
       PROVE  \E k \in Keys, q \in Nat : Releases(k, q)
  BY <1>11 DEF ReleaseUnknownReservation, Releases, TypeOK, AdminState
<1>12. ASSUME NEW b \in Bills, CreateTopup(b) \/ RejectTopup(b) PROVE Quiet
  BY <1>12 DEF CreateTopup, RejectTopup, Quiet, TypeOK
<1>13. CASE UNCHANGED vars
  BY <1>13 DEF vars, Quiet, StepKind
<1> QED
  BY <1>1, <1>2, <1>3, <1>4, <1>5, <1>6, <1>7, <1>8, <1>9, <1>10, <1>11, <1>12, <1>13
     DEF StepKind, Next, WorkerStep, AdminStep

-----------------------------------------------------------------------------
(* The invariants, one lemma each, kind by kind.                            *)

LEMMA CallsNumberedStep ==
  ASSUME TypeOK, CallsNumbered, [Next]_vars
  PROVE  CallsNumbered'
<1>1. ASSUME NEW w \in Workers, NEW k \in Keys, Start(w, k) PROVE CallsNumbered'
  <2>1. started[k] \in Nat /\ MaxCalls[k] \in Nat
    BY AmountsAssumption DEF TypeOK
  <2> QED
    BY <1>1, <2>1 DEF Start, TypeOK, CallsNumbered
<1>2. ASSUME NEW w \in Workers,
             \/ ReplaySettled(w) \/ ReserveInsufficient(w) \/ ReplayPending(w)
             \/ RecordSuccess(w) \/ MarkReservationUnknown(w) \/ ReleaseAfterFailure(w)
             \/ Crash(w)
      PROVE  CallsNumbered'
  BY <1>2 DEF ReplaySettled, ReserveInsufficient, ReplayPending, RecordSuccess,
              MarkReservationUnknown, ReleaseAfterFailure, Crash, Return, IdleWorker,
              TypeOK, CallsNumbered
<1>3. ASSUME NEW w \in Workers,
             \/ Reserve(w) \/ ReservePending(w) \/ ProviderFails(w)
             \/ RecordSuccessUnacknowledged(w) \/ RecordSuccessFails(w) \/ RecordFailureFails(w)
      PROVE  CallsNumbered'
  BY <1>3 DEF Reserve, ReservePending, ProviderFails, RecordSuccessUnacknowledged,
              RecordSuccessFails, RecordFailureFails, Goto, TypeOK, WorkerState, CallsNumbered
<1>4. ASSUME NEW w \in Workers, Quote(w) \/ ProviderAnswers(w) PROVE CallsNumbered'
  BY <1>4 DEF Quote, ProviderAnswers, TypeOK, WorkerState, CallsNumbered
<1>5. ASSUME NEW w \in Workers, RecordFailure(w) PROVE CallsNumbered'
  BY <1>5 DEF RecordFailure, Goto, Return, IdleWorker, TypeOK, WorkerState, CallsNumbered
<1>6. CASE UNCHANGED <<worker, started>>
  BY <1>6 DEF CallsNumbered
<1> QED
  BY <1>1, <1>2, <1>3, <1>4, <1>5, <1>6
     DEF Next, vars, WorkerStep, AdminStep, KeepReservationAlive, HoldLapses,
         ListUnresolvedReservations, ReadUnknownReservation, ReleaseUnknownReservation,
         SetBudgetLimit, CreateTopup, ConfirmTopup, RejectTopup

LEMMA SettledHasResultStep ==
  ASSUME TypeOK, SettledHasResult, CallsNumbered, [Next]_vars
  PROVE  SettledHasResult'
<1>1. ASSUME NEW k \in Keys, NEW q \in Nat, Reserves(k, q) PROVE SettledHasResult'
  BY <1>1 DEF Reserves, CanReserve, KeyFree, WalletCovers, BudgetCovers, TypeOK, HoldRow, SettledHasResult
<1>2. ASSUME NEW k \in Keys, NEW q \in Nat, NEW c \in Charges, NEW n \in 1..MaxCalls[k],
             Settles(k, q, c, n)
      PROVE  SettledHasResult'
  <2>1. n # 0
    BY AmountsAssumption
  <2> QED
    BY <1>2, <2>1 DEF Settles, RecordUsage, TypeOK, HoldRow, SettledHasResult
<1>3. ASSUME NEW k \in Keys, NEW q \in Nat, RecordsFailure(k, q) PROVE SettledHasResult'
  BY <1>3 DEF RecordsFailure, CanRecord, WalletCoversCharge, BudgetCoversCharge, RecordUsage, TypeOK, HoldRow, SettledHasResult
<1>4. ASSUME NEW k \in Keys, NEW q \in Nat, Releases(k, q) PROVE SettledHasResult'
  BY <1>4 DEF Releases, ReleaseAiCredit, LiveStatus, TypeOK, HoldRow, SettledHasResult
<1>5. ASSUME Reviews PROVE SettledHasResult'
  BY <1>5 DEF Reviews, LiveStatus, SettledHasResult
<1>6. ASSUME UNCHANGED hold PROVE SettledHasResult'
  BY <1>6 DEF SettledHasResult
<1> QED
  BY <1>1, <1>2, <1>3, <1>4, <1>5, <1>6, StepKinds
     DEF StepKind, Quiet, Replays, SetBudgetLimit, ConfirmTopup

LEMMA FloorStep ==
  ASSUME TypeOK, CallsNumbered, FloorKept, [Next]_vars
  PROVE  FloorKept'
<1>1. ASSUME NEW k \in Keys, NEW q \in Nat, Reserves(k, q) PROVE FloorKept'
  <2>1. wallet'.balance - wallet'.reserved > MinBalance
    BY <1>1, AmountsAssumption
       DEF Reserves, CanReserve, KeyFree, WalletCovers, BudgetCovers, AddReserved, TypeOK, WalletRow
  <2> QED
    BY <2>1 DEF FloorKept
<1>2. ASSUME NEW k \in Keys, NEW q \in Nat, NEW c \in Nat, NEW st, NEW n,
             CanRecord(k, q, c), RecordUsage(k, q, c, st, n)
      PROVE  FloorKept'
  <2>1. wallet'.balance - wallet'.reserved > MinBalance
    BY <1>2, AmountsAssumption DEF CanRecord, WalletCoversCharge, BudgetCoversCharge, RecordUsage, TypeOK, WalletRow
  <2> QED
    BY <2>1 DEF FloorKept
<1>3. ASSUME NEW k \in Keys, NEW q \in Nat, Releases(k, q) PROVE FloorKept'
  <2>1. CASE hold[k].status \in LiveStatus
    <3>1. wallet.balance - wallet.reserved > MinBalance
      BY <2>1 DEF LiveStatus, FloorKept
    <3>2. wallet'.balance = wallet.balance /\ wallet'.reserved = wallet.reserved - q
      BY <1>3, <2>1 DEF Releases, ReleaseAiCredit, AddReserved, TypeOK, WalletRow
    <3>3. wallet'.balance - wallet'.reserved > MinBalance
      BY <3>1, <3>2, AmountsAssumption DEF TypeOK, WalletRow
    <3> QED
      BY <3>3 DEF FloorKept
  <2>2. CASE hold[k].status \notin LiveStatus
    BY <1>3, <2>2 DEF Releases, ReleaseAiCredit, FloorKept
  <2> QED
    BY <2>1, <2>2
<1>4. ASSUME Reviews PROVE FloorKept'
  <2>1. ASSUME NEW k \in Keys, hold'[k].status # "NONE" PROVE hold[k].status # "NONE"
    BY <1>4, <2>1 DEF Reviews
  <2> QED
    BY <1>4, <2>1 DEF Reviews, FloorKept
<1>5. ASSUME NEW b \in Bills, ConfirmTopup(b) PROVE FloorKept'
  <2>1. BillAmount[b] \in Nat
    BY AmountsAssumption
  <2> QED
    BY <1>5, <2>1, AmountsAssumption DEF ConfirmTopup, FloorKept, TypeOK, WalletRow
<1>6. ASSUME UNCHANGED <<wallet, hold>> PROVE FloorKept'
  BY <1>6 DEF FloorKept
<1> QED
  BY <1>1, <1>2, <1>3, <1>4, <1>5, <1>6, StepKinds, AmountsAssumption
     DEF StepKind, Quiet, Replays, Settles, RecordsFailure, SetBudgetLimit

LEMMA BudgetStep ==
  ASSUME TypeOK, CallsNumbered, BudgetKept, [Next]_vars
  PROVE  BudgetKept'
<1>1. ASSUME NEW k \in Keys, NEW q \in Nat, Reserves(k, q) PROVE BudgetKept'
  <2>1. ASSUME NEW s \in Scopes, s # ScopeOf[k] PROVE budget'[s] = budget[s]
    BY <1>1, <2>1 DEF Reserves, AddReserved, TypeOK
  <2>2. /\ budget'[ScopeOf[k]].limit = budget[ScopeOf[k]].limit
        /\ budget'[ScopeOf[k]].used = budget[ScopeOf[k]].used
        /\ budget'[ScopeOf[k]].reserved = budget[ScopeOf[k]].reserved + q
    BY <1>1, SetsAssumption DEF Reserves, AddReserved, TypeOK, BudgetRow
  <2>3. budget[ScopeOf[k]].limit # NoLimit =>
          budget[ScopeOf[k]].used + budget[ScopeOf[k]].reserved + q <= budget[ScopeOf[k]].limit
    BY <1>1 DEF Reserves, CanReserve, KeyFree, WalletCovers, BudgetCovers
  <2>4. budget[ScopeOf[k]] \in BudgetRow
    BY SetsAssumption DEF TypeOK
  <2> QED
    BY <2>1, <2>2, <2>3, <2>4 DEF BudgetKept, BudgetRow
<1>2. ASSUME NEW k \in Keys, NEW q \in Nat, NEW c \in Nat, NEW st, NEW n,
             CanRecord(k, q, c), RecordUsage(k, q, c, st, n)
      PROVE  BudgetKept'
  <2>1. ASSUME NEW s \in Scopes, s # ScopeOf[k] PROVE budget'[s] = budget[s]
    BY <1>2, <2>1 DEF RecordUsage, TypeOK
  <2>2. /\ budget'[ScopeOf[k]].limit = budget[ScopeOf[k]].limit
        /\ budget'[ScopeOf[k]].used = budget[ScopeOf[k]].used + c
        /\ budget'[ScopeOf[k]].reserved = budget[ScopeOf[k]].reserved - q
    BY <1>2, SetsAssumption DEF RecordUsage, TypeOK, BudgetRow
  <2>3. budget[ScopeOf[k]].limit # NoLimit =>
          budget[ScopeOf[k]].used + (budget[ScopeOf[k]].reserved - q) + c
            <= budget[ScopeOf[k]].limit
    BY <1>2 DEF CanRecord, WalletCoversCharge, BudgetCoversCharge
  <2>4. budget[ScopeOf[k]] \in BudgetRow
    BY SetsAssumption DEF TypeOK
  <2> QED
    BY <2>1, <2>2, <2>3, <2>4 DEF BudgetKept, BudgetRow
<1>3. ASSUME NEW k \in Keys, NEW q \in Nat, Releases(k, q) PROVE BudgetKept'
  <2>1. CASE hold[k].status \in LiveStatus
    <3>1. ASSUME NEW s \in Scopes, s # ScopeOf[k] PROVE budget'[s] = budget[s]
      BY <1>3, <2>1, <3>1 DEF Releases, ReleaseAiCredit, AddReserved, TypeOK
    <3>2. budget[ScopeOf[k]] \in BudgetRow /\ ScopeOf[k] \in Scopes
      BY SetsAssumption DEF TypeOK
    <3>3. /\ budget'[ScopeOf[k]].limit = budget[ScopeOf[k]].limit
          /\ budget'[ScopeOf[k]].used = budget[ScopeOf[k]].used
          /\ budget'[ScopeOf[k]].reserved = budget[ScopeOf[k]].reserved - q
      <4>1. budget' = [budget EXCEPT ![ScopeOf[k]].reserved = @ + (-q)]
        BY <1>3, <2>1 DEF Releases, ReleaseAiCredit, AddReserved
      <4> QED
        BY <4>1, <3>2 DEF TypeOK, BudgetRow
    <3> QED
      BY <3>1, <3>3, <3>2 DEF BudgetKept, BudgetRow
  <2>2. CASE hold[k].status \notin LiveStatus
    BY <1>3, <2>2 DEF Releases, ReleaseAiCredit, BudgetKept
  <2> QED
    BY <2>1, <2>2
<1>4. ASSUME NEW s \in Scopes, NEW l \in Limits \cup {NoLimit}, SetBudgetLimit(s, l)
      PROVE  BudgetKept'
  BY <1>4, AmountsAssumption DEF SetBudgetLimit, BudgetKept, TypeOK, BudgetRow
<1>5. ASSUME UNCHANGED budget PROVE BudgetKept'
  BY <1>5 DEF BudgetKept
<1> QED
  BY <1>1, <1>2, <1>3, <1>4, <1>5, StepKinds, AmountsAssumption
     DEF StepKind, Quiet, Replays, Settles, RecordsFailure, Reviews, ConfirmTopup

LEMMA LedgerStep ==
  ASSUME TypeOK, CallsNumbered, OneDebitPerOperation, TopupsApproved, [Next]_vars
  PROVE  OneDebitPerOperation' /\ TopupsApproved'
<1> USE DEF OneDebitPerOperation, TopupsApproved
<1>1. ASSUME NEW k \in Keys, NEW q \in Nat, NEW c \in Charges, NEW n \in 1..MaxCalls[k],
             Settles(k, q, c, n)
      PROVE  OneDebitPerOperation' /\ TopupsApproved'
  <2>1. hold[k].status = "HELD"
    BY <1>1 DEF Settles, CanRecord, WalletCoversCharge, BudgetCoversCharge
  <2>2. \A r \in ledger : r.ref # k
    BY <2>1
  <2>3. hold' = [hold EXCEPT ![k] = [status |-> "SETTLED", amount |-> @.amount,
                                     lapsed |-> @.lapsed, result |-> n]]
    BY <1>1 DEF Settles, RecordUsage
  <2>4. \A j \in Keys : hold[j].status = "SETTLED" => hold'[j].status = "SETTLED"
    BY <2>3 DEF TypeOK
  <2>5. hold'[k].status = "SETTLED"
    BY <2>3 DEF TypeOK
  <2> DEFINE row == [ref |-> k, amount |-> -c, after |-> wallet.balance - c]
  <2>6. row.ref = k /\ ledger' \in {ledger, ledger \cup {row}}
    BY <1>1 DEF Settles, RecordUsage
  <2> HIDE DEF row
  <2> QED
    BY <1>1, <2>2, <2>4, <2>5, <2>6, RefsAssumption DEF Settles
<1>2. ASSUME NEW b \in Bills, ConfirmTopup(b) PROVE OneDebitPerOperation' /\ TopupsApproved'
  <2>1. bill[b] = "PENDING" /\ bill' = [bill EXCEPT ![b] = "APPROVED"]
    BY <1>2 DEF ConfirmTopup
  <2>2. \A r \in ledger : r.ref # b
    BY <2>1
  <2>3. \A x \in Bills : bill[x] = "APPROVED" => bill'[x] = "APPROVED"
    BY <2>1 DEF TypeOK
  <2>4. bill'[b] = "APPROVED"
    BY <2>1 DEF TypeOK
  <2>5. PICK row : row.ref = b /\ ledger' = ledger \cup {row}
    BY <1>2 DEF ConfirmTopup
  <2> QED
    BY <1>2, <2>2, <2>3, <2>4, <2>5, RefsAssumption DEF ConfirmTopup
<1>3. ASSUME UNCHANGED ledger,
             \A j \in Keys : hold[j].status = "SETTLED" => hold'[j].status = "SETTLED",
             \A x \in Bills : bill[x] = "APPROVED" => bill'[x] = "APPROVED"
      PROVE  OneDebitPerOperation' /\ TopupsApproved'
  BY <1>3
<1>4. ASSUME NEW k \in Keys, NEW q \in Nat,
             Reserves(k, q) \/ RecordsFailure(k, q) \/ Releases(k, q)
      PROVE  OneDebitPerOperation' /\ TopupsApproved'
  <2>1. \A j \in Keys : hold[j].status = "SETTLED" => hold'[j].status = "SETTLED"
    BY <1>4 DEF Reserves, CanReserve, KeyFree, WalletCovers, BudgetCovers, RecordsFailure, CanRecord, WalletCoversCharge, BudgetCoversCharge, RecordUsage, Releases,
                ReleaseAiCredit, LiveStatus, TypeOK
  <2>2. UNCHANGED <<ledger, bill>>
    BY <1>4 DEF Reserves, RecordsFailure, RecordUsage, Releases
  <2> QED
    BY <1>3, <2>1, <2>2
<1>5. ASSUME Quiet \/ (\E k \in Keys : Replays(k)) \/ Reviews
             \/ \E s \in Scopes, l \in Limits \cup {NoLimit} : SetBudgetLimit(s, l)
      PROVE  OneDebitPerOperation' /\ TopupsApproved'
  BY <1>3, <1>5 DEF Quiet, Replays, Reviews, SetBudgetLimit
<1> QED
  BY <1>1, <1>2, <1>4, <1>5, StepKinds DEF StepKind

LEMMA RepliesStep ==
  ASSUME TypeOK, CallsNumbered, RepliesArePaid, [Next]_vars
  PROVE  RepliesArePaid'
<1>1. ASSUME \A j \in Keys : hold[j].status = "SETTLED" => hold'[j] = hold[j],
             UNCHANGED replies
      PROVE  RepliesArePaid'
  BY <1>1 DEF RepliesArePaid, TypeOK
<1>2. ASSUME NEW k \in Keys, Replays(k) PROVE RepliesArePaid'
  BY <1>2 DEF Replays, RepliesArePaid
<1>3. ASSUME NEW k \in Keys, NEW q \in Nat, NEW c \in Charges, NEW n \in 1..MaxCalls[k],
             Settles(k, q, c, n)
      PROVE  RepliesArePaid'
  <2>1. hold[k].status = "HELD"
    BY <1>3 DEF Settles, CanRecord, WalletCoversCharge, BudgetCoversCharge
  <2>2. hold' = [hold EXCEPT ![k] = [status |-> "SETTLED", amount |-> @.amount,
                                     lapsed |-> @.lapsed, result |-> n]]
    BY <1>3 DEF Settles, RecordUsage
  <2>3. \A j \in Keys : hold[j].status = "SETTLED" => hold'[j] = hold[j]
    BY <2>1, <2>2 DEF TypeOK
  <2>4. hold'[k].status = "SETTLED" /\ hold'[k].result = n
    BY <2>2 DEF TypeOK
  <2>5. replies' \in {replies, replies \cup {<<k, n>>}}
    BY <1>3 DEF Settles
  <2> QED
    BY <2>3, <2>4, <2>5 DEF RepliesArePaid, TypeOK
<1>4. ASSUME NEW k \in Keys, NEW q \in Nat,
             Reserves(k, q) \/ RecordsFailure(k, q) \/ Releases(k, q)
      PROVE  RepliesArePaid'
  <2>1. \A j \in Keys : hold[j].status = "SETTLED" => hold'[j] = hold[j]
    BY <1>4 DEF Reserves, CanReserve, KeyFree, WalletCovers, BudgetCovers, RecordsFailure, CanRecord, WalletCoversCharge, BudgetCoversCharge, RecordUsage, Releases,
                ReleaseAiCredit, LiveStatus, TypeOK
  <2>2. UNCHANGED replies
    BY <1>4 DEF Reserves, RecordsFailure, Releases
  <2> QED
    BY <1>1, <2>1, <2>2
<1>5. ASSUME Quiet \/ Reviews \/ (\E b \in Bills : ConfirmTopup(b))
             \/ \E s \in Scopes, l \in Limits \cup {NoLimit} : SetBudgetLimit(s, l)
      PROVE  RepliesArePaid'
  BY <1>1, <1>5 DEF Quiet, Reviews, ConfirmTopup, SetBudgetLimit
<1> QED
  BY <1>2, <1>3, <1>4, <1>5, StepKinds DEF StepKind

-----------------------------------------------------------------------------
(* Sums over finite sets, by induction on their cardinality.                 *)

\* The least element of a set of numbers, and induction: a set of numbers that
\* has 0 and the successor of each of its elements has them all.
LEMMA LeastNumber ==
  ASSUME NEW T \in SUBSET Nat, T # {}
  PROVE  \E x \in T : \A y \in T : x <= y
<1> DEFINE R == OpToRel(<, Nat)
<1>1. IsWellFoundedOn(R, Nat)
  BY NatLessThanWellFounded
<1>2. \E x \in T : \A y \in T : ~ (<<y, x>> \in R)
  <2> HIDE DEF R
  <2> QED BY <1>1, WFMin
<1>3. \A x, y \in Nat : <<y, x>> \in R <=> y < x
  BY DEF OpToRel
<1>4. PICK x \in T : \A y \in T : ~ (<<y, x>> \in R)
  BY <1>2
<1>5. \A y \in T : ~ (y < x)
  <2> HIDE DEF R
  <2> QED BY <1>3, <1>4
<1> QED
  BY <1>5

LEMMA NumberInduction ==
  ASSUME NEW T \in SUBSET Nat, 0 \in T, \A n \in T : n + 1 \in T
  PROVE  T = Nat
<1> SUFFICES ASSUME Nat \ T # {} PROVE FALSE
  OBVIOUS
<1>1. PICK x \in Nat \ T : \A y \in Nat \ T : x <= y
  BY LeastNumber
<1> QED
  BY <1>1, x - 1 \in Nat

\* The element a sum begins with, and what is left of the set.
First(s) == CHOOSE x \in s : TRUE
Others(s) == s \ {First(s)}

\* g adds f up over every finite subset of S.
Adds(f, S, g) == g = [s \in SUBSET S |-> IF s = {} THEN 0 ELSE f[First(s)] + g[Others(s)]]

LEMMA OthersSmaller ==
  ASSUME NEW s, IsFiniteSet(s), s # {}
  PROVE  /\ First(s) \in s /\ Others(s) \subseteq s /\ First(s) \notin Others(s)
         /\ IsFiniteSet(Others(s)) /\ Cardinality(s) \in Nat \ {0}
         /\ Cardinality(Others(s)) = Cardinality(s) - 1
<1>1. First(s) \in s
  BY DEF First
<1>2. Cardinality(s) \in Nat /\ Cardinality(s) # 0
  BY FS_CardinalityType, FS_EmptySet
<1> QED
  BY <1>1, <1>2, FS_RemoveElement DEF Others

\* Subsets are finite, and have a cardinality in Nat.
LEMMA SubsetFinite ==
  ASSUME NEW S, IsFiniteSet(S), NEW s \in SUBSET S
  PROVE  IsFiniteSet(s) /\ Cardinality(s) \in Nat /\ Cardinality(s) <= Cardinality(S)
BY FS_Subset, FS_CardinalityType

LEMMA SumExists ==
  ASSUME NEW S, IsFiniteSet(S), NEW f
  PROVE  \E g : Adds(f, S, g)
<1> DEFINE D(n) == {s \in SUBSET S : Cardinality(s) <= n}
           Body(g, s) == IF s = {} THEN 0 ELSE f[First(s)] + g[Others(s)]
           T == {n \in Nat : \E g : g = [s \in D(n) |-> Body(g, s)]}
<1>1. 0 \in T
  <2> DEFINE g == [s \in D(0) |-> 0]
  <2>1. \A s \in D(0) : s = {}
    BY SubsetFinite, FS_EmptySet
  <2>2. g = [s \in D(0) |-> Body(g, s)]
    BY <2>1
  <2> QED
    BY <2>2
<1>2. \A n \in T : n + 1 \in T
  <2> TAKE n \in T
  <2>1. PICK g : g = [s \in D(n) |-> Body(g, s)]
    OBVIOUS
  <2> DEFINE h == [s \in D(n + 1) |-> IF Cardinality(s) <= n THEN g[s] ELSE Body(g, s)]
  <2>2. ASSUME NEW s \in D(n + 1), s # {}
        PROVE  Others(s) \in D(n) /\ Others(s) \in D(n + 1) /\ h[Others(s)] = g[Others(s)]
    <3>1. IsFiniteSet(s) /\ s \subseteq S
      BY SubsetFinite
    <3>2. Others(s) \subseteq s /\ Cardinality(s) \in Nat \ {0} /\ Cardinality(Others(s)) = Cardinality(s) - 1
      BY <3>1, <2>2, OthersSmaller
    <3>3. Cardinality(Others(s)) <= n /\ Cardinality(Others(s)) <= n + 1
      BY <3>2
    <3>4. Others(s) \in D(n) /\ Others(s) \in D(n + 1)
      BY <3>1, <3>2, <3>3
    <3> QED
      BY <3>3, <3>4
  <2>3. ASSUME NEW s \in D(n + 1) PROVE h[s] = Body(h, s)
    <3>1. CASE s = {}
      <4>1. Cardinality(s) <= n /\ s \in D(n)
        BY <3>1, FS_EmptySet
      <4>2. g[s] = 0
        BY <2>1, <4>1, <3>1
      <4> QED
        BY <4>1, <4>2, <3>1
    <3>2. CASE s # {} /\ Cardinality(s) <= n
      <4>1. h[s] = g[s] /\ s \in D(n)
        BY <3>2
      <4>2. g[s] = Body(g, s)
        BY <2>1, <4>1
      <4> QED
        BY <4>1, <4>2, <3>2, <2>2
    <3>3. CASE s # {} /\ ~(Cardinality(s) <= n)
      <4>1. h[s] = Body(g, s)
        BY <3>3
      <4> QED
        BY <4>1, <3>3, <2>2
    <3> QED
      BY <3>1, <3>2, <3>3
  <2>4. h = [s \in D(n + 1) |-> Body(h, s)]
    <3>1. h = [s \in D(n + 1) |-> h[s]]
      OBVIOUS
    <3> QED
      <4> HIDE DEF h
      <4> QED BY <2>3, <3>1
  <2>5. \E x : x = [s \in D(n + 1) |-> Body(x, s)]
    <3> HIDE DEF h
    <3> QED BY <2>4
  <2>6. n + 1 \in Nat
    OBVIOUS
  <2> QED
    <3> HIDE DEF D, Body
    <3> QED BY <2>5, <2>6
<1>3. T = Nat
  <2>1. T \in SUBSET Nat
    OBVIOUS
  <2> HIDE DEF T
  <2> QED BY <2>1, <1>1, <1>2, NumberInduction
<1>4. Cardinality(S) \in T
  <2> HIDE DEF T
  <2> QED BY <1>3, FS_CardinalityType
<1>5. PICK g : g = [s \in D(Cardinality(S)) |-> Body(g, s)]
  BY <1>4
<1>6. D(Cardinality(S)) = SUBSET S
  BY SubsetFinite
<1> QED
  BY <1>5, <1>6 DEF Adds

\* One step of a sum.
LEMMA AddsStep ==
  ASSUME NEW f, NEW S, NEW g, Adds(f, S, g), NEW s \in SUBSET S
  PROVE  g[s] = IF s = {} THEN 0 ELSE f[First(s)] + g[Others(s)]
BY DEF Adds

\* Two functions that agree on a set add up to the same.
LEMMA AddsAgree ==
  ASSUME NEW f, NEW S, NEW g, Adds(f, S, g), IsFiniteSet(S),
         NEW ff, NEW SS, NEW gg, Adds(ff, SS, gg),
         NEW t \in SUBSET S, t \subseteq SS, \A x \in t : f[x] = ff[x]
  PROVE  g[t] = gg[t]
<1> DEFINE T == {n \in Nat : \A s \in SUBSET t : Cardinality(s) <= n => g[s] = gg[s]}
<1>1. \A s \in SUBSET t : s \in SUBSET S /\ s \in SUBSET SS /\ IsFiniteSet(s) /\ Cardinality(s) \in Nat
  BY SubsetFinite
<1>2. 0 \in T
  <2>1. \A s \in SUBSET t : Cardinality(s) <= 0 => s = {}
    BY <1>1, FS_EmptySet
  <2>2. g[{}] = 0 /\ gg[{}] = 0
    BY AddsStep
  <2> QED
    BY <2>1, <2>2
<1>3. \A n \in T : n + 1 \in T
  <2> SUFFICES ASSUME NEW n \in T, NEW s \in SUBSET t, Cardinality(s) <= n + 1
               PROVE  g[s] = gg[s]
    OBVIOUS
  <2>1. CASE s = {}
    BY <2>1, AddsStep
  <2>2. CASE s # {}
    <3>1. /\ First(s) \in s /\ Others(s) \subseteq s /\ Cardinality(s) \in Nat \ {0}
          /\ Cardinality(Others(s)) = Cardinality(s) - 1
      BY <2>2, <1>1, OthersSmaller
    <3>2. g[Others(s)] = gg[Others(s)]
      BY <3>1
    <3>3. f[First(s)] = ff[First(s)]
      BY <3>1
    <3>4. g[s] = f[First(s)] + g[Others(s)] /\ gg[s] = ff[First(s)] + gg[Others(s)]
      BY <2>2, <1>1, AddsStep
    <3> QED
      BY <3>2, <3>3, <3>4
  <2> QED
    BY <2>1, <2>2
<1>4. T = Nat
  <2>1. T \in SUBSET Nat
    OBVIOUS
  <2> HIDE DEF T
  <2> QED BY <2>1, <1>2, <1>3, NumberInduction
<1>5. Cardinality(t) \in T
  <2> HIDE DEF T
  <2> QED BY <1>4, <1>1
<1> QED
  BY <1>5, <1>1

\* The order of the additions makes no difference.
LEMMA AddsOne ==
  ASSUME NEW f, NEW S, NEW g, Adds(f, S, g), IsFiniteSet(S), \A x \in S : f[x] \in Int
  PROVE  \A s \in SUBSET S : /\ g[s] \in Int
                             /\ \A x \in S \ s : g[s \cup {x}] = g[s] + f[x]
<1> DEFINE P(s) == g[s] \in Int /\ \A x \in s : g[s] = g[s \ {x}] + f[x] /\ g[s \ {x}] \in Int
           T == {n \in Nat : \A s \in SUBSET S : Cardinality(s) <= n => P(s)}
<1>1. \A s \in SUBSET S : IsFiniteSet(s) /\ Cardinality(s) \in Nat
  BY SubsetFinite
<1>2. 0 \in T
  <2>1. \A s \in SUBSET S : Cardinality(s) <= 0 => s = {}
    BY <1>1, FS_EmptySet
  <2>2. g[{}] = 0
    BY AddsStep
  <2>3. P({})
    BY <2>2
  <2> QED
    <3> HIDE DEF P
    <3> QED BY <2>1, <2>3
<1>3. \A n \in T : n + 1 \in T
  <2> SUFFICES ASSUME NEW n \in T, NEW s \in SUBSET S, Cardinality(s) <= n + 1
               PROVE  P(s)
    <3> HIDE DEF P
    <3> QED OBVIOUS
  <2>1. n \in Nat /\ \A u \in SUBSET S : Cardinality(u) <= n => P(u)
    <3> HIDE DEF P
    <3> QED OBVIOUS
  <2> HIDE DEF T
  <2>2. CASE s = {}
    BY <2>2, AddsStep
  <2>3. CASE s # {}
    <3> DEFINE y == First(s)
    <3>1. /\ y \in s /\ Others(s) = s \ {y} /\ Cardinality(s) \in Nat \ {0}
          /\ Cardinality(Others(s)) = Cardinality(s) - 1
      BY <2>3, <1>1, OthersSmaller DEF Others
    <3> HIDE DEF y
    <3>2. g[s] = f[y] + g[s \ {y}]
      <4>1. g[s] = f[First(s)] + g[Others(s)]
        BY <2>3, AddsStep
      <4> QED BY <4>1, <3>1 DEF y
    <3>3. P(s \ {y})
      <4>1. Cardinality(s \ {y}) <= n
        BY <3>1, <2>1
      <4> HIDE DEF P
      <4> QED BY <4>1, <2>1
    <3>4. ASSUME NEW x \in s PROVE g[s] = g[s \ {x}] + f[x] /\ g[s \ {x}] \in Int
      <4>1. CASE x = y
        BY <4>1, <3>2, <3>3, <3>1
      <4>2. CASE x # y
        <5>1. x \in s \ {y} /\ y \in s \ {x}
          BY <4>2, <3>1
        <5>2. g[s \ {y}] = g[(s \ {y}) \ {x}] + f[x] /\ g[(s \ {y}) \ {x}] \in Int
          BY <3>3, <5>1
        <5>3. Cardinality(s \ {x}) = Cardinality(s) - 1
          BY <1>1, FS_RemoveElement
        <5>4. P(s \ {x})
          <6>1. Cardinality(s \ {x}) <= n
            BY <3>1, <5>3, <2>1
          <6> HIDE DEF P
          <6> QED BY <6>1, <2>1
        <5>5. g[s \ {x}] = g[(s \ {x}) \ {y}] + f[y] /\ g[s \ {x}] \in Int
          BY <5>4, <5>1
        <5>6. (s \ {x}) \ {y} = (s \ {y}) \ {x}
          OBVIOUS
        <5>7. f[x] \in Int /\ f[y] \in Int
          BY <3>1
        <5> DEFINE a == g[s \ {x}]  b == g[s \ {y}]  r == g[(s \ {y}) \ {x}]
        <5>8. g[(s \ {x}) \ {y}] = r
          BY Zenon, <5>6
        <5>9. g[s] = f[y] + b /\ b = r + f[x] /\ r \in Int /\ a = r + f[y]
          BY Zenon, <5>2, <5>5, <5>8, <3>2
        <5> SUFFICES g[s] = a + f[x] /\ a \in Int
          BY Zenon
        <5> HIDE DEF P, a, b, r
        <5> QED
          BY <5>9, <5>7
      <4> QED
        BY <4>1, <4>2
    <3>5. g[s] \in Int
      BY <3>2, <3>3, <3>1
    <3> QED
      BY <3>4, <3>5
  <2> QED
    BY <2>2, <2>3
<1>4. T = Nat
  <2>1. T \in SUBSET Nat
    OBVIOUS
  <2> HIDE DEF T
  <2> QED BY <2>1, <1>2, <1>3, NumberInduction
<1>5. \A s \in SUBSET S : P(s)
  <2>1. \A s \in SUBSET S : Cardinality(s) \in T
    <3> HIDE DEF T
    <3> QED BY <1>1, <1>4
  <2> QED
    BY <2>1, <1>1
<1>6. ASSUME NEW s \in SUBSET S, NEW x \in S \ s PROVE g[s \cup {x}] = g[s] + f[x]
  <2>1. s \cup {x} \in SUBSET S /\ (s \cup {x}) \ {x} = s
    OBVIOUS
  <2>2. P(s \cup {x})
    BY <1>5, <2>1
  <2> QED
    BY <2>1, <2>2
<1> QED
  BY <1>5, <1>6

\* The sum of f over S.
Total(f, S) == (CHOOSE g : Adds(f, S, g))[S]

LEMMA TotalAdds ==
  ASSUME NEW f, NEW S, IsFiniteSet(S)
  PROVE  \E g : Adds(f, S, g) /\ Total(f, S) = g[S]
<1>1. Adds(f, S, CHOOSE g : Adds(f, S, g))
  BY Zenon, SumExists
<1> QED
  BY Zenon, <1>1 DEF Total

LEMMA TotalAgree ==
  ASSUME NEW f, NEW ff, NEW S, IsFiniteSet(S), \A x \in S : f[x] = ff[x]
  PROVE  Total(f, S) = Total(ff, S)
<1>1. PICK g : Adds(f, S, g) /\ Total(f, S) = g[S]
  BY TotalAdds
<1>2. PICK gg : Adds(ff, S, gg) /\ Total(ff, S) = gg[S]
  BY TotalAdds
<1>3. g[S] = gg[S]
  BY <1>1, <1>2, AddsAgree
<1> QED
  BY <1>1, <1>2, <1>3

LEMMA TotalEmpty ==
  ASSUME NEW f
  PROVE  Total(f, {}) = 0
<1>1. PICK g : Adds(f, {}, g) /\ Total(f, {}) = g[{}]
  BY TotalAdds, FS_EmptySet
<1> QED
  BY <1>1, AddsStep

LEMMA TotalOne ==
  ASSUME NEW f, NEW S, IsFiniteSet(S), NEW e, e \notin S, \A x \in S \cup {e} : f[x] \in Int
  PROVE  /\ Total(f, S) \in Int
         /\ Total(f, S \cup {e}) = Total(f, S) + f[e]
<1> DEFINE SS == S \cup {e}
<1>1. IsFiniteSet(SS)
  BY FS_AddElement
<1>2. PICK g : Adds(f, S, g) /\ Total(f, S) = g[S]
  BY TotalAdds
<1>3. PICK gg : Adds(f, SS, gg) /\ Total(f, SS) = gg[SS]
  BY <1>1, TotalAdds
<1>4. gg[S] \in Int /\ gg[S \cup {e}] = gg[S] + f[e]
  <2>1. S \in SUBSET SS /\ e \in SS \ S
    OBVIOUS
  <2>2. \A s \in SUBSET SS : gg[s] \in Int /\ \A x \in SS \ s : gg[s \cup {x}] = gg[s] + f[x]
    <3> HIDE DEF SS
    <3>1. \A x \in SS : f[x] \in Int
      BY DEF SS
    <3> QED BY <1>1, <1>3, <3>1, AddsOne
  <2> QED
    BY <2>1, <2>2
<1>5. g[S] = gg[S]
  BY <1>2, <1>3, AddsAgree
<1> QED
  BY <1>2, <1>3, <1>4, <1>5

\* What adds f up over S comes to its sum.
LEMMA TotalUnique ==
  ASSUME NEW f, NEW S, IsFiniteSet(S), NEW g, Adds(f, S, g)
  PROVE  g[S] = Total(f, S)
BY TotalAdds, AddsAgree

LEMMA TotalZero ==
  ASSUME NEW f, NEW S, IsFiniteSet(S), \A x \in S : f[x] = 0
  PROVE  Total(f, S) = 0
<1> DEFINE g == [s \in SUBSET S |-> 0]
<1>1. Adds(f, S, g)
  <2>1. \A s \in SUBSET S : s # {} => First(s) \in S /\ Others(s) \in SUBSET S
    BY DEF First, Others
  <2> QED
    BY <2>1 DEF Adds
<1>2. g[S] = 0
  OBVIOUS
<1> HIDE DEF g
<1> QED
  BY <1>1, <1>2, TotalUnique

\* The three sums of the property are such totals.
LEMMA AmountTotal ==
  ASSUME NEW L, IsFiniteSet(L)
  PROVE  MapThenSumSet(LAMBDA r : r.amount, L) = Total([r \in L |-> r.amount], L)
<1> DEFINE f == [r \in L |-> r.amount]
           Body(g) == [s \in SUBSET L |-> IF s = {} THEN 0
                         ELSE (CHOOSE x \in s : TRUE).amount + g[s \ {CHOOSE x \in s : TRUE}]]
           it == CHOOSE g : g = Body(g)
<1>1. MapThenSumSet(LAMBDA r : r.amount, L) = it[L]
  BY Zenon DEF MapThenSumSet, MapThenFoldSet
<1>2. ASSUME NEW g PROVE Adds(f, L, g) <=> g = Body(g)
  <2>1. \A s \in SUBSET L : s # {} => f[First(s)] = (CHOOSE x \in s : TRUE).amount
    BY DEF First
  <2> QED
    BY <2>1 DEF Adds, First, Others
<1>3. \E g : g = Body(g)
  <2> HIDE DEF Body, f
  <2> QED BY <1>2, SumExists
<1>4. it = Body(it)
  <2> HIDE DEF Body
  <2> QED BY Zenon, <1>3
<1>5. Adds(f, L, it)
  <2> HIDE DEF Body, f, it
  <2> QED BY <1>2, <1>4
<1>6. it[L] = Total(f, L)
  <2> HIDE DEF f, it
  <2> QED BY <1>5, TotalUnique
<1> QED
  <2> HIDE DEF it
  <2> QED BY Zenon, <1>1, <1>6

LEMMA DebitTotal ==
  ASSUME NEW L, IsFiniteSet(L)
  PROVE  MapThenSumSet(LAMBDA r : -r.amount, L) = Total([r \in L |-> -r.amount], L)
<1> DEFINE f == [r \in L |-> -r.amount]
           Body(g) == [s \in SUBSET L |-> IF s = {} THEN 0
                         ELSE -(CHOOSE x \in s : TRUE).amount + g[s \ {CHOOSE x \in s : TRUE}]]
           it == CHOOSE g : g = Body(g)
<1>1. MapThenSumSet(LAMBDA r : -r.amount, L) = it[L]
  BY Zenon DEF MapThenSumSet, MapThenFoldSet
<1>2. ASSUME NEW g PROVE Adds(f, L, g) <=> g = Body(g)
  <2>1. \A s \in SUBSET L : s # {} => f[First(s)] = -(CHOOSE x \in s : TRUE).amount
    BY DEF First
  <2> QED
    BY <2>1 DEF Adds, First, Others
<1>3. \E g : g = Body(g)
  <2> HIDE DEF Body, f
  <2> QED BY <1>2, SumExists
<1>4. it = Body(it)
  <2> HIDE DEF Body
  <2> QED BY Zenon, <1>3
<1>5. Adds(f, L, it)
  <2> HIDE DEF Body, f, it
  <2> QED BY <1>2, <1>4
<1>6. it[L] = Total(f, L)
  <2> HIDE DEF f, it
  <2> QED BY <1>5, TotalUnique
<1> QED
  <2> HIDE DEF it
  <2> QED BY Zenon, <1>1, <1>6

LEMMA UsedTotal ==
  ASSUME NEW b, NEW S, IsFiniteSet(S)
  PROVE  MapThenSumSet(LAMBDA s : b[s].used, S) = Total([s \in S |-> b[s].used], S)
<1> DEFINE f == [s \in S |-> b[s].used]
           Body(g) == [s \in SUBSET S |-> IF s = {} THEN 0
                         ELSE b[CHOOSE x \in s : TRUE].used + g[s \ {CHOOSE x \in s : TRUE}]]
           it == CHOOSE g : g = Body(g)
<1>1. MapThenSumSet(LAMBDA s : b[s].used, S) = it[S]
  BY Zenon DEF MapThenSumSet, MapThenFoldSet
<1>2. ASSUME NEW g PROVE Adds(f, S, g) <=> g = Body(g)
  <2>1. \A s \in SUBSET S : s # {} => f[First(s)] = b[CHOOSE x \in s : TRUE].used
    BY DEF First
  <2> QED
    BY <2>1 DEF Adds, First, Others
<1>3. \E g : g = Body(g)
  <2> HIDE DEF Body, f
  <2> QED BY <1>2, SumExists
<1>4. it = Body(it)
  <2> HIDE DEF Body
  <2> QED BY Zenon, <1>3
<1>5. Adds(f, S, it)
  <2> HIDE DEF Body, f, it
  <2> QED BY <1>2, <1>4
<1>6. it[S] = Total(f, S)
  <2> HIDE DEF f, it
  <2> QED BY <1>5, TotalUnique
<1> QED
  <2> HIDE DEF it
  <2> QED BY Zenon, <1>1, <1>6

-----------------------------------------------------------------------------
(* The ledger explains the wallet.                                          *)

\* The three sums, and what they come to.
Debits(L) == {r \in L : r.ref \in Keys}
Credit(L) == Total([r \in L |-> r.amount], L)
Spent(L)  == Total([r \in Debits(L) |-> -r.amount], Debits(L))
Used(b)   == Total([s \in Scopes |-> b[s].used], Scopes)

LedgerInv ==
  /\ IsFiniteSet(ledger)
  /\ wallet.balance = Credit(ledger)
  /\ wallet.balance = wallet.topup - wallet.spent
  /\ wallet.spent = Spent(ledger)
  /\ wallet.spent = Used(budget)

\* A new row adds its amount to the ledger and, if it is a debit, to what was spent.
LEMMA NewRow ==
  ASSUME NEW L, IsFiniteSet(L), L \subseteq LedgerRow, NEW row \in LedgerRow, row \notin L
  PROVE  /\ IsFiniteSet(L \cup {row})
         /\ Credit(L \cup {row}) = Credit(L) + row.amount
         /\ row.ref \in Keys => Spent(L \cup {row}) = Spent(L) - row.amount
         /\ row.ref \notin Keys => Spent(L \cup {row}) = Spent(L)
<1> DEFINE LL == L \cup {row}
<1>1. IsFiniteSet(LL)
  BY FS_AddElement
<1>2. \A r \in LL : r.amount \in Int /\ -r.amount \in Int
  BY DEF LedgerRow
<1>3. Credit(LL) = Credit(L) + row.amount
  <2> DEFINE f == [r \in LL |-> r.amount]
  <2>1. \A x \in L \cup {row} : f[x] \in Int
    BY <1>2
  <2>2. f[row] = row.amount
    OBVIOUS
  <2>3. Total(f, L \cup {row}) = Total(f, L) + f[row]
    <3> HIDE DEF f
    <3> QED BY <2>1, TotalOne
  <2>4. Total(f, L) = Total([r \in L |-> r.amount], L)
    <3>1. \A x \in L : f[x] = [r \in L |-> r.amount][x]
      OBVIOUS
    <3> HIDE DEF f
    <3> QED BY <3>1, TotalAgree
  <2> QED
    BY <2>2, <2>3, <2>4 DEF Credit
<1>4. CASE row.ref \in Keys
  <2> DEFINE D == Debits(L)
             f == [r \in D \cup {row} |-> -r.amount]
  <2>1. IsFiniteSet(D) /\ row \notin D /\ Debits(LL) = D \cup {row}
    BY <1>4, FS_Subset DEF Debits
  <2>2. \A x \in D \cup {row} : f[x] \in Int
    BY <1>2 DEF Debits
  <2>3. f[row] = -row.amount
    OBVIOUS
  <2>4. Total(f, D) \in Int /\ Total(f, D \cup {row}) = Total(f, D) + f[row]
    <3> HIDE DEF f, D
    <3> QED BY <2>1, <2>2, TotalOne
  <2>5. Total(f, D) = Spent(L)
    <3>1. \A x \in D : f[x] = [r \in D |-> -r.amount][x]
      OBVIOUS
    <3>2. Total(f, D) = Total([r \in D |-> -r.amount], D)
      <4> HIDE DEF f, D
      <4> QED BY <2>1, <3>1, TotalAgree
    <3> QED
      BY <3>2 DEF Spent
  <2>6. Spent(LL) = Total(f, D \cup {row})
    <3> HIDE DEF D, LL
    <3> QED BY <2>1 DEF Spent
  <2>7. row.amount \in Int
    BY <1>2
  <2> QED
    <3> HIDE DEF f, D
    <3> QED BY <1>1, <1>3, <1>4, <2>3, <2>4, <2>5, <2>6, <2>7
<1>5. CASE row.ref \notin Keys
  <2>1. Debits(LL) = Debits(L)
    BY <1>5 DEF Debits
  <2> QED
    BY <1>1, <1>3, <1>5, <2>1 DEF Spent
<1> QED
  BY <1>4, <1>5

\* What is used of the budgets grows by what one of them uses.
LEMMA MoreUsed ==
  ASSUME NEW b, NEW bb, NEW s \in Scopes, NEW c \in Int,
         \A x \in Scopes : b[x].used \in Int,
         \A x \in Scopes \ {s} : bb[x].used = b[x].used,
         bb[s].used = b[s].used + c
  PROVE  Used(bb) = Used(b) + c
<1> DEFINE R == Scopes \ {s}
           f == [x \in Scopes |-> b[x].used]
           g == [x \in Scopes |-> bb[x].used]
<1>1. IsFiniteSet(Scopes) /\ IsFiniteSet(R) /\ s \notin R /\ Scopes = R \cup {s}
  BY SetsAssumption, FS_RemoveElement
<1>2. /\ \A x \in R \cup {s} : f[x] \in Int /\ g[x] \in Int
      /\ \A x \in R : f[x] = g[x]
      /\ g[s] = f[s] + c /\ f[s] \in Int
  OBVIOUS
<1>3. Used(b) = Total(f, Scopes) /\ Used(bb) = Total(g, Scopes)
  BY DEF Used
<1> HIDE DEF R, f, g
<1>4. /\ Total(f, R) \in Int /\ Total(f, R \cup {s}) = Total(f, R) + f[s]
      /\ Total(g, R \cup {s}) = Total(g, R) + g[s]
  BY <1>1, <1>2, TotalOne
<1>5. Total(f, R) = Total(g, R)
  BY <1>1, <1>2, TotalAgree
<1> QED
  BY <1>1, <1>2, <1>3, <1>4, <1>5

LEMMA SameUsed ==
  ASSUME NEW b, NEW bb, \A x \in Scopes : bb[x].used = b[x].used
  PROVE  Used(bb) = Used(b)
<1>1. [x \in Scopes |-> bb[x].used] = [x \in Scopes |-> b[x].used]
  OBVIOUS
<1> QED
  BY Zenon, <1>1 DEF Used

\* A recorded charge is one debit row, and so much less balance.
LEMMA RecordLedger ==
  ASSUME TypeOK, OneDebitPerOperation, LedgerInv, NEW k \in Keys, NEW q \in Nat, NEW c \in Nat,
         NEW st, NEW n, CanRecord(k, q, c), RecordUsage(k, q, c, st, n)
  PROVE  LedgerInv'
<1> DEFINE row == [ref |-> k, amount |-> -c, after |-> wallet.balance - c]
<1>1. /\ wallet'.balance = wallet.balance - c /\ wallet'.topup = wallet.topup
      /\ wallet'.spent = wallet.spent + c
      /\ wallet.balance \in Int /\ wallet.topup \in Int /\ wallet.spent \in Int
  BY DEF RecordUsage, TypeOK, WalletRow
<1>2. Used(budget)' = Used(budget) + c
  <2>1. budget' = [budget EXCEPT ![ScopeOf[k]] =
                  [limit |-> @.limit, used |-> @.used + c, reserved |-> @.reserved - q]]
    BY DEF RecordUsage
  <2>2. /\ ScopeOf[k] \in Scopes
        /\ \A x \in Scopes : budget[x].used \in Int
        /\ \A x \in Scopes \ {ScopeOf[k]} : budget'[x].used = budget[x].used
        /\ budget'[ScopeOf[k]].used = budget[ScopeOf[k]].used + c
    BY <2>1, SetsAssumption DEF TypeOK, BudgetRow
  <2>3. Used(budget') = Used(budget) + c
    BY <2>2, MoreUsed
  <2> QED
    BY <2>3 DEF Used
<1>3. row \in LedgerRow /\ row.amount = -c /\ row.ref = k
  BY <1>1 DEF LedgerRow
<1>4. row \notin ledger
  <2>1. hold[k].status = "HELD"
    BY DEF CanRecord
  <2> QED
    BY <2>1 DEF OneDebitPerOperation
<1>5. ledger' = IF c > 0 THEN ledger \cup {row} ELSE ledger
  BY DEF RecordUsage
<1> HIDE DEF row
<1>6. ledger \subseteq LedgerRow
  BY DEF TypeOK
<1>7. /\ IsFiniteSet(ledger') /\ Credit(ledger') = Credit(ledger) - c
      /\ Spent(ledger') = Spent(ledger) + c
  <2>1. Credit(ledger) \in Int /\ Spent(ledger) \in Int
    BY <1>1 DEF LedgerInv
  <2>2. CASE c > 0
    <3>1. /\ IsFiniteSet(ledger \cup {row})
          /\ Credit(ledger \cup {row}) = Credit(ledger) + row.amount
          /\ Spent(ledger \cup {row}) = Spent(ledger) - row.amount
      BY <1>3, <1>4, <1>6, NewRow DEF LedgerInv
    <3> QED
      BY <3>1, <2>1, <2>2, <1>3, <1>5
  <2>3. CASE ~(c > 0)
    <3>1. c = 0 /\ ledger' = ledger
      BY <2>3, <1>5
    <3>2. IsFiniteSet(ledger)
      BY DEF LedgerInv
    <3> QED
      BY <2>1, <3>1, <3>2
  <2> QED
    BY <2>2, <2>3
<1>8. Credit(ledger)' = Credit(ledger') /\ Spent(ledger)' = Spent(ledger')
  BY DEF Credit, Spent, Debits
<1>9. /\ wallet.balance = Credit(ledger) /\ wallet.balance = wallet.topup - wallet.spent
      /\ wallet.spent = Spent(ledger) /\ wallet.spent = Used(budget)
  BY DEF LedgerInv
<1>10. wallet'.balance = wallet'.topup - wallet'.spent
  BY <1>1, <1>9
<1>11. /\ wallet'.balance = Credit(ledger') /\ wallet'.spent = Spent(ledger')
       /\ wallet'.spent = Used(budget)'
  BY <1>1, <1>2, <1>7, <1>9
<1> QED
  BY Zenon, <1>7, <1>8, <1>10, <1>11 DEF LedgerInv

LEMMA LedgerInvStep ==
  ASSUME IInv, LedgerInv, [Next]_vars
  PROVE  LedgerInv'
<1> USE DEF IInv
<1>1. ASSUME UNCHANGED ledger, wallet'.balance = wallet.balance, wallet'.topup = wallet.topup,
             wallet'.spent = wallet.spent, \A s \in Scopes : budget'[s].used = budget[s].used
      PROVE  LedgerInv'
  <2>1. Used(budget') = Used(budget)
    BY <1>1, SameUsed
  <2> QED
    BY <1>1, <2>1 DEF LedgerInv, Used
<1>2. ASSUME NEW k \in Keys, NEW q \in Nat, NEW c \in Charges, NEW n \in 1..MaxCalls[k],
             Settles(k, q, c, n)
      PROVE  LedgerInv'
  BY <1>2, RecordLedger, AmountsAssumption DEF Settles
<1>3. ASSUME NEW k \in Keys, NEW q \in Nat, RecordsFailure(k, q)
      PROVE  LedgerInv'
  <2>1. 0 \in Nat
    OBVIOUS
  <2> QED
    BY <1>3, <2>1, RecordLedger DEF RecordsFailure
<1>4. ASSUME NEW k \in Keys, NEW q \in Int, AddReserved(k, q), UNCHANGED ledger
      PROVE  LedgerInv'
  <2>1. /\ wallet'.balance = wallet.balance /\ wallet'.topup = wallet.topup
        /\ wallet'.spent = wallet.spent
    BY <1>4 DEF AddReserved, TypeOK, WalletRow
  <2>2. \A s \in Scopes : budget'[s].used = budget[s].used
    BY <1>4 DEF AddReserved, TypeOK, BudgetRow
  <2> QED
    BY <1>1, <1>4, <2>1, <2>2
<1>5. ASSUME NEW b \in Bills, ConfirmTopup(b)
      PROVE  LedgerInv'
  <2> DEFINE row == [ref |-> b, amount |-> BillAmount[b], after |-> wallet.balance + BillAmount[b]]
  <2>1. BillAmount[b] \in Int /\ wallet.balance \in Int /\ wallet.topup \in Int /\ wallet.spent \in Int
    BY AmountsAssumption DEF TypeOK, WalletRow
  <2>2. row \in LedgerRow /\ row.ref \notin Keys /\ row.amount = BillAmount[b] /\ row \notin ledger
    BY <1>5, <2>1, RefsAssumption DEF LedgerRow, TopupsApproved, ConfirmTopup
  <2>3. ledger' = ledger \cup {row}
    BY <1>5 DEF ConfirmTopup
  <2>4. /\ wallet'.balance = wallet.balance + BillAmount[b] /\ wallet'.spent = wallet.spent
        /\ wallet'.topup = wallet.topup + BillAmount[b] /\ UNCHANGED budget
    BY <1>5 DEF ConfirmTopup
  <2> HIDE DEF row
  <2>5. /\ IsFiniteSet(ledger') /\ Credit(ledger') = Credit(ledger) + BillAmount[b]
        /\ Spent(ledger') = Spent(ledger)
    <3>1. IsFiniteSet(ledger) /\ ledger \subseteq LedgerRow
      BY DEF LedgerInv, TypeOK
    <3>2. /\ IsFiniteSet(ledger \cup {row})
          /\ Credit(ledger \cup {row}) = Credit(ledger) + row.amount
          /\ Spent(ledger \cup {row}) = Spent(ledger)
      BY <2>2, <3>1, NewRow
    <3> QED
      BY <2>2, <2>3, <3>2
  <2>6. Credit(ledger)' = Credit(ledger') /\ Spent(ledger)' = Spent(ledger')
        /\ Used(budget)' = Used(budget)
    BY <2>4 DEF Credit, Spent, Debits, Used
  <2>7. /\ wallet.balance = Credit(ledger) /\ wallet.balance = wallet.topup - wallet.spent
        /\ wallet.spent = Spent(ledger) /\ wallet.spent = Used(budget)
    BY DEF LedgerInv
  <2>8. /\ wallet'.balance = wallet'.topup - wallet'.spent
        /\ wallet'.balance = Credit(ledger') /\ wallet'.spent = Spent(ledger')
        /\ wallet'.spent = Used(budget)'
    BY <2>1, <2>4, <2>5, <2>6, <2>7
  <2> QED
    BY Zenon, <2>5, <2>6, <2>8 DEF LedgerInv
<1>6. ASSUME NEW k \in Keys, NEW q \in Nat, Releases(k, q)
      PROVE  LedgerInv'
  BY <1>1, <1>4, <1>6 DEF Releases, ReleaseAiCredit
<1>7. ASSUME NEW s \in Scopes, NEW l \in Limits \cup {NoLimit}, SetBudgetLimit(s, l)
      PROVE  LedgerInv'
  BY <1>1, <1>7 DEF SetBudgetLimit, TypeOK, BudgetRow
<1>8. ASSUME NEW k \in Keys, NEW q \in Nat, Reserves(k, q)
      PROVE  LedgerInv'
  BY <1>4, <1>8 DEF Reserves
<1>9. ASSUME Quiet \/ Reviews \/ \E k \in Keys : Replays(k)
      PROVE  LedgerInv'
  BY <1>1, <1>9 DEF Quiet, Reviews, Replays
<1> QED
  BY <1>2, <1>3, <1>5, <1>6, <1>7, <1>8, <1>9, StepKinds DEF StepKind

-----------------------------------------------------------------------------
(* Theorems of the specification.                                           *)

\* The conjunction of the invariants above holds in every reachable state.
THEOREM Invariance == Spec => []IInv
<1>1. Init => IInv
  <2>1. Init => TypeOK
    BY IdleTypes DEF Init, TypeOK, NoHold, HoldStatus, BillStatus, WalletRow, BudgetRow,
                     HoldRow, LedgerRow
  <2>2. Init => /\ SettledHasResult /\ CallsNumbered /\ TopupsApproved
                /\ FloorKept /\ BudgetKept /\ OneDebitPerOperation /\ RepliesArePaid
    BY AmountsAssumption
       DEF Init, NoHold, IdleWorker, SettledHasResult, CallsNumbered, TopupsApproved,
           FloorKept, BudgetKept, OneDebitPerOperation, RepliesArePaid
  <2> QED
    BY <2>1, <2>2 DEF IInv
<1>2. IInv /\ [Next]_vars => IInv'
  BY TypeStep, SettledHasResultStep, CallsNumberedStep, LedgerStep, FloorStep, BudgetStep,
     RepliesStep DEF IInv
<1> QED
  BY <1>1, <1>2, PTL DEF Spec

\* AI calls never take the available credit down to the minimum balance.
THEOREM FloorTheorem == Spec => []FloorKept
<1>1. IInv => FloorKept
  BY DEF IInv
<1> QED
  BY <1>1, Invariance, PTL

\* No budget commits more than its limit.
THEOREM BudgetTheorem == Spec => []BudgetKept
<1>1. IInv => BudgetKept
  BY DEF IInv
<1> QED
  BY <1>1, Invariance, PTL

\* An operation is debited at most once, and only when it is settled.
THEOREM OneDebitTheorem == Spec => []OneDebitPerOperation
<1>1. IInv => OneDebitPerOperation
  BY DEF IInv
<1> QED
  BY <1>1, Invariance, PTL

\* Every answer handed to a caller is the settled, paid one.
THEOREM PaidRepliesTheorem == Spec => []RepliesArePaid
<1>1. IInv => RepliesArePaid
  BY DEF IInv
<1> QED
  BY <1>1, Invariance, PTL

\* Nothing changes a settled hold.
THEOREM SettledIsFinalTheorem == Spec => SettledIsFinal
<1>1. IInv /\ [Next]_vars =>
        [\A k \in Keys : hold[k].status = "SETTLED" => hold'[k] = hold[k]]_vars
  <2> SUFFICES ASSUME TypeOK, CallsNumbered, [Next]_vars,
                      NEW k \in Keys, hold[k].status = "SETTLED"
               PROVE  hold'[k] = hold[k]
    BY DEF IInv
  <2>1. ASSUME NEW j \in Keys, NEW q \in Nat,
               \/ Reserves(j, q) \/ RecordsFailure(j, q) \/ Releases(j, q)
               \/ \E c \in Charges, n \in 1..MaxCalls[j] : Settles(j, q, c, n)
        PROVE  hold'[k] = hold[k]
    BY <2>1 DEF Reserves, CanReserve, KeyFree, WalletCovers, BudgetCovers, RecordsFailure, Settles, CanRecord, WalletCoversCharge, BudgetCoversCharge, RecordUsage,
                Releases, ReleaseAiCredit, LiveStatus, TypeOK
  <2> QED
    BY <2>1, StepKinds DEF StepKind, Quiet, Replays, Reviews, SetBudgetLimit, ConfirmTopup
<1> QED
  BY <1>1, Invariance, PTL DEF Spec, SettledIsFinal

\* The wallet is the sum of its ledger, and spending is accounted three times alike.
THEOREM LedgerTheorem == Spec => []LedgerExplainsWallet
<1>1. Init => LedgerInv
  <2>1. ASSUME Init PROVE LedgerInv
    <3>1. IsFiniteSet({}) /\ Credit({}) = 0 /\ Debits({}) = {} /\ Spent({}) = 0
      BY FS_EmptySet, TotalEmpty DEF Credit, Debits, Spent
    <3>2. Used(budget) = 0
      <4> DEFINE f == [s \in Scopes |-> budget[s].used]
      <4>1. \A s \in Scopes : f[s] = 0
        BY <2>1 DEF Init
      <4> HIDE DEF f
      <4>2. Total(f, Scopes) = 0
        BY <4>1, SetsAssumption, TotalZero
      <4> QED
        BY <4>2 DEF Used, f
    <3> QED
      BY <2>1, <3>1, <3>2 DEF Init, LedgerInv
  <2> QED
    BY <2>1
<1>2. IInv /\ LedgerInv /\ [Next]_vars => LedgerInv'
  BY LedgerInvStep
<1>3. LedgerInv => LedgerExplainsWallet
  <2> SUFFICES ASSUME LedgerInv PROVE LedgerExplainsWallet
    OBVIOUS
  <2> DEFINE debits == {r \in ledger : r.ref \in Keys}
  <2>1. MapThenSumSet(LAMBDA r : r.amount, ledger) = Credit(ledger)
    BY Zenon, AmountTotal DEF LedgerInv, Credit
  <2>2. debits = Debits(ledger) /\ IsFiniteSet(debits)
    BY FS_Subset DEF Debits, LedgerInv
  <2>3. MapThenSumSet(LAMBDA r : -r.amount, debits) = Spent(ledger)
    BY Zenon, <2>2, DebitTotal DEF Spent
  <2>4. MapThenSumSet(LAMBDA s : budget[s].used, Scopes) = Used(budget)
    BY Zenon, SetsAssumption, UsedTotal DEF Used
  <2> QED
    BY Zenon, <2>1, <2>3, <2>4 DEF LedgerInv, LedgerExplainsWallet
<1> QED
  BY <1>1, <1>2, <1>3, Invariance, PTL DEF Spec

\* Every step of the billing code is a step of the prepaid account or leaves
\* it alone.
LEMMA AccountStep ==
  ASSUME TypeOK, SettledHasResult, CallsNumbered, [Next]_vars
  PROVE  [Account!Next]_(Account!avars)
<1> DEFINE answer   == [k \in Keys |-> hold[k].result]
           credited == {b \in Bills : bill[b] = "APPROVED"}
<1>1. ASSUME wallet'.balance = wallet.balance, \A k \in Keys : hold'[k].result = hold[k].result,
             \A b \in Bills : bill'[b] = "APPROVED" <=> bill[b] = "APPROVED", UNCHANGED replies
      PROVE  UNCHANGED Account!avars
  <2>1. answer' = answer /\ credited' = credited
    BY <1>1
  <2> QED
    BY <1>1, <2>1 DEF Account!avars
<1>2. ASSUME NEW k \in Keys, Replays(k) PROVE Account!Reply(k)
  BY <1>2 DEF Replays, Account!Reply, SettledHasResult
<1>3. ASSUME NEW k \in Keys, NEW q \in Nat, NEW c \in Charges, NEW n \in 1..MaxCalls[k],
             Settles(k, q, c, n)
      PROVE  Account!Pay(k, c, n)
  <2>1. hold[k].status = "HELD" /\ hold[k].result = 0
    BY <1>3 DEF Settles, CanRecord, WalletCoversCharge, BudgetCoversCharge, SettledHasResult, TypeOK, HoldRow
  <2>2. wallet.balance - c > MinBalance
    BY <1>3, AmountsAssumption DEF Settles, CanRecord, WalletCoversCharge, BudgetCoversCharge, TypeOK, WalletRow
  <2>3. wallet'.balance = wallet.balance - c
    BY <1>3 DEF Settles, RecordUsage
  <2>4. hold' = [hold EXCEPT ![k] = [status |-> "SETTLED", amount |-> @.amount,
                                     lapsed |-> @.lapsed, result |-> n]]
    BY <1>3 DEF Settles, RecordUsage
  <2>5. answer' = [answer EXCEPT ![k] = n]
    BY <2>4 DEF TypeOK
  <2> QED
    BY <1>3, <2>1, <2>2, <2>3, <2>5 DEF Settles, Account!Pay
<1>4. ASSUME NEW k \in Keys, NEW q \in Nat,
             Reserves(k, q) \/ RecordsFailure(k, q) \/ Releases(k, q)
      PROVE  UNCHANGED Account!avars
  <2>1. wallet'.balance = wallet.balance
    BY <1>4 DEF Reserves, RecordsFailure, RecordUsage, Releases, ReleaseAiCredit,
                AddReserved, TypeOK, WalletRow
  <2>2. \A j \in Keys : hold'[j].result = hold[j].result
    BY <1>4 DEF Reserves, RecordsFailure, RecordUsage, Releases, ReleaseAiCredit,
                TypeOK, HoldRow
  <2> QED
    BY <1>1, <1>4, <2>1, <2>2 DEF Reserves, RecordsFailure, Releases
<1>5. ASSUME Quiet \/ Reviews
             \/ \E s \in Scopes, l \in Limits \cup {NoLimit} : SetBudgetLimit(s, l)
      PROVE  UNCHANGED Account!avars
  BY <1>1, <1>5 DEF Quiet, Reviews, SetBudgetLimit
<1>6. ASSUME NEW b \in Bills, ConfirmTopup(b) PROVE Account!Credit(b)
  <2>1. bill[b] = "PENDING" /\ bill' = [bill EXCEPT ![b] = "APPROVED"]
    BY <1>6 DEF ConfirmTopup
  <2>2. credited' = credited \cup {b} /\ b \notin credited
    BY <2>1 DEF TypeOK
  <2>3. answer' = answer
    BY <1>6 DEF ConfirmTopup
  <2> QED
    BY <1>6, <2>2, <2>3 DEF ConfirmTopup, Account!Credit
<1>7. ASSUME NEW k \in Keys PROVE 1..MaxCalls[k] \subseteq UNION {1..MaxCalls[j] : j \in Keys}
  OBVIOUS
<1> QED
  BY <1>2, <1>3, <1>4, <1>5, <1>6, <1>7, StepKinds DEF StepKind, Account!Next

\* The billing code implements the prepaid account.
THEOREM Refinement == Spec => AccountSpec
<1>1. Init => Account!Init
  BY DEF Init, NoHold, Account!Init
<1>2. IInv /\ [Next]_vars => [Account!Next]_(Account!avars)
  BY AccountStep DEF IInv
<1> QED
  BY <1>1, <1>2, Invariance, PTL DEF Spec, AccountSpec

-----------------------------------------------------------------------------
(* The gates of the two channels.                                           *)

Steps == Layers \cup {"idle", "ipBan", "contactBan", "lineBan", "auth", "touch", "revoke",
                      "strike", "ban", "spam", "spamFirst", "spamCount",
                      "sessionCount", "sessionInsert"}
CallKinds == {"idle", "create", "wrongToken", "send", "read", "revoke", "event", "retry", "ai"}
Call  == [kind : CallKinds, who : Contacts \cup {Nobody}, text : Texts \cup {Nobody}, at : Steps,
          counted : {"no", "within", "over"}, struck : Subjects \cup {Nobody}, strike : Nat]
Count == [count : Nat, ends : Nat]
Ban   == [kind : {"none", "strike", "admin", "permanent"}, ends : Nat]

GateTypes ==
  /\ now \in Nat
  /\ counter \in [Counters -> Count] /\ admitted \in [Counters -> Nat]
  /\ strikes \in [Subjects -> Count] /\ offences \in [Subjects -> Nat]
  /\ ban \in [Subjects -> Ban]
  /\ calls \in [Callers -> Call]

\* Whoever is checked, counted or struck as a customer is one; a request that
\* may be authenticated is of a kind that goes on from there.
OfAGuest(call) == call.who \in Contacts /\ call.kind \in {"send", "read", "revoke"}
Known(call) ==
  /\ call.at \in ContactLayers \cup {"contactBan", "lineBan", "ipMin", "ipDay", "total",
                                     "spam", "spamFirst", "spamCount"}
       => call.who \in Contacts
  /\ call.at \in {"ipBan", "auth"} => call.who = Nobody \/ OfAGuest(call)
  /\ call.at = "touch" => OfAGuest(call)
  /\ call.at \in {"strike", "ban"} => call.struck \in Subjects

\* A ban is on its way only after the third refusal.
Due(call) == call.at = "ban" => call.strike >= 3 /\ offences[call.struck] >= 3

\* A window has counted every call it let past.
Counted(k) == admitted[k] <= counter[k].count /\ admitted[k] <= Limit[k[1]]

\* Strikes on their way have been earned too.
Striking(s) == {c \in Callers : calls[c].at = "strike" /\ calls[c].struck = s}
Earned(s) ==
  /\ strikes[s].count + Cardinality(Striking(s)) <= offences[s]
  /\ ban[s].kind = "strike" => offences[s] >= 3

GateInv ==
  /\ GateTypes
  /\ \A c \in Callers : Known(calls[c]) /\ Due(calls[c])
  /\ \A k \in Counters : Counted(k)
  /\ \A s \in Subjects : Earned(s)

LEMMA IdleCall == Idle \in Call /\ Known(Idle) /\ Idle.at = "idle"
BY DEF Idle, Call, Known, CallKinds, Steps, ContactLayers

LEMMA StrikingFinite ==
  ASSUME NEW s
  PROVE  IsFiniteSet(Striking(s)) /\ Cardinality(Striking(s)) \in Nat
BY GateAssumption, FS_Subset, FS_CardinalityType DEF Striking

\* The strikes on their way after one call has moved.
LEMMA StrikingMoves ==
  ASSUME GateTypes, NEW c \in Callers, NEW y \in Call, calls' = [calls EXCEPT ![c] = y],
         NEW s \in Subjects
  PROVE  /\ Cardinality(Striking(s)') \in Nat
         /\ Cardinality(Striking(s)') <= Cardinality(Striking(s)) + 1
         /\ y.at # "strike" \/ y.struck # s =>
              Cardinality(Striking(s)') <= Cardinality(Striking(s))
         /\ y.at # "strike" /\ calls[c].at = "strike" /\ calls[c].struck = s =>
              Cardinality(Striking(s)') = Cardinality(Striking(s)) - 1
<1> DEFINE A == Striking(s)
           B == Striking(s)'
<1>1. IsFiniteSet(A) /\ Cardinality(A) \in Nat
  BY StrikingFinite
<1>2. B \in SUBSET (A \cup {c})
  BY DEF GateTypes, Striking
<1>3. y.at # "strike" \/ y.struck # s => B \in SUBSET A /\ B = A \ {c}
  BY DEF GateTypes, Striking
<1>4. calls[c].at = "strike" /\ calls[c].struck = s => c \in A
  BY DEF Striking
<1> HIDE DEF A, B
<1>5. IsFiniteSet(A \cup {c}) /\ Cardinality(A \cup {c}) <= Cardinality(A) + 1
      /\ Cardinality(A \cup {c}) \in Nat
  <2>1. /\ IsFiniteSet(A \cup {c})
        /\ Cardinality(A \cup {c}) = IF c \in A THEN Cardinality(A) ELSE Cardinality(A) + 1
    BY <1>1, FS_AddElement
  <2> QED
    BY <1>1, <2>1
<1>6. IsFiniteSet(B) /\ Cardinality(B) <= Cardinality(A \cup {c}) /\ Cardinality(B) \in Nat
  BY <1>2, <1>5, FS_Subset, FS_CardinalityType
<1>7. B \in SUBSET A => Cardinality(B) <= Cardinality(A)
  BY <1>1, FS_Subset
<1>8. c \in A => Cardinality(A \ {c}) = Cardinality(A) - 1
  BY <1>1, FS_RemoveElement
<1>9. /\ Cardinality(B) \in Nat /\ Cardinality(B) <= Cardinality(A) + 1
      /\ (y.at # "strike" \/ y.struck # s => Cardinality(B) <= Cardinality(A))
      /\ (y.at # "strike" /\ calls[c].at = "strike" /\ calls[c].struck = s =>
              Cardinality(B) = Cardinality(A) - 1)
  <2>1. Cardinality(B) \in Nat /\ Cardinality(B) <= Cardinality(A) + 1
    BY <1>1, <1>5, <1>6
  <2>2. ASSUME y.at # "strike" \/ y.struck # s PROVE Cardinality(B) <= Cardinality(A)
    BY Zenon, <2>2, <1>3, <1>7
  <2>3. ASSUME y.at # "strike", calls[c].at = "strike", calls[c].struck = s
        PROVE  Cardinality(B) = Cardinality(A) - 1
    BY Zenon, <2>3, <1>3, <1>4, <1>8
  <2> QED
    BY <2>1, <2>2, <2>3
<1> QED
  BY Zenon, <1>9 DEF A, B

\* A step that moves one call and strikes nobody, whatever it counts.
LEMMA MovesAndCounts ==
  ASSUME GateInv, NEW c \in Callers, NEW y \in Call, calls' = [calls EXCEPT ![c] = y],
         Known(y), y.at \notin {"strike", "ban"},
         offences' \in [Subjects -> Nat], \A s \in Subjects : offences'[s] >= offences[s],
         GateTypes', \A k \in Counters : Counted(k)', UNCHANGED <<strikes, ban>>
  PROVE  GateInv'
<1>1. \A d \in Callers : calls'[d] = IF d = c THEN y ELSE calls[d]
  BY DEF GateInv, GateTypes
<1>2. \A d \in Callers : Known(calls[d]) /\ Due(calls[d])
  BY DEF GateInv
<1>3. \A d \in Callers : Known(calls'[d])
  BY <1>1, <1>2
<1>4. \A d \in Callers : calls[d].at = "ban" => calls[d].struck \in Subjects
  BY <1>2 DEF Known
<1>5. \A d \in Callers : Due(calls[d])'
  BY <1>1, <1>2, <1>4 DEF Due, GateInv, GateTypes
<1>6. ASSUME NEW s \in Subjects PROVE Earned(s)'
  <2>1. /\ Cardinality(Striking(s)') \in Nat
        /\ Cardinality(Striking(s)') <= Cardinality(Striking(s))
    BY StrikingMoves DEF GateInv
  <2>2. /\ Cardinality(Striking(s)) \in Nat /\ strikes[s].count \in Nat
        /\ offences[s] \in Nat /\ offences'[s] \in Nat /\ offences'[s] >= offences[s]
    BY StrikingFinite DEF GateInv, GateTypes, Count
  <2>3. Earned(s)
    BY DEF GateInv
  <2> QED
    BY <2>1, <2>2, <2>3 DEF Earned
<1> QED
  BY <1>3, <1>5, <1>6 DEF GateInv

LEMMA MovesOne ==
  ASSUME GateInv, NEW c \in Callers, NEW y \in Call, calls' = [calls EXCEPT ![c] = y],
         Known(y), y.at \notin {"strike", "ban"},
         UNCHANGED <<now, counter, strikes, ban, admitted, offences>>
  PROVE  GateInv'
<1>1. GateTypes'
  BY DEF GateInv, GateTypes
<1>2. \A k \in Counters : Counted(k)'
  BY DEF GateInv, Counted
<1>3. offences' \in [Subjects -> Nat] /\ \A s \in Subjects : offences'[s] >= offences[s]
  BY DEF GateInv, GateTypes
<1> QED
  BY <1>1, <1>2, <1>3, MovesAndCounts

\* A refusal is an offence of the one it strikes.
LEMMA StrikesOne ==
  ASSUME GateInv, NEW c \in Callers, NEW s0 \in Subjects, StrikesFor(c, s0),
         offences' \in [Subjects -> Nat], \A s \in Subjects : offences'[s] >= offences[s],
         offences'[s0] >= offences[s0] + 1,
         GateTypes', \A k \in Counters : Counted(k)', UNCHANGED <<strikes, ban>>
  PROVE  GateInv'
<1> DEFINE y == [calls[c] EXCEPT !.at = "strike", !.counted = "no", !.struck = s0]
<1>1. y \in Call /\ y.at = "strike" /\ y.struck = s0 /\ Known(y)
  <2>1. calls[c] \in Call
    BY DEF GateInv, GateTypes
  <2>2. y \in Call /\ y.at = "strike" /\ y.struck = s0
    BY <2>1 DEF Call, Steps
  <2> HIDE DEF y
  <2> QED
    BY <2>2 DEF Known, ContactLayers
<1>2. calls' = [calls EXCEPT ![c] = y]
  BY DEF StrikesFor, GateInv, GateTypes, Call
<1> HIDE DEF y
<1>3. \A d \in Callers : Known(calls'[d]) /\ Due(calls[d])'
  <2>1. \A d \in Callers : calls'[d] = IF d = c THEN y ELSE calls[d]
    BY <1>2 DEF GateInv, GateTypes
  <2>2. \A d \in Callers : Known(calls[d]) /\ Due(calls[d])
    BY DEF GateInv
  <2>3. \A d \in Callers : Known(calls'[d])
    BY <1>1, <2>1, <2>2
  <2>4. \A d \in Callers : calls[d].at = "ban" => calls[d].struck \in Subjects
    BY <2>2 DEF Known
  <2>5. \A d \in Callers : Due(calls[d])'
    BY <1>1, <2>1, <2>2, <2>4 DEF Due, GateInv, GateTypes
  <2> QED
    BY <2>3, <2>5
<1>4. ASSUME NEW s \in Subjects PROVE Earned(s)'
  <2>1. /\ Cardinality(Striking(s)') \in Nat
        /\ Cardinality(Striking(s)') <= Cardinality(Striking(s)) + 1
        /\ s # s0 => Cardinality(Striking(s)') <= Cardinality(Striking(s))
    BY <1>1, <1>2, StrikingMoves DEF GateInv
  <2>2. Cardinality(Striking(s)) \in Nat /\ strikes[s].count \in Nat /\ offences[s] \in Nat
        /\ offences'[s] \in Nat
    BY StrikingFinite DEF GateInv, GateTypes, Count
  <2>3. Earned(s)
    BY DEF GateInv
  <2>4. offences'[s] >= offences[s] /\ (s = s0 => offences'[s] >= offences[s] + 1)
    OBVIOUS
  <2> QED
    BY <2>1, <2>2, <2>3, <2>4 DEF Earned
<1> QED
  BY <1>3, <1>4 DEF GateInv

\* A call that ends, or goes on to a step it may be at, leaves the rest alone.
LEMMA EndsOne ==
  ASSUME GateInv, NEW c \in Callers, Ends(c),
         UNCHANGED <<now, counter, strikes, ban, admitted, offences>>
  PROVE  GateInv'
BY IdleCall, MovesOne DEF Ends

LEMMA GoesOn ==
  ASSUME GateInv, NEW c \in Callers, NEW step \in Steps \ {"strike", "ban"}, Goes(c, step),
         step \in ContactLayers \cup {"contactBan", "lineBan", "ipMin", "ipDay", "total",
                                      "spam", "spamFirst", "spamCount"} =>
           calls[c].who \in Contacts,
         step \in {"ipBan", "auth"} => calls[c].who = Nobody \/ OfAGuest(calls[c]),
         step = "touch" => OfAGuest(calls[c]),
         UNCHANGED <<now, counter, strikes, ban, admitted, offences>>
  PROVE  GateInv'
<1> DEFINE y == [calls[c] EXCEPT !.at = step, !.counted = "no"]
<1>1. calls' = [calls EXCEPT ![c] = y]
  BY DEF Goes
<1>2. y \in Call /\ y.at = step /\ y.who = calls[c].who /\ y.kind = calls[c].kind
  BY DEF GateInv, GateTypes, Call
<1> HIDE DEF y
<1>3. Known(y)
  BY <1>2 DEF Known, OfAGuest
<1> QED
  BY <1>1, <1>2, <1>3, MovesOne

\* What the invariant says of one call.
LEMMA CallFacts ==
  ASSUME GateInv, NEW c \in Callers
  PROVE  /\ calls[c] \in Call /\ Known(calls[c]) /\ Due(calls[c])
         /\ calls[c].who \in Contacts \cup {Nobody} /\ calls[c].at \in Steps
BY DEF GateInv, GateTypes, Call

LEMMA ArrivesStep ==
  ASSUME GateInv, NEW c \in Callers, NEW kind \in CallKinds, NEW who \in Contacts \cup {Nobody},
         NEW text \in Texts \cup {Nobody}, NEW step \in {"ipBan", "lineBan", "aiGlobal"},
         Arrives(c, kind, who, text, step),
         step = "lineBan" => who \in Contacts,
         step = "ipBan" =>
           who = Nobody \/ (who \in Contacts /\ kind \in {"send", "read", "revoke"})
  PROVE  GateInv'
<1> DEFINE y == [Idle EXCEPT !.kind = kind, !.who = who, !.text = text, !.at = step]
<1>1. y \in Call /\ Known(y) /\ y.at = step
  BY DEF Idle, Call, Steps, Layers, NetworkLayers, ContactLayers, Known, OfAGuest
<1>2. calls' = [calls EXCEPT ![c] = y]
  BY DEF Arrives
<1> HIDE DEF y
<1>3. UNCHANGED <<now, counter, strikes, ban, admitted, offences>>
  BY DEF Arrives, redis, history
<1> QED
  BY <1>1, <1>2, <1>3, MovesOne

\* New calls.
LEMMA NewCallStep ==
  ASSUME GateInv, NEW c \in Callers,
         \/ CreateSession(c) \/ WrongToken(c) \/ SendMessage(c) \/ ReadMessages(c) \/ Revoke(c)
         \/ LineEvent(c) \/ LineRetry(c) \/ AiCall(c)
  PROVE  GateInv'
<1> USE DEF Contacts, CallKinds
<1>1. CASE CreateSession(c)
  BY <1>1, ArrivesStep DEF CreateSession
<1>2. CASE WrongToken(c)
  BY <1>2, ArrivesStep DEF WrongToken
<1>3. CASE SendMessage(c)
  BY <1>3, ArrivesStep DEF SendMessage
<1>4. CASE ReadMessages(c)
  BY <1>4, ArrivesStep DEF ReadMessages
<1>5. CASE Revoke(c)
  BY <1>5, ArrivesStep DEF Revoke
<1>6. CASE LineEvent(c)
  BY <1>6, ArrivesStep DEF LineEvent
<1>7. CASE LineRetry(c)
  BY <1>7, ArrivesStep DEF LineRetry
<1>8. CASE AiCall(c)
  BY <1>8, ArrivesStep DEF AiCall
<1> QED
  BY <1>1, <1>2, <1>3, <1>4, <1>5, <1>6, <1>7, <1>8

\* Checks of bans and sessions: the call ends or goes on.
LEMMA CheckStep ==
  ASSUME GateInv, NEW c \in Callers,
         \/ AssertIpAllowed(c) \/ AssertContactNotBanned(c) \/ IsBanned(c)
         \/ InsertSession(c) \/ Authenticate(c) \/ Touch(c) \/ RevokeSession(c)
  PROVE  GateInv'
<1> USE CallFacts DEF At, Known, redis, history
<1> USE DEF Steps, Layers, ContactLayers, NetworkLayers
<1>1. CASE AssertIpAllowed(c)
  BY <1>1, EndsOne, GoesOn DEF AssertIpAllowed
<1>2. CASE AssertContactNotBanned(c)
  BY <1>2, EndsOne, GoesOn DEF AssertContactNotBanned
<1>3. CASE IsBanned(c)
  BY <1>3, EndsOne, GoesOn DEF IsBanned
<1>4. CASE InsertSession(c)
  BY <1>4, EndsOne DEF InsertSession
<1>5. ASSUME OfAGuest(calls[c]) PROVE Proceeds(calls[c]) \in {"contactBan", "reads", "revoke"}
  BY <1>5 DEF Proceeds, OfAGuest
<1>6. CASE Authenticate(c)
  BY <1>5, <1>6, GoesOn DEF Authenticate, OfAGuest
<1>7. CASE Touch(c)
  BY <1>5, <1>7, GoesOn DEF Touch, OfAGuest
<1>8. CASE RevokeSession(c)
  BY <1>8, EndsOne DEF RevokeSession
<1> QED
  BY <1>1, <1>2, <1>3, <1>4, <1>6, <1>7, <1>8
\* A layer that lets a call past sends it to a step it may be at.
LEMMA AfterKnown ==
  ASSUME NEW call \in Call, Known(call), call.at \in Layers,
         NEW y, y = IF After(call) = "idle" THEN Idle
                    ELSE [call EXCEPT !.at = After(call), !.counted = "no"]
  PROVE  y \in Call /\ Known(y) /\ y.at \notin {"strike", "ban"}
<1> DEFINE step == After(call)
<1>1. step \in {"contactDay", "ipMin", "ipDay", "total", "spam", "lineHour", "sessionCount",
                "aiUser", "idle"}
  BY DEF After
<1>2. /\ step \in {"contactDay", "ipMin", "ipDay", "total", "spam", "lineHour"} =>
           call.who \in Contacts
      /\ step = "aiUser" => call.who # Nobody
  BY DEF After, Known, ContactLayers
<1>3. CASE step = "idle"
  BY <1>3, IdleCall
<1>4. CASE step # "idle"
  <2>1. /\ y.at = step /\ y.who = call.who /\ y \in Call
    BY <1>1, <1>4 DEF Call, Steps, Layers, ContactLayers, NetworkLayers
  <2>2. call.who \in Contacts \cup {Nobody}
    BY DEF Call
  <2> HIDE DEF step
  <2> QED
    BY <1>1, <1>2, <1>4, <2>1, <2>2 DEF Known, ContactLayers
<1> QED
  BY <1>3, <1>4

\* A call that a layer lets past.
LEMMA PassesMoves ==
  ASSUME GateInv, NEW c \in Callers, calls[c].at \in Layers, Passes(c, After(calls[c]))
  PROVE  \E y \in Call : /\ calls' = [calls EXCEPT ![c] = y] /\ Known(y)
                         /\ y.at \notin {"strike", "ban"}
<1> DEFINE y == IF After(calls[c]) = "idle" THEN Idle
                ELSE [calls[c] EXCEPT !.at = After(calls[c]), !.counted = "no"]
<1>1. calls' = [calls EXCEPT ![c] = y]
  BY CallFacts DEF Passes, Ends, Goes, Call
<1>2. calls[c] \in Call /\ Known(calls[c])
  BY CallFacts
<1> HIDE DEF y
<1>3. y \in Call /\ Known(y) /\ y.at \notin {"strike", "ban"}
  BY <1>2, AfterKnown DEF y
<1> QED
  BY <1>1, <1>3

\* What follows a verdict: the call goes on, or ends, or strikes whom it blames.
LEMMA DecideStep ==
  ASSUME GateInv, NEW c \in Callers, NEW allowed \in BOOLEAN, calls[c].at \in Layers,
         Decide(c, allowed), counter' \in [Counters -> Count],
         admitted' \in [Counters -> Nat], \A k \in Counters : Counted(k)',
         UNCHANGED <<now, strikes, ban>>
  PROVE  GateInv'
<1> DEFINE call == calls[c]
           Blamed(s) == \/ call.at \in ContactLayers \ {"aiUser"} /\ s = call.who
                        \/ call.at \in {"ipMin", "ipDay", "sessions", "authfail"} /\ s = Network
<1>1. /\ offences' = [s \in Subjects |-> IF ~allowed /\ Blamed(s)
                                         THEN offences[s] + 1 ELSE offences[s]]
      /\ \/ allowed /\ Passes(c, After(call))
         \/ ~allowed /\ Struck(call) # Nobody /\ StrikesFor(c, Struck(call))
         \/ ~allowed /\ Struck(call) = Nobody /\ Ends(c)
  BY DEF Decide
<1>2. call \in Call /\ Known(call) /\ call.who \in Contacts \cup {Nobody}
  BY CallFacts
<1>3. Struck(call) # Nobody => Struck(call) \in Subjects /\ Blamed(Struck(call))
  BY <1>2 DEF Struck, Known, Subjects, ContactLayers, Call
<1>4. offences' \in [Subjects -> Nat] /\ \A s \in Subjects : offences'[s] >= offences[s]
  BY <1>1 DEF GateInv, GateTypes
<1>5. ASSUME calls' \in [Callers -> Call] PROVE GateTypes'
  BY <1>4, <1>5 DEF GateInv, GateTypes
<1>6. CASE allowed /\ Passes(c, After(call))
  <2>1. PICK y \in Call : /\ calls' = [calls EXCEPT ![c] = y] /\ Known(y)
                          /\ y.at \notin {"strike", "ban"}
    BY <1>6, PassesMoves
  <2>2. calls' \in [Callers -> Call]
    BY <2>1 DEF GateInv, GateTypes
  <2> QED
    BY <1>4, <1>5, <2>1, <2>2, MovesAndCounts
<1>7. CASE ~allowed /\ Struck(call) # Nobody /\ StrikesFor(c, Struck(call))
  <2> DEFINE s0 == Struck(call)
  <2>1. s0 \in Subjects /\ offences'[s0] >= offences[s0] + 1
    BY <1>1, <1>3, <1>7 DEF GateInv, GateTypes
  <2>2. calls' \in [Callers -> Call]
    <3> DEFINE y == [call EXCEPT !.at = "strike", !.counted = "no", !.struck = s0]
    <3>1. y \in Call
      BY <1>2, <2>1 DEF Call, Steps
    <3>2. calls' = [calls EXCEPT ![c] = y]
      BY <1>2, <1>7 DEF StrikesFor, Call
    <3> HIDE DEF y
    <3> QED
      BY <3>1, <3>2 DEF GateInv, GateTypes
  <2> HIDE DEF s0
  <2>3. StrikesFor(c, s0)
    BY <1>7 DEF s0
  <2> QED
    BY <1>4, <1>5, <2>1, <2>2, <2>3, StrikesOne
<1>8. CASE ~allowed /\ Ends(c)
  <2>1. calls' = [calls EXCEPT ![c] = Idle]
    BY <1>8 DEF Ends
  <2>2. calls' \in [Callers -> Call]
    BY <2>1, IdleCall DEF GateInv, GateTypes
  <2> QED
    BY <1>4, <1>5, <2>1, <2>2, IdleCall, MovesAndCounts
<1> QED
  BY <1>1, <1>6, <1>7, <1>8

\* A layer's key is one of the counters.
LEMMA KeyKnown ==
  ASSUME GateInv, NEW c \in Callers, calls[c].at \in Layers
  PROVE  Key(calls[c]) \in Counters /\ Key(calls[c])[1] = calls[c].at
BY CallFacts DEF Key, Counters, Owner, Layers, Known, ContactLayers, NetworkLayers

LEMMA CountersKept ==
  ASSUME GateInv, UNCHANGED <<counter, admitted>>
  PROVE  /\ counter' \in [Counters -> Count] /\ admitted' \in [Counters -> Nat]
         /\ \A k \in Counters : Counted(k)'
BY DEF GateInv, GateTypes, Counted

LEMMA ConsumeUnavailableStep ==
  ASSUME GateInv, NEW c \in Callers, ConsumeUnavailable(c)
  PROVE  GateInv'
<1>1. UNCHANGED <<now, counter, strikes, ban, admitted, offences>> /\ calls[c].at \in Layers
  BY DEF ConsumeUnavailable, redis
<1>2. CASE Ends(c)
  BY <1>1, <1>2, EndsOne
<1>3. CASE Passes(c, After(calls[c]))
  BY <1>1, <1>3, PassesMoves, MovesOne
<1> QED
  BY <1>2, <1>3 DEF ConsumeUnavailable

LEMMA ConsumeCutStep ==
  ASSUME GateInv, NEW c \in Callers, ConsumeCut(c)
  PROVE  GateInv'
<1>1. UNCHANGED <<now, counter, strikes, ban, admitted>> /\ calls[c].at \in Layers
  BY DEF ConsumeCut, redis
<1>2. CASE Decide(c, calls[c].counted = "within")
  BY <1>1, <1>2, CountersKept, DecideStep
<1>3. CASE Goes(c, calls[c].at) /\ UNCHANGED offences
  <2>1. calls[c].at \in Steps \ {"strike", "ban", "contactBan", "lineBan", "spam", "spamFirst",
                                 "spamCount", "ipBan", "auth", "touch"}
    BY <1>1 DEF Steps, Layers, ContactLayers, NetworkLayers
  <2>2. Known(calls[c])
    BY CallFacts
  <2> QED
    BY <1>1, <1>3, <2>1, <2>2, GoesOn DEF Known
<1> QED
  BY <1>2, <1>3 DEF ConsumeCut

\* A window counts the call when it decides.
LEMMA CountCallStep ==
  ASSUME GateInv, NEW c \in Callers, CountCall(c)
  PROVE  GateInv'
<1> DEFINE call == calls[c]
           key == Key(call)
           n == counter[key].count + 1
           within == n <= Limit[call.at]
           y == [call EXCEPT !.counted = IF within THEN "within" ELSE "over"]
<1>1. /\ counter' = [counter EXCEPT ![key].count = n]
      /\ admitted' = [admitted EXCEPT ![key] = IF within THEN @ + 1 ELSE @]
      /\ calls' = [calls EXCEPT ![c] = y]
      /\ call.at \in Layers /\ UNCHANGED <<now, strikes, ban, offences>>
  BY CallFacts DEF CountCall, Call
<1>2. call \in Call /\ Known(call)
  BY CallFacts
<1>3. key \in Counters /\ key[1] = call.at
  BY <1>1, KeyKnown
<1>4. counter[key] \in Count /\ counter[key].count \in Nat /\ n \in Nat
  BY <1>3 DEF GateInv, GateTypes, Count
<1>5. y \in Call /\ Known(y) /\ y.at \notin {"strike", "ban"}
  <2>1. y \in Call /\ y.at = call.at /\ y.who = call.who /\ y.kind = call.kind
        /\ y.struck = call.struck
    BY <1>2 DEF Call
  <2> HIDE DEF y
  <2> QED
    BY <1>1, <1>2, <2>1 DEF Known, OfAGuest, Layers, ContactLayers, NetworkLayers
<1> HIDE DEF call, key, n, y
<1>6. offences' \in [Subjects -> Nat] /\ \A s \in Subjects : offences'[s] >= offences[s]
  BY <1>1 DEF GateInv, GateTypes
<1>7. \A k \in Counters : Counted(k)'
  <2> SUFFICES ASSUME NEW k \in Counters PROVE Counted(k)'
    OBVIOUS
  <2>1. /\ admitted[k] <= counter[k].count /\ admitted[k] <= Limit[k[1]]
        /\ admitted[k] \in Nat /\ counter[k].count \in Nat
    BY DEF GateInv, Counted, GateTypes, Count
  <2>2. /\ counter'[k].count = IF k = key THEN n ELSE counter[k].count
        /\ admitted'[k] = IF k = key /\ within THEN admitted[k] + 1 ELSE admitted[k]
    BY <1>1, <1>3, <1>4 DEF GateInv, GateTypes, Count
  <2>3. Limit[call.at] \in Nat
    BY <1>1, GateAssumption
  <2>4. n = counter[key].count + 1
    BY DEF n
  <2> QED
    BY <1>3, <1>4, <2>1, <2>2, <2>3, <2>4 DEF Counted
<1>8. GateTypes'
  <2>1. counter' \in [Counters -> Count]
    BY <1>1, <1>3, <1>4 DEF GateInv, GateTypes, Count
  <2>2. admitted' \in [Counters -> Nat]
    BY <1>1, <1>3 DEF GateInv, GateTypes
  <2> QED
    BY <1>1, <1>5, <1>6, <2>1, <2>2 DEF GateInv, GateTypes
<1> QED
  BY <1>1, <1>5, <1>6, <1>7, <1>8, MovesAndCounts

\* ... and gets its end with the answer.
LEMMA OpenedFacts ==
  ASSUME GateInv, NEW row \in Count, NEW window \in Nat \ {0}
  PROVE  /\ Opened(row, window) \in Count /\ Opened(row, window).count = row.count
         /\ row.ends <= now + window => Opened(row, window).ends <= now + window
         /\ row.count > 0 => Opened(row, window).ends # 0
<1>1. now \in Nat
  BY DEF GateInv, GateTypes
<1>2. CASE row.count > 0 /\ row.ends = 0
  <2>1. Opened(row, window) = [row EXCEPT !.ends = now + window]
    BY <1>2 DEF Opened
  <2> QED
    BY <1>1, <2>1 DEF Count
<1>3. CASE ~(row.count > 0 /\ row.ends = 0)
  <2>1. Opened(row, window) = row
    BY <1>3 DEF Opened
  <2> QED
    BY <1>3, <2>1 DEF Count
<1> QED
  BY <1>2, <1>3

LEMMA ConsumeStep ==
  ASSUME GateInv, NEW c \in Callers, Consume(c)
  PROVE  GateInv'
<1> DEFINE call == calls[c]
           key == Key(call)
           row == Opened(counter[key], Window[call.at])
<1>1. /\ counter' = [counter EXCEPT ![key] = row]
      /\ call.at \in Layers /\ Decide(c, call.counted = "within")
      /\ UNCHANGED <<now, strikes, ban, admitted>>
  BY DEF Consume
<1>2. key \in Counters /\ key[1] = call.at
  BY <1>1, KeyKnown
<1>3. row \in Count /\ row.count = counter[key].count
  BY <1>1, <1>2, OpenedFacts, GateAssumption DEF GateInv, GateTypes
<1> HIDE DEF call, key, row
<1>4. counter' \in [Counters -> Count] /\ admitted' \in [Counters -> Nat]
  BY <1>1, <1>3 DEF GateInv, GateTypes
<1>5. \A k \in Counters : Counted(k)'
  <2>1. \A k \in Counters : counter'[k].count = counter[k].count
    BY <1>1, <1>2, <1>3 DEF GateInv, GateTypes
  <2> QED
    BY <1>1, <2>1 DEF GateInv, Counted
<1>6. calls[c].at \in Layers /\ Decide(c, calls[c].counted = "within")
  BY <1>1 DEF call
<1> QED
  BY <1>1, <1>4, <1>5, <1>6, DecideStep

\* The strike is counted, and from the third on a ban is due.
LEMMA AddStrikeStep ==
  ASSUME GateInv, NEW c \in Callers, AddStrike(c)
  PROVE  GateInv'
<1> DEFINE s0 == calls[c].struck
           row == Increment(strikes[s0], StrikeWindow)
           y == IF redisUp /\ row.count >= 3
                THEN [calls[c] EXCEPT !.at = "ban", !.strike = row.count] ELSE Idle
<1>1. /\ calls[c].at = "strike" /\ UNCHANGED <<now, counter, ban, admitted, offences>>
      /\ strikes' = IF redisUp THEN [strikes EXCEPT ![s0] = row] ELSE strikes
      /\ calls' = [calls EXCEPT ![c] = y]
  BY CallFacts DEF AddStrike, At, Ends, history, Call
<1>2. calls[c] \in Call /\ s0 \in Subjects
  BY <1>1, CallFacts DEF Known
<1>3. row \in Count /\ row.count = strikes[s0].count + 1 /\ strikes[s0].count \in Nat
  BY <1>2, GateAssumption DEF Increment, Count, GateInv, GateTypes
<1>4. \/ y = Idle /\ y.at = "idle"
      \/ redisUp /\ row.count >= 3 /\ y.at = "ban" /\ y.strike = row.count /\ y.struck = s0
  BY <1>2, IdleCall DEF Call
<1>5. y \in Call /\ Known(y)
  BY <1>2, <1>3, <1>4, IdleCall DEF Call, Steps, Known, ContactLayers, Count
<1> HIDE DEF s0, row, y
<1>6. ASSUME NEW s \in Subjects
      PROVE  /\ offences[s] \in Nat /\ strikes[s].count \in Nat /\ strikes'[s].count \in Nat
             /\ Cardinality(Striking(s)) \in Nat /\ Cardinality(Striking(s)') \in Nat
             /\ strikes[s].count + Cardinality(Striking(s)) <= offences[s]
             /\ Cardinality(Striking(s)') <= Cardinality(Striking(s))
             /\ s = s0 => Cardinality(Striking(s)') = Cardinality(Striking(s)) - 1
             /\ s # s0 => strikes'[s] = strikes[s]
             /\ strikes'[s].count <= strikes[s].count + 1
  <2>1. /\ Cardinality(Striking(s)') \in Nat
        /\ Cardinality(Striking(s)') <= Cardinality(Striking(s))
        /\ s = s0 => Cardinality(Striking(s)') = Cardinality(Striking(s)) - 1
    BY <1>1, <1>4, <1>5, StrikingMoves DEF GateInv, s0
  <2>2. /\ strikes[s].count + Cardinality(Striking(s)) <= offences[s]
        /\ offences[s] \in Nat /\ strikes[s].count \in Nat /\ Cardinality(Striking(s)) \in Nat
    BY StrikingFinite DEF GateInv, GateTypes, Earned, Count
  <2>3. /\ s # s0 => strikes'[s] = strikes[s]
        /\ strikes'[s] = row \/ strikes'[s] = strikes[s]
        /\ s = s0 => strikes[s].count + 1 = row.count
    BY <1>1, <1>3 DEF GateInv, GateTypes
  <2> QED
    BY <1>3, <2>1, <2>2, <2>3 DEF Count
<1>7. \A s \in Subjects : Earned(s)'
  <2> SUFFICES ASSUME NEW s \in Subjects PROVE Earned(s)'
    OBVIOUS
  <2>1. strikes'[s].count + Cardinality(Striking(s)') <= offences[s]
    BY <1>6
  <2>2. ban[s].kind = "strike" => offences[s] >= 3
    BY DEF GateInv, Earned
  <2> QED
    BY <1>1, <2>1, <2>2 DEF Earned
<1>8. \A d \in Callers : calls'[d] = IF d = c THEN y ELSE calls[d]
  BY <1>1 DEF GateInv, GateTypes
<1>9. \A d \in Callers : Known(calls'[d]) /\ Due(calls[d])'
  <2>1. \A d \in Callers : Known(calls[d]) /\ Due(calls[d])
    BY DEF GateInv
  <2>2. y.at = "ban" => y.strike >= 3 /\ offences[y.struck] >= 3
    <3> SUFFICES ASSUME y.at = "ban" PROVE y.strike >= 3 /\ offences[y.struck] >= 3
      OBVIOUS
    <3>1. row.count >= 3 /\ y.strike = row.count /\ y.struck = s0
      BY <1>4
    <3> QED
      BY <1>2, <1>3, <1>6, <3>1
  <2>3. \A d \in Callers : Known(calls'[d])
    BY <1>5, <1>8, <2>1
  <2>4. offences' = offences
    BY <1>1
  <2> QED
    BY <1>8, <2>1, <2>2, <2>3, <2>4 DEF Due
<1>10. GateTypes'
  BY <1>1, <1>2, <1>3, <1>5 DEF GateInv, GateTypes
<1>11. \A k \in Counters : Counted(k)'
  BY <1>1 DEF GateInv, Counted
<1> QED
  BY <1>7, <1>9, <1>10, <1>11 DEF GateInv

\* A ban by strikes: the one it is for has three refusals of his own.
LEMMA BanTemporarilyStep ==
  ASSUME GateInv, NEW c \in Callers, BanTemporarily(c)
  PROVE  GateInv'
<1> DEFINE n == IF calls[c].strike > 5 THEN 5 ELSE calls[c].strike
           s0 == calls[c].struck
           b == [kind |-> "strike", ends |-> now + BanTicks[n]]
<1>1. /\ calls[c].at = "ban" /\ UNCHANGED <<now, counter, strikes, admitted, offences>>
      /\ ban' = IF redisUp THEN [ban EXCEPT ![s0] = b] ELSE ban
      /\ calls' = [calls EXCEPT ![c] = Idle]
  BY DEF BanTemporarily, At, Ends, history
<1>2. calls[c] \in Call /\ s0 \in Subjects /\ calls[c].strike >= 3 /\ offences[s0] >= 3
  BY <1>1, CallFacts DEF Known, Due
<1>3. n \in 3 .. 5 /\ b \in Ban /\ b.kind = "strike"
  <2>1. n \in 3 .. 5
    BY <1>2 DEF Call
  <2> HIDE DEF n
  <2>2. BanTicks[n] \in Nat
    BY <2>1, GateAssumption
  <2> QED
    BY <2>1, <2>2 DEF Ban, GateInv, GateTypes
<1> HIDE DEF n, s0, b
<1>4. \A d \in Callers : calls'[d] = IF d = c THEN Idle ELSE calls[d]
  BY <1>1 DEF GateInv, GateTypes
<1>5. \A d \in Callers : Known(calls'[d]) /\ Due(calls[d])'
  <2>1. \A d \in Callers : Known(calls[d]) /\ Due(calls[d])
    BY DEF GateInv
  <2> QED
    BY <1>1, <1>4, <2>1, IdleCall DEF Due
<1>6. ASSUME NEW s \in Subjects PROVE Earned(s)'
  <2>1. /\ Cardinality(Striking(s)') \in Nat
        /\ Cardinality(Striking(s)') <= Cardinality(Striking(s))
    BY <1>1, IdleCall, StrikingMoves DEF GateInv
  <2>2. /\ strikes[s].count + Cardinality(Striking(s)) <= offences[s]
        /\ ban[s].kind = "strike" => offences[s] >= 3
        /\ offences[s] \in Nat /\ strikes[s].count \in Nat /\ Cardinality(Striking(s)) \in Nat
    BY StrikingFinite DEF GateInv, GateTypes, Earned, Count
  <2>3. ban'[s] = ban[s] \/ s = s0
    BY <1>1 DEF GateInv, GateTypes
  <2>4. strikes'[s].count + Cardinality(Striking(s)') <= offences'[s]
    BY <1>1, <2>1, <2>2
  <2>5. ban'[s].kind = "strike" => offences'[s] >= 3
    BY <1>1, <1>2, <2>2, <2>3
  <2> QED
    BY <2>4, <2>5 DEF Earned
<1>7. GateTypes'
  BY <1>1, <1>2, <1>3, IdleCall DEF GateInv, GateTypes
<1>8. \A k \in Counters : Counted(k)'
  BY <1>1 DEF GateInv, Counted
<1> QED
  BY <1>5, <1>6, <1>7, <1>8 DEF GateInv

\* A step that leaves the calls alone and strikes nobody.
LEMMA ElsewhereStep ==
  ASSUME GateInv, GateTypes', \A k \in Counters : Counted(k)', UNCHANGED <<calls, offences>>,
         \A s \in Subjects : /\ strikes'[s].count <= strikes[s].count
                             /\ ban'[s].kind = "strike" => ban[s].kind = "strike"
  PROVE  GateInv'
<1>1. \A d \in Callers : Known(calls'[d]) /\ Due(calls[d])'
  BY DEF GateInv, Due
<1>2. ASSUME NEW s \in Subjects PROVE Earned(s)'
  <2>1. Striking(s)' = Striking(s) /\ Cardinality(Striking(s)) \in Nat
    BY StrikingFinite DEF Striking
  <2>2. /\ strikes[s].count + Cardinality(Striking(s)) <= offences[s]
        /\ ban[s].kind = "strike" => offences[s] >= 3
        /\ offences[s] \in Nat /\ strikes[s].count \in Nat
    BY DEF GateInv, GateTypes, Earned, Count
  <2>3. strikes'[s].count \in Nat
    BY DEF GateTypes, Count
  <2> QED
    BY <2>1, <2>2, <2>3 DEF Earned
<1> QED
  BY <1>1, <1>2 DEF GateInv
\* Time lets windows, strikes and bans expire; it adds none.
LEMMA TickStep ==
  ASSUME GateInv, Tick
  PROVE  GateInv'
<1>1. /\ now' = now + 1 /\ UNCHANGED <<calls, offences>>
      /\ counter' = [k \in Counters |-> Kept(counter[k], NoCount, now')]
      /\ strikes' = [s \in Subjects |-> Kept(strikes[s], NoCount, now')]
      /\ ban' = [s \in Subjects |-> Kept(ban[s], NotBanned, now')]
      /\ admitted' = [k \in Counters |-> IF counter'[k] = NoCount THEN 0 ELSE admitted[k]]
  BY DEF Tick
<1>2. \A row, absent : Kept(row, absent, now') \in {row, absent}
  BY DEF Kept
<1>3. \A k \in Counters : counter'[k] \in {counter[k], NoCount}
  BY <1>1, <1>2
<1>4. \A s \in Subjects : strikes'[s] \in {strikes[s], NoCount} /\ ban'[s] \in {ban[s], NotBanned}
  BY <1>1, <1>2
<1>5. NoCount \in Count /\ NoCount.count = 0 /\ NotBanned \in Ban /\ NotBanned.kind = "none"
  BY DEF NoCount, NotBanned, Count, Ban
<1>6. GateTypes'
  <2>1. now' \in Nat /\ calls' \in [Callers -> Call] /\ offences' \in [Subjects -> Nat]
    BY <1>1 DEF GateInv, GateTypes
  <2>2. counter' \in [Counters -> Count] /\ admitted' \in [Counters -> Nat]
    BY <1>1, <1>3, <1>5 DEF GateInv, GateTypes
  <2>3. strikes' \in [Subjects -> Count] /\ ban' \in [Subjects -> Ban]
    BY <1>1, <1>4, <1>5 DEF GateInv, GateTypes
  <2> QED
    BY <2>1, <2>2, <2>3 DEF GateTypes
<1>7. ASSUME NEW k \in Counters PROVE Counted(k)'
  <2>1. /\ admitted[k] <= counter[k].count /\ admitted[k] <= Limit[k[1]]
        /\ admitted[k] \in Nat /\ counter[k].count \in Nat
    BY DEF GateInv, Counted, GateTypes, Count
  <2>2. k[1] \in Layers /\ Limit[k[1]] \in Nat
    BY GateAssumption DEF Counters, Layers
  <2>3. \/ counter'[k] = NoCount /\ admitted'[k] = 0
        \/ counter'[k] = counter[k] /\ admitted'[k] = admitted[k]
    BY <1>1, <1>3
  <2> QED
    BY <1>5, <2>1, <2>2, <2>3 DEF Counted
<1>8. \A s \in Subjects : /\ strikes'[s].count <= strikes[s].count
                          /\ ban'[s].kind = "strike" => ban[s].kind = "strike"
  <2>1. \A s \in Subjects : strikes[s].count \in Nat
    BY DEF GateInv, GateTypes, Count
  <2> QED
    BY <1>4, <1>5, <2>1
<1> QED
  BY <1>1, <1>6, <1>7, <1>8, ElsewhereStep

LEMMA AdminBanStep ==
  ASSUME GateInv, NEW s0 \in Subjects, AdminBan(s0)
  PROVE  GateInv'
<1>1. PICK b \in {[kind |-> "admin", ends |-> now + BanTicks[3]],
                  [kind |-> "permanent", ends |-> 0]} : ban' = [ban EXCEPT ![s0] = b]
  BY DEF AdminBan
<1>2. b \in Ban /\ b.kind # "strike"
  BY GateAssumption DEF Ban, GateInv, GateTypes
<1>3. UNCHANGED <<now, counter, strikes, calls, admitted, offences>>
  BY DEF AdminBan, history
<1>4. GateTypes' /\ \A k \in Counters : Counted(k)'
  BY <1>1, <1>2, <1>3 DEF GateInv, GateTypes, Counted
<1>5. \A s \in Subjects : ban'[s].kind = "strike" => ban[s].kind = "strike"
  BY <1>1, <1>2 DEF GateInv, GateTypes
<1>6. \A s \in Subjects : strikes'[s].count <= strikes[s].count
  BY <1>3 DEF GateInv, GateTypes, Count
<1> QED
  BY <1>3, <1>4, <1>5, <1>6, ElsewhereStep

\* Spam and the sessions of one network: a refusal strikes.
LEMMA RefusalStep ==
  ASSUME GateInv, NEW c \in Callers, NEW s0 \in Subjects, StrikesFor(c, s0),
         offences' = [offences EXCEPT ![s0] = @ + 1],
         UNCHANGED <<now, counter, strikes, ban, admitted>>
  PROVE  GateInv'
<1>1. /\ offences' \in [Subjects -> Nat] /\ \A s \in Subjects : offences'[s] >= offences[s]
      /\ offences'[s0] >= offences[s0] + 1
  BY DEF GateInv, GateTypes
<1>2. calls' \in [Callers -> Call]
  <2> DEFINE y == [calls[c] EXCEPT !.at = "strike", !.counted = "no", !.struck = s0]
  <2>1. calls' = [calls EXCEPT ![c] = y] /\ y \in Call
    BY DEF StrikesFor, GateInv, GateTypes, Call, Steps
  <2> HIDE DEF y
  <2> QED
    BY <2>1 DEF GateInv, GateTypes
<1>3. GateTypes' /\ \A k \in Counters : Counted(k)'
  BY <1>1, <1>2 DEF GateInv, GateTypes, Counted
<1> QED
  BY <1>1, <1>3, StrikesOne

LEMMA SpamStep ==
  ASSUME GateInv, NEW c \in Callers,
         SpamCheck(c) \/ FirstCopy(c) \/ AnotherCopy(c) \/ CountSessions(c)
  PROVE  GateInv'
<1> USE CallFacts DEF At, redis, history
<1> USE DEF Steps, ContactLayers, Subjects
<1>1. CASE SpamCheck(c)
  BY <1>1, RefusalStep, EndsOne, GoesOn DEF SpamCheck, Known
<1>2. CASE FirstCopy(c)
  BY <1>2, EndsOne DEF FirstCopy
<1>3. CASE AnotherCopy(c)
  BY <1>3, RefusalStep, EndsOne DEF AnotherCopy, Known
<1>4. CASE CountSessions(c)
  BY <1>4, RefusalStep, GoesOn DEF CountSessions
<1> QED
  BY <1>1, <1>2, <1>3, <1>4

LEMMA StillStep ==
  ASSUME GateInv, UNCHANGED <<now, counter, strikes, ban, calls, admitted, offences>>
  PROVE  GateInv'
<1>1. GateTypes' /\ \A k \in Counters : Counted(k)'
  BY DEF GateInv, GateTypes, Counted
<1>2. \A s \in Subjects : strikes'[s].count <= strikes[s].count
  BY DEF GateInv, GateTypes, Count
<1> QED
  BY <1>1, <1>2, ElsewhereStep

LEMMA GateInvStep ==
  ASSUME GateInv, [GateNext]_gateVars
  PROVE  GateInv'
<1>1. CASE Tick
  BY <1>1, TickStep
<1>2. CASE RedisFails \/ RedisReturns \/ UNCHANGED gateVars
  BY <1>2, StillStep DEF RedisFails, RedisReturns, gateVars, redis, history
<1>3. ASSUME NEW s \in Subjects, AdminBan(s) PROVE GateInv'
  BY <1>3, AdminBanStep
<1>4. ASSUME NEW c \in Callers,
             \/ CreateSession(c) \/ WrongToken(c) \/ SendMessage(c) \/ ReadMessages(c) \/ Revoke(c)
             \/ LineEvent(c) \/ LineRetry(c) \/ AiCall(c) \/ Handles(c) \/ Dies(c)
      PROVE  GateInv'
  <2>1. CASE \/ CreateSession(c) \/ WrongToken(c) \/ SendMessage(c) \/ ReadMessages(c) \/ Revoke(c)
             \/ LineEvent(c) \/ LineRetry(c) \/ AiCall(c)
    BY <2>1, NewCallStep
  <2>2. CASE \/ AssertIpAllowed(c) \/ AssertContactNotBanned(c) \/ IsBanned(c)
             \/ InsertSession(c) \/ Authenticate(c) \/ Touch(c) \/ RevokeSession(c)
    BY <2>2, CheckStep
  <2>3. CASE CountCall(c) \/ Consume(c)
    BY <2>3, CountCallStep, ConsumeStep
  <2>4. CASE ConsumeCut(c) \/ ConsumeUnavailable(c)
    BY <2>4, ConsumeCutStep, ConsumeUnavailableStep
  <2>5. CASE AddStrike(c)
    BY <2>5, AddStrikeStep
  <2>6. CASE BanTemporarily(c)
    BY <2>6, BanTemporarilyStep
  <2>7. CASE SpamCheck(c) \/ FirstCopy(c) \/ AnotherCopy(c) \/ CountSessions(c)
    BY <2>7, SpamStep
  <2>8. CASE Dies(c)
    BY <2>8, EndsOne DEF Dies, redis, history
  <2> QED
    BY <1>4, <2>1, <2>2, <2>3, <2>4, <2>5, <2>6, <2>7, <2>8 DEF Handles
<1> QED
  BY <1>1, <1>2, <1>3, <1>4 DEF GateNext

LEMMA GateInvInit == GateInit => GateInv
<1> SUFFICES ASSUME GateInit PROVE GateInv
  OBVIOUS
<1>1. GateTypes
  BY GateAssumption, IdleCall DEF GateInit, GateTypes, Count, Ban, NoCount, NotBanned
<1>2. \A c \in Callers : Known(calls[c]) /\ Due(calls[c])
  BY IdleCall DEF GateInit, Due
<1>3. \A k \in Counters : Counted(k)
  <2>1. \A k \in Counters : k[1] \in Layers
    BY DEF Counters, Layers
  <2> QED
    BY <2>1, GateAssumption DEF GateInit, Counted, NoCount
<1>4. ASSUME NEW s \in Subjects PROVE Earned(s)
  <2>1. Striking(s) = {}
    BY IdleCall DEF GateInit, Striking
  <2>2. Cardinality(Striking(s)) = 0
    BY <2>1, FS_EmptySet
  <2>3. strikes[s].count = EarlierStrikes /\ offences[s] = EarlierStrikes
        /\ ban[s].kind = "none" /\ EarlierStrikes \in Nat
    BY GateAssumption DEF GateInit, NoCount, NotBanned
  <2> QED
    BY <2>2, <2>3 DEF Earned
<1> QED
  BY <1>1, <1>2, <1>3, <1>4 DEF GateInv

\* However the calls interleave, whenever Redis goes away and whichever call
\* dies, a window counts every call before it lets it past and every strike on
\* its way belongs to a refusal (rate-limit.service.ts, app-abuse.service.ts).
THEOREM GateInvariance == GateSpec => []GateInv
BY GateInvInit, GateInvStep, PTL DEF GateSpec

\* A counter without an end is waiting for one.
Underway(k) == \E c \in Callers : calls[c].counted # "no" /\ Key(calls[c]) = k
Mended(k) ==
  /\ counter[k].ends <= now + Window[k[1]]
  /\ counter[k].count > 0 /\ counter[k].ends = 0 => k \in cut \/ Underway(k)
EndInv ==
  /\ \A c \in Callers : calls[c].counted # "no" => calls[c].at \in Layers
  /\ \A k \in Counters : Mended(k)

\* A call that moves and leaves the counters alone.
LEMMA EndKept ==
  ASSUME GateInv, EndInv, NEW c \in Callers, NEW y, y.counted = "no",
         calls' = [calls EXCEPT ![c] = y], Severed(c) \subseteq cut',
         UNCHANGED <<now, counter>>
  PROVE  EndInv'
<1>1. \A d \in Callers : calls'[d] = IF d = c THEN y ELSE calls[d]
  BY DEF GateInv, GateTypes
<1>2. ASSUME NEW k \in Counters PROVE Mended(k)'
  <2>1. Mended(k) /\ cut \subseteq cut'
    BY DEF EndInv, Severed
  <2>2. ASSUME counter[k].count > 0, counter[k].ends = 0, Underway(k)
        PROVE  k \in cut' \/ Underway(k)'
    <3>1. PICK d \in Callers : calls[d].counted # "no" /\ Key(calls[d]) = k
      BY <2>2 DEF Underway
    <3>2. CASE d = c
      BY <2>2, <3>1, <3>2 DEF Severed
    <3>3. CASE d # c
      BY <1>1, <3>1, <3>3 DEF Underway, Key
    <3> QED
      BY <3>2, <3>3
  <2> QED
    BY <2>1, <2>2 DEF Mended
<1> QED
  BY <1>1, <1>2 DEF EndInv

\* What is not at a layer has nothing to leave behind.
LEMMA NothingSevered ==
  ASSUME EndInv, NEW c \in Callers, calls[c].at \notin Layers
  PROVE  Severed(c) = cut
BY DEF EndInv, Severed

\* The ways in which a call moves.
LEMMA MovesClean ==
  ASSUME GateInv, EndInv, NEW c \in Callers, Severed(c) \subseteq cut', UNCHANGED <<now, counter>>,
         \/ Ends(c) \/ \E step : Goes(c, step) \/ Passes(c, step) \/ \E s : StrikesFor(c, s)
  PROVE  EndInv'
<1>1. calls[c] \in Call
  BY CallFacts
<1>2. CASE Ends(c)
  <2>1. calls' = [calls EXCEPT ![c] = Idle] /\ Idle.counted = "no"
    BY <1>2 DEF Ends, Idle
  <2> QED
    BY <2>1, EndKept
<1>3. ASSUME NEW step, Goes(c, step) PROVE EndInv'
  <2> DEFINE y == [calls[c] EXCEPT !.at = step, !.counted = "no"]
  <2>1. calls' = [calls EXCEPT ![c] = y] /\ y.counted = "no"
    BY <1>1, <1>3 DEF Goes, Call
  <2> HIDE DEF y
  <2> QED
    BY <2>1, EndKept
<1>4. ASSUME NEW s, StrikesFor(c, s) PROVE EndInv'
  <2> DEFINE y == [calls[c] EXCEPT !.at = "strike", !.counted = "no", !.struck = s]
  <2>1. calls' = [calls EXCEPT ![c] = y] /\ y.counted = "no"
    BY <1>1, <1>4 DEF StrikesFor, Call
  <2> HIDE DEF y
  <2> QED
    BY <2>1, EndKept
<1> QED
  BY <1>2, <1>3, <1>4 DEF Passes

LEMMA EndNewCall ==
  ASSUME GateInv, EndInv, NEW c \in Callers, NEW kind, NEW who, NEW text, NEW step,
         Arrives(c, kind, who, text, step)
  PROVE  EndInv'
<1> DEFINE y == [Idle EXCEPT !.kind = kind, !.who = who, !.text = text, !.at = step]
<1>1. calls' = [calls EXCEPT ![c] = y] /\ y.counted = "no"
  BY DEF Arrives, Idle
<1>2. calls[c].counted = "no" /\ UNCHANGED <<now, counter, cut>>
  BY DEF Arrives, Idle, redis, history
<1> HIDE DEF y
<1> QED
  BY <1>1, <1>2, EndKept DEF Severed

\* Steps at no layer, and steps of calls that break off.
LEMMA EndMoves ==
  ASSUME GateInv, EndInv, NEW c \in Callers,
         \/ AssertIpAllowed(c) \/ AssertContactNotBanned(c) \/ IsBanned(c)
         \/ InsertSession(c) \/ Authenticate(c) \/ Touch(c) \/ RevokeSession(c)
         \/ SpamCheck(c) \/ FirstCopy(c) \/ AnotherCopy(c) \/ CountSessions(c)
         \/ AddStrike(c) \/ BanTemporarily(c)
  PROVE  EndInv'
<1>1. calls[c].at \notin Layers
  BY DEF AssertIpAllowed, AssertContactNotBanned, IsBanned, InsertSession, Authenticate, Touch,
         RevokeSession, SpamCheck, FirstCopy, AnotherCopy, CountSessions, AddStrike,
         BanTemporarily, At, Layers, ContactLayers, NetworkLayers
<1>2. Severed(c) = cut
  BY <1>1, NothingSevered
<1> USE DEF redis, history
<1>3. CASE AssertIpAllowed(c) \/ AssertContactNotBanned(c) \/ IsBanned(c)
  BY <1>2, <1>3, MovesClean DEF AssertIpAllowed, AssertContactNotBanned, IsBanned
<1>4. CASE InsertSession(c) \/ Authenticate(c) \/ Touch(c) \/ RevokeSession(c)
  BY <1>2, <1>4, MovesClean DEF InsertSession, Authenticate, Touch, RevokeSession
<1>5. CASE SpamCheck(c) \/ FirstCopy(c)
  BY <1>2, <1>5, MovesClean DEF SpamCheck, FirstCopy
<1>6. CASE AnotherCopy(c) \/ CountSessions(c)
  BY <1>2, <1>6, MovesClean DEF AnotherCopy, CountSessions
<1>7. CASE BanTemporarily(c)
  BY <1>2, <1>7, MovesClean DEF BanTemporarily
<1>8. CASE AddStrike(c)
  <2>1. CASE Ends(c)
    BY <1>2, <1>8, <2>1, MovesClean DEF AddStrike
  <2>2. ASSUME NEW n, calls' = [calls EXCEPT ![c].at = "ban", ![c].strike = n] PROVE EndInv'
    <3> DEFINE y == [calls[c] EXCEPT !.at = "ban", !.strike = n]
    <3>1. calls[c].counted = "no"
      BY <1>1 DEF EndInv
    <3>2. calls' = [calls EXCEPT ![c] = y] /\ y.counted = "no"
      BY <2>2, <3>1, CallFacts DEF Call
    <3> HIDE DEF y
    <3> QED
      BY <1>2, <1>8, <3>2, EndKept DEF AddStrike
  <2> QED
    BY <1>8, <2>1, <2>2 DEF AddStrike
<1> QED
  BY <1>3, <1>4, <1>5, <1>6, <1>7, <1>8

\* The two commands of consume.
LEMMA EndCountCall ==
  ASSUME GateInv, EndInv, NEW c \in Callers, CountCall(c)
  PROVE  EndInv'
<1> DEFINE key == Key(calls[c])
           n == counter[key].count + 1
           y == [calls[c] EXCEPT !.counted = IF n <= Limit[calls[c].at] THEN "within" ELSE "over"]
<1>1. /\ counter' = [counter EXCEPT ![key].count = n] /\ calls' = [calls EXCEPT ![c] = y]
      /\ calls[c].at \in Layers /\ calls[c].counted = "no" /\ UNCHANGED <<now, cut>>
  BY CallFacts DEF CountCall, Call
<1>2. y.counted # "no" /\ y.at = calls[c].at /\ Key(y) = key
  BY CallFacts DEF Call, Key
<1>3. key \in Counters
  BY <1>1, KeyKnown
<1> HIDE DEF key, n, y
<1>4. \A d \in Callers : calls'[d] = IF d = c THEN y ELSE calls[d]
  BY <1>1 DEF GateInv, GateTypes
<1>5. ASSUME NEW k \in Counters PROVE Mended(k)'
  <2>1. Mended(k) /\ counter'[k].ends = counter[k].ends
        /\ (k # key => counter'[k] = counter[k])
    BY <1>1 DEF EndInv, GateInv, GateTypes, Count
  <2>2. Underway(k) \/ k = key => Underway(k)'
    BY <1>1, <1>2, <1>4 DEF Underway, Key
  <2> QED
    BY <1>1, <2>1, <2>2 DEF Mended
<1> QED
  BY <1>1, <1>2, <1>4, <1>5 DEF EndInv

LEMMA EndConsume ==
  ASSUME GateInv, EndInv, NEW c \in Callers, Consume(c)
  PROVE  EndInv'
<1> DEFINE key == Key(calls[c])
           row == Opened(counter[key], Window[calls[c].at])
<1>1. /\ counter' = [counter EXCEPT ![key] = row] /\ cut' = cut \ {key}
      /\ calls[c].at \in Layers /\ Decide(c, calls[c].counted = "within") /\ now' = now
  BY DEF Consume
<1>2. key \in Counters /\ key[1] = calls[c].at
  BY <1>1, KeyKnown
<1>3. PICK y : calls' = [calls EXCEPT ![c] = y] /\ y.counted = "no"
  <2>1. calls[c] \in Call
    BY CallFacts
  <2>2. ASSUME NEW step, Goes(c, step)
        PROVE  \E y : calls' = [calls EXCEPT ![c] = y] /\ y.counted = "no"
    <3>1. calls' = [calls EXCEPT ![c] = [calls[c] EXCEPT !.at = step, !.counted = "no"]]
      BY <2>1, <2>2 DEF Goes, Call
    <3>2. [calls[c] EXCEPT !.at = step, !.counted = "no"].counted = "no"
      BY <2>1 DEF Call
    <3> QED
      BY <3>1, <3>2
  <2>3. ASSUME NEW s, StrikesFor(c, s)
        PROVE  \E y : calls' = [calls EXCEPT ![c] = y] /\ y.counted = "no"
    <3>1. calls' = [calls EXCEPT ![c] = [calls[c] EXCEPT !.at = "strike", !.counted = "no",
                                                         !.struck = s]]
      BY <2>1, <2>3 DEF StrikesFor, Call
    <3>2. [calls[c] EXCEPT !.at = "strike", !.counted = "no", !.struck = s].counted = "no"
      BY <2>1 DEF Call
    <3> QED
      BY <3>1, <3>2
  <2>4. ASSUME Ends(c) PROVE \E y : calls' = [calls EXCEPT ![c] = y] /\ y.counted = "no"
    <3>1. calls' = [calls EXCEPT ![c] = Idle] /\ Idle.counted = "no"
      BY <2>4 DEF Ends, Idle
    <3> QED
      BY <3>1
  <2>5. \/ \E step : Goes(c, step)
        \/ \E s : StrikesFor(c, s)
        \/ Ends(c)
    BY Zenon, <1>1 DEF Decide, Passes
  <2> QED
    BY Zenon, <2>2, <2>3, <2>4, <2>5
<1>4. \A d \in Callers : calls'[d] = IF d = c THEN y ELSE calls[d]
  BY <1>3 DEF GateInv, GateTypes
<1>5. counter[key] \in Count /\ Window[calls[c].at] \in Nat \ {0}
      /\ counter[key].ends <= now + Window[calls[c].at]
  BY <1>1, <1>2, GateAssumption DEF GateInv, GateTypes, EndInv, Mended
<1>6. row \in Count /\ row.count = counter[key].count /\ row.ends <= now + Window[calls[c].at]
      /\ (row.count > 0 => row.ends # 0)
  BY <1>5, OpenedFacts
<1> HIDE DEF key, row
<1>7. ASSUME NEW k \in Counters PROVE Mended(k)'
  <2>1. CASE k = key
    <3>1. counter'[k] = row
      BY <1>1, <2>1 DEF GateInv, GateTypes
    <3> QED
      BY <1>1, <1>2, <1>6, <2>1, <3>1 DEF Mended
  <2>2. CASE k # key
    <3>1. counter'[k] = counter[k] /\ Mended(k) /\ (k \in cut' <=> k \in cut)
      BY <1>1, <2>2 DEF EndInv, GateInv, GateTypes
    <3>2. Underway(k) => Underway(k)'
      <4>1. ASSUME NEW d \in Callers, calls[d].counted # "no", Key(calls[d]) = k
            PROVE  calls'[d] = calls[d]
        BY <1>4, <2>2, <4>1 DEF key
      <4> QED
        BY <4>1 DEF Underway, Key
    <3> QED
      BY <1>1, <3>1, <3>2 DEF Mended
  <2> QED
    BY <2>1, <2>2
<1> QED
  BY <1>3, <1>4, <1>7 DEF EndInv

\* Nothing happens to the calls, or time passes.
LEMMA EndStill ==
  ASSUME GateInv, EndInv, UNCHANGED <<now, counter, calls, cut>>
  PROVE  EndInv'
BY DEF EndInv, Mended, Underway, Key

LEMMA EndTick ==
  ASSUME GateInv, EndInv, Tick
  PROVE  EndInv'
<1>1. /\ now' = now + 1 /\ UNCHANGED <<calls, cut>> /\ now \in Nat
      /\ \A k \in Counters : counter'[k] \in {counter[k], NoCount}
  BY DEF Tick, Kept, GateInv, GateTypes
<1>2. ASSUME NEW k \in Counters PROVE Mended(k)'
  <2>1. Mended(k) /\ counter[k].ends \in Nat /\ Window[k[1]] \in Nat
    BY GateAssumption DEF EndInv, GateInv, GateTypes, Count, Counters, Layers
  <2>2. Underway(k)' <=> Underway(k)
    BY <1>1 DEF Underway, Key
  <2> QED
    BY <1>1, <2>1, <2>2 DEF Mended, NoCount
<1> QED
  BY <1>1, <1>2 DEF EndInv

LEMMA EndInvStep ==
  ASSUME GateInv, EndInv, [GateNext]_gateVars
  PROVE  EndInv'
<1>1. CASE Tick
  BY <1>1, EndTick
<1>2. CASE RedisFails \/ RedisReturns \/ UNCHANGED gateVars \/ \E s \in Subjects : AdminBan(s)
  BY <1>2, EndStill DEF RedisFails, RedisReturns, AdminBan, gateVars, redis, history
<1>3. ASSUME NEW c \in Callers,
             \/ CreateSession(c) \/ WrongToken(c) \/ SendMessage(c) \/ ReadMessages(c) \/ Revoke(c)
             \/ LineEvent(c) \/ LineRetry(c) \/ AiCall(c) \/ Handles(c) \/ Dies(c)
      PROVE  EndInv'
  <2>1. CASE \/ CreateSession(c) \/ WrongToken(c) \/ SendMessage(c) \/ ReadMessages(c) \/ Revoke(c)
             \/ LineEvent(c) \/ LineRetry(c) \/ AiCall(c)
    BY <2>1, EndNewCall DEF CreateSession, WrongToken, SendMessage, ReadMessages, Revoke,
                            LineEvent, LineRetry, AiCall
  <2>2. CASE CountCall(c) \/ Consume(c)
    BY <2>2, EndCountCall, EndConsume
  <2>3. CASE ConsumeCut(c)
    BY <2>3, MovesClean DEF ConsumeCut, Decide, redis
  <2>4. CASE ConsumeUnavailable(c) \/ Dies(c)
    BY <2>4, MovesClean DEF ConsumeUnavailable, Dies, redis
  <2> QED
    BY <1>3, <2>1, <2>2, <2>3, <2>4, EndMoves DEF Handles
<1> QED
  BY <1>1, <1>2, <1>3 DEF GateNext

LEMMA EndInvInit == GateInit => EndInv
<1> SUFFICES ASSUME GateInit PROVE EndInv
  OBVIOUS
<1>1. \A k \in Counters : Mended(k)
  BY GateAssumption DEF GateInit, Mended, NoCount, Counters, Layers
<1> QED
  BY <1>1 DEF GateInit, EndInv, Idle

\* Every window counts and ends: of the calls it counted no more than the limit get past,
\* and a counter without an end is one that a call is about to mend, or whose pipeline was
\* cut, until the next call is answered (rate-limit.service.ts).
THEOREM WindowsTheorem == GateSpec => []WindowsHold
<1>1. EndInv /\ GateInv /\ [GateNext]_gateVars => EndInv'
  BY EndInvStep
<1>2. GateInv /\ EndInv => WindowsHold
  BY DEF GateInv, Counted, EndInv, Mended, Underway, WindowsHold
<1> QED
  BY <1>1, <1>2, EndInvInit, GateInvariance, PTL DEF GateSpec

\* Nobody is struck for another's refusals, nor banned by strikes before three
\* refusals of his own.
THEOREM BansTheorem == GateSpec => []BansAreEarned
<1>1. ASSUME GateInv PROVE BansAreEarned
  <2> SUFFICES ASSUME NEW s \in Subjects
               PROVE  /\ strikes[s].count <= offences[s]
                      /\ ban[s].kind = "strike" => offences[s] >= 3
    BY DEF BansAreEarned
  <2>1. Cardinality(Striking(s)) \in Nat /\ strikes[s].count \in Nat /\ offences[s] \in Nat
    BY <1>1, StrikingFinite DEF GateInv, GateTypes, Count
  <2> QED
    BY <1>1, <2>1 DEF GateInv, Earned
<1> QED
  BY <1>1, GateInvariance, PTL

-----------------------------------------------------------------------------
(* The catalog.                                                             *)

ProductRow(row) == {"status", "revision"} \subseteq DOMAIN row /\ row.revision \in Nat

\* At most one balance, which is what the movements sum up to.
VariantRow(row, sum) ==
  /\ {"of", "active", "version", "trackStock", "meta", "balance"} \subseteq DOMAIN row
  /\ row.balance \subseteq [onHand : Int, reserved : Int, version : Nat]
  /\ \A a, b \in row.balance : a = b /\ a.onHand = sum /\ a.onHand >= a.reserved
  /\ row.balance = {} => sum = 0
  /\ row.of = None => row.balance = {}

Tables(catalog) ==
  /\ {"product", "variant", "business"} \subseteq DOMAIN catalog
  /\ DOMAIN catalog.product = Products /\ DOMAIN catalog.variant = Variants

\* Variants belong to products that exist; one on sale has something to sell.
Linked(catalog) == \A v \in Variants :
  catalog.variant[v].of # None => /\ catalog.variant[v].of \in Products
                                  /\ catalog.product[catalog.variant[v].of].status # "NONE"
OnSale(catalog) == \A p \in Listed(catalog) : ActiveVariants(catalog, p) # {}

Sound(catalog, sums) ==
  /\ Tables(catalog) /\ Linked(catalog) /\ OnSale(catalog)
  /\ sums \in [Variants -> Int]
  /\ \A p \in Products : ProductRow(catalog.product[p])
  /\ \A v \in Variants : VariantRow(catalog.variant[v], sums[v])

\* A catalog that differs from the store at most in one product and one variant.
OnlyAt(catalog, p, v) ==
  /\ Tables(catalog)
  /\ \A r \in Products \ {p} : catalog.product[r] = store.product[r]
  /\ \A r \in Variants \ {v} : catalog.variant[r] = store.variant[r]

\* What a command may leave: the product exists, the variant is of no other
\* product, and there is something to sell.
Keeps(q, sum) ==
  LET old == store.product[q.product]   was == store.variant[q.variant]
      new == Done(q).product[q.product] is == Done(q).variant[q.variant]
  IN  /\ OnlyAt(Done(q), q.product, q.variant)
      /\ ProductRow(new) /\ new.status # "NONE"
      /\ VariantRow(is, sum)
      /\ (was.of \in {None, q.product} /\ is.of = q.product) \/ is = was
      /\ new.status = "ACTIVE" => ActiveVariants(Done(q), q.product) # {}
      /\ old.status # "NONE" => new.revision >= old.revision
      /\ q.action \in Edits => /\ old.status # "NONE" /\ old.revision = q.view.revision
                               /\ new.revision = old.revision + 1

Summed(q) == IF q.action = "ADJUST_STOCK" THEN moved[q.variant] + q.fields.delta
             ELSE moved[q.variant]

LEMMA KeepsSound ==
  ASSUME Sound(store, moved), NEW q, q.product \in Products, q.variant \in Variants,
         NEW sum \in Int, Keeps(q, sum)
  PROVE  Sound(Done(q), [moved EXCEPT ![q.variant] = sum])
<1> DEFINE p == q.product
           v == q.variant
           cat == Done(q)
           sums == [moved EXCEPT ![v] = sum]
<1>1. /\ Tables(cat) /\ ProductRow(cat.product[p]) /\ cat.product[p].status # "NONE"
      /\ VariantRow(cat.variant[v], sum)
      /\ cat.product[p].status = "ACTIVE" => ActiveVariants(cat, p) # {}
      /\ \A r \in Products \ {p} : cat.product[r] = store.product[r]
      /\ \A r \in Variants \ {v} : cat.variant[r] = store.variant[r]
  BY DEF Keeps, OnlyAt
<1>2. \/ store.variant[v].of \in {None, p} /\ cat.variant[v].of = p
      \/ cat.variant[v] = store.variant[v]
  BY DEF Keeps
<1>3. sums \in [Variants -> Int] /\ sums[v] = sum /\ \A r \in Variants \ {v} : sums[r] = moved[r]
  BY DEF Sound
<1>4. p \in Products /\ v \in Variants
  OBVIOUS
<1> HIDE DEF p, v, cat, sums
<1>5. \A r \in Products : ProductRow(cat.product[r])
  BY <1>1 DEF Sound
<1>6. \A r \in Variants : VariantRow(cat.variant[r], sums[r])
  BY <1>1, <1>3 DEF Sound
<1>7. Linked(cat)
  <2> SUFFICES ASSUME NEW r \in Variants, cat.variant[r].of # None
               PROVE  /\ cat.variant[r].of \in Products
                      /\ cat.product[cat.variant[r].of].status # "NONE"
    BY DEF Linked
  <2>1. CASE r = v /\ cat.variant[v].of = p
    BY <1>1, <1>4, <2>1
  <2>2. CASE cat.variant[r] = store.variant[r]
    BY <1>1, <2>2 DEF Sound, Linked
  <2> QED
    BY <1>1, <1>2, <2>1, <2>2
<1>8. OnSale(cat)
  <2> SUFFICES ASSUME NEW r \in Products, cat.product[r].status = "ACTIVE"
               PROVE  ActiveVariants(cat, r) # {}
    BY DEF OnSale, Listed
  <2>1. CASE r = p
    BY <1>1, <2>1
  <2>2. CASE r # p
    <3>1. ActiveVariants(store, r) # {}
      BY <1>1, <2>2 DEF Sound, OnSale, Listed
    <3>2. PICK u \in Variants : store.variant[u].of = r /\ store.variant[u].active
      BY <3>1 DEF ActiveVariants, VariantsOf
    <3>3. u = v => cat.variant[v] = store.variant[v] \/ r = None
      BY <1>2, <2>2, <3>2
    <3>4. r # None
      BY CatalogAssumption
    <3>5. cat.variant[u] = store.variant[u]
      BY <1>1, <3>3, <3>4
    <3> QED
      BY <3>2, <3>5 DEF ActiveVariants, VariantsOf
  <2> QED
    BY <2>1, <2>2
<1>9. Sound(cat, sums)
  BY <1>1, <1>3, <1>5, <1>6, <1>7, <1>8 DEF Sound
<1> QED
  BY Zenon, <1>9 DEF cat, sums, v

LEMMA BalanceFacts ==
  ASSUME NEW row, row.balance = IF row.trackStock THEN NewBalance ELSE {},
         row.of # None,
         {"of", "active", "version", "trackStock", "meta", "balance"} \subseteq DOMAIN row
  PROVE  VariantRow(row, 0)
BY DEF VariantRow, NewBalance

LEMMA CreateProductKeeps ==
  ASSUME Sound(store, moved), NEW q, WellFormed(q), q.action = "CREATE_PRODUCT",
         CanCreateProduct(q)
  PROVE  Keeps(q, moved[q.variant])
<1> DEFINE p == q.product
           v == q.variant
           x == q.product_fields
           y == NewVariant(p, q.fields)
           cat == CreateProduct(q)
<1>1. /\ p \in Products /\ v \in Variants /\ Done(q) = cat
      /\ store.product[p].status = "NONE" /\ store.variant[v].of = None
      /\ ProductRow(x) /\ x.status # "NONE" /\ (x.status = "ACTIVE" => q.fields.active)
  BY DEF CanCreateProduct, WellFormed, Done, ProductRow
<1>2. /\ y.of = p /\ y.active = q.fields.active /\ y.trackStock = q.fields.trackStock
      /\ y.balance = IF q.fields.trackStock THEN NewBalance ELSE {}
      /\ DOMAIN y = {"of", "sku", "active", "version", "price", "compareAt", "trackStock",
                     "meta", "balance"}
  BY DEF NewVariant
<1> HIDE DEF x, y
<1>3. cat = [store EXCEPT !.product[p] = x, !.variant[v] = y]
  BY DEF CreateProduct, x, y
<1> HIDE DEF p, v, cat
<1>4. /\ cat.product = [store.product EXCEPT ![p] = x]
      /\ cat.variant = [store.variant EXCEPT ![v] = y]
      /\ DOMAIN cat = DOMAIN store
  BY <1>3 DEF Sound, Tables
<1>5. /\ cat.product[p] = x /\ cat.variant[v] = y
      /\ Tables(cat)
      /\ \A r \in Products \ {p} : cat.product[r] = store.product[r]
      /\ \A r \in Variants \ {v} : cat.variant[r] = store.variant[r]
  BY <1>1, <1>4 DEF Sound, Tables
<1>6. moved[v] = 0 /\ p # None
  BY <1>1, CatalogAssumption DEF Sound, VariantRow
<1>7. VariantRow(y, 0)
  BY <1>2, <1>6, BalanceFacts
<1>8. x.status = "ACTIVE" => ActiveVariants(cat, p) # {}
  BY <1>1, <1>2, <1>5 DEF ActiveVariants, VariantsOf
<1>9. q.action \notin Edits
  BY DEF Edits
<1> QED
  BY <1>1, <1>2, <1>5, <1>6, <1>7, <1>8, <1>9 DEF Keeps, OnlyAt, p, v
\* A product's row with its next revision.
LEMMA NextRevision ==
  ASSUME NEW row, ProductRow(row), NEW x, x = [row EXCEPT !.revision = @ + 1]
  PROVE  /\ ProductRow(x) /\ x.revision = row.revision + 1 /\ x.status = row.status
BY DEF ProductRow

LEMMA CreateVariantKeeps ==
  ASSUME Sound(store, moved), NEW q, WellFormed(q), q.action = "CREATE_VARIANT",
         CanCreateVariant(q)
  PROVE  Keeps(q, moved[q.variant])
<1> DEFINE p == q.product
           v == q.variant
           x == [store.product[p] EXCEPT !.revision = @ + 1]
           y == NewVariant(p, q.fields)
           mid == [store EXCEPT !.variant[v] = y]
           cat == CreateVariant(q)
<1>1. /\ p \in Products /\ v \in Variants /\ Done(q) = cat
      /\ store.product[p].status # "NONE" /\ store.variant[v].of = None
      /\ store.product[p].revision = q.view.revision
  BY DEF CanCreateVariant, WellFormed, Done
<1>2. /\ y.of = p /\ y.trackStock = q.fields.trackStock
      /\ y.balance = IF q.fields.trackStock THEN NewBalance ELSE {}
      /\ DOMAIN y = {"of", "sku", "active", "version", "price", "compareAt", "trackStock",
                     "meta", "balance"}
  BY DEF NewVariant
<1>3. cat = [mid EXCEPT !.product[p].revision = @ + 1]
  BY DEF CreateVariant, Revised
<1> HIDE DEF y
<1>4. mid.product = store.product /\ mid.variant = [store.variant EXCEPT ![v] = y]
      /\ DOMAIN mid = DOMAIN store
  BY DEF Sound, Tables
<1> HIDE DEF mid, cat
<1>5. /\ cat.product = [store.product EXCEPT ![p] = x]
      /\ cat.variant = [store.variant EXCEPT ![v] = y]
      /\ DOMAIN cat = DOMAIN store
  BY <1>1, <1>3, <1>4 DEF Sound, Tables
<1>6. ProductRow(store.product[p]) /\ store.product[p].revision \in Nat
  BY <1>1 DEF Sound, ProductRow
<1> HIDE DEF p, v
<1>7. ProductRow(x) /\ x.revision = store.product[p].revision + 1
      /\ x.status = store.product[p].status
  BY <1>6, NextRevision
<1> HIDE DEF x
<1>8. cat.product[p] = x /\ cat.variant[v] = y /\ OnlyAt(cat, p, v)
  BY <1>1, <1>5 DEF Sound, Tables, OnlyAt
<1>9. moved[v] = 0 /\ p # None
  BY <1>1, CatalogAssumption DEF Sound, VariantRow
<1>10. VariantRow(y, 0)
  BY <1>2, <1>9, BalanceFacts
<1>11. x.status = "ACTIVE" => ActiveVariants(cat, p) # {}
  <2> SUFFICES ASSUME x.status = "ACTIVE" PROVE ActiveVariants(cat, p) # {}
    OBVIOUS
  <2>1. PICK u \in Variants : store.variant[u].of = p /\ store.variant[u].active
    BY <1>1, <1>7 DEF Sound, OnSale, Listed, ActiveVariants, VariantsOf
  <2>2. cat.variant[u] = store.variant[u]
    BY <1>1, <1>8, <1>9, <2>1 DEF OnlyAt
  <2> QED
    BY <2>1, <2>2 DEF ActiveVariants, VariantsOf
<1> QED
  BY <1>1, <1>2, <1>6, <1>7, <1>8, <1>9, <1>10, <1>11 DEF Keeps, p, v

\* A patch leaves what it does not name.
LEMMA PatchFacts ==
  ASSUME NEW old, NEW fields, NEW k \in DOMAIN old
  PROVE  /\ DOMAIN Patched(old, fields) = DOMAIN old
         /\ k \in DOMAIN fields => Patched(old, fields)[k] = fields[k]
         /\ k \notin DOMAIN fields => Patched(old, fields)[k] = old[k]
BY DEF Patched

LEMMA UpdateProductKeeps ==
  ASSUME Sound(store, moved), NEW q, WellFormed(q), q.action = "UPDATE_PRODUCT",
         CanUpdateProduct(q)
  PROVE  Keeps(q, moved[q.variant])
<1> DEFINE p == q.product
           v == q.variant
           new == Patched(store.product[p], q.fields)
           x == [new EXCEPT !.revision = @ + 1]
           y == store.variant[v]
           mid == [store EXCEPT !.product[p] = new]
           cat == UpdateProduct(q)
<1>1. /\ p \in Products /\ v \in Variants /\ Done(q) = cat
      /\ store.product[p].status # "NONE" /\ store.product[p].revision = q.view.revision
      /\ new.status = "ACTIVE" => ActiveVariants(store, p) # {}
  BY DEF CanUpdateProduct, WellFormed, Done
<1>2. ProductRow(store.product[p]) /\ store.product[p].revision \in Nat
  BY <1>1 DEF Sound, ProductRow
<1>3. /\ ProductRow(new) /\ new.revision = store.product[p].revision
      /\ new.status # "NONE"
  BY <1>1, <1>2 DEF WellFormed, ProductRow, Patched
<1>4. cat = [mid EXCEPT !.product[p].revision = @ + 1]
  BY DEF UpdateProduct, Revised
<1> HIDE DEF new
<1>5. mid.product = [store.product EXCEPT ![p] = new] /\ mid.variant = store.variant
      /\ DOMAIN mid = DOMAIN store
  BY DEF Sound, Tables
<1> HIDE DEF mid, cat
<1>6. /\ cat.product = [store.product EXCEPT ![p] = x]
      /\ cat.variant = store.variant
      /\ DOMAIN cat = DOMAIN store
  BY <1>1, <1>4, <1>5 DEF Sound, Tables
<1> HIDE DEF p, v
<1>7. ProductRow(x) /\ x.revision = new.revision + 1 /\ x.status = new.status
  BY <1>3, NextRevision
<1> HIDE DEF x
<1>8. cat.product[p] = x /\ cat.variant = store.variant /\ OnlyAt(cat, p, v)
  BY <1>1, <1>6 DEF Sound, Tables, OnlyAt
<1>9. VariantRow(y, moved[v])
  BY <1>1 DEF Sound
<1>10. ActiveVariants(cat, p) = ActiveVariants(store, p)
  BY <1>8 DEF ActiveVariants, VariantsOf
<1> QED
  BY <1>1, <1>2, <1>3, <1>7, <1>8, <1>9, <1>10 DEF Keeps, p, v
\* One more version of a variant's row: same product, same or a first balance.
LEMMA UpdateVariantKeeps ==
  ASSUME Sound(store, moved), NEW q, WellFormed(q), q.action = "UPDATE_VARIANT",
         CanUpdateVariant(q)
  PROVE  Keeps(q, moved[q.variant])
<1> DEFINE p == q.product
           v == q.variant
           old == store.variant[v]
           new == Patched(old, q.fields)
           meta == IF "meta" \in DOMAIN q.fields THEN MergedMeta(old.meta, q.fields.meta)
                   ELSE old.meta
           balance == IF new.trackStock /\ ~old.trackStock /\ old.balance = {}
                      THEN NewBalance ELSE old.balance
           y == [new EXCEPT !.version = @ + 1, !.meta = meta, !.balance = balance]
           x == [store.product[p] EXCEPT !.revision = @ + 1]
           mid == [store EXCEPT !.variant[v] = y]
           cat == UpdateVariant(q)
<1>1. /\ p \in Products /\ v \in Variants /\ Done(q) = cat
      /\ old.of = p /\ store.product[p].revision = q.view.revision
      /\ old.active /\ ~new.active /\ store.product[p].status = "ACTIVE"
           => ActiveVariants(store, p) # {v}
  BY DEF CanUpdateVariant, VariantAllows, WellFormed, Done
<1>2. VariantRow(old, moved[v]) /\ ProductRow(store.product[p]) /\ p # None
      /\ store.product[p].status # "NONE" /\ store.product[p].revision \in Nat
  BY <1>1, CatalogAssumption DEF Sound, ProductRow, Linked
<1>3. {"of", "version", "balance"} \intersect DOMAIN q.fields = {}
  BY DEF WellFormed
<1>4. cat = [mid EXCEPT !.product[p].revision = @ + 1]
  BY DEF UpdateVariant, Revised
<1> HIDE DEF old, meta, balance
<1>5. /\ new.of = old.of
      /\ {"of", "active", "version", "trackStock", "meta", "balance"} \subseteq DOMAIN new
      /\ "active" \notin DOMAIN q.fields => new.active = old.active
  BY <1>2, <1>3 DEF VariantRow, Patched
<1> HIDE DEF new
<1>6. /\ y.of = p /\ y.active = new.active /\ y.balance = balance
      /\ {"of", "active", "version", "trackStock", "meta", "balance"} \subseteq DOMAIN y
  BY <1>1, <1>5
<1> HIDE DEF y
<1>7. VariantRow(y, moved[v])
  <2>1. CASE balance = old.balance
    BY <1>2, <1>6, <2>1 DEF VariantRow
  <2>2. CASE balance = NewBalance /\ old.balance = {}
    BY <1>2, <1>6, <2>2 DEF VariantRow, NewBalance
  <2> QED
    BY <2>1, <2>2 DEF balance
<1>8. mid.product = store.product /\ mid.variant = [store.variant EXCEPT ![v] = y]
      /\ DOMAIN mid = DOMAIN store
  BY DEF Sound, Tables
<1> HIDE DEF mid, cat
<1>9. /\ cat.product = [store.product EXCEPT ![p] = x]
      /\ cat.variant = [store.variant EXCEPT ![v] = y]
      /\ DOMAIN cat = DOMAIN store
  BY <1>1, <1>4, <1>8 DEF Sound, Tables
<1> HIDE DEF p, v
<1>10. ProductRow(x) /\ x.revision = store.product[p].revision + 1
       /\ x.status = store.product[p].status
  BY <1>2, NextRevision
<1> HIDE DEF x
<1>11. cat.product[p] = x /\ cat.variant[v] = y /\ OnlyAt(cat, p, v)
  BY <1>1, <1>9 DEF Sound, Tables, OnlyAt
<1>12. x.status = "ACTIVE" => ActiveVariants(cat, p) # {}
  <2> SUFFICES ASSUME x.status = "ACTIVE" PROVE ActiveVariants(cat, p) # {}
    OBVIOUS
  <2>1. ActiveVariants(store, p) # {}
    BY <1>1, <1>10 DEF Sound, OnSale, Listed
  <2>2. v \in ActiveVariants(store, p) <=> old.active
    BY <1>1 DEF ActiveVariants, VariantsOf, old
  <2>3. PICK u \in Variants : /\ store.variant[u].of = p /\ store.variant[u].active
                              /\ u = v => y.active
    <3>1. CASE y.active /\ old.active
      BY <1>1, <3>1 DEF old
    <3>2. CASE ~old.active
      BY <2>1, <2>2, <3>2 DEF ActiveVariants, VariantsOf
    <3>3. CASE ~y.active /\ old.active
      BY <1>1, <1>6, <1>10, <2>1, <3>3 DEF ActiveVariants, VariantsOf
    <3> QED
      BY <3>1, <3>2, <3>3
  <2>4. cat.variant[u].of = p /\ cat.variant[u].active
    BY <1>1, <1>6, <1>11, <2>3 DEF OnlyAt
  <2> QED
    BY <2>4 DEF ActiveVariants, VariantsOf
<1>13. store.variant[v] = old
  BY DEF old
<1>14. ProductRow(store.product[p])
  BY <1>2
<1> QED
  BY <1>1, <1>2, <1>6, <1>7, <1>10, <1>11, <1>12, <1>13 DEF Keeps, p, v

LEMMA MovedBalance ==
  ASSUME NEW b \in [onHand : Int, reserved : Int, version : Nat], NEW delta \in Int
  PROVE  LET b2 == [b EXCEPT !.onHand = @ + delta, !.version = @ + 1]
         IN  /\ b2.onHand = b.onHand + delta /\ b2.reserved = b.reserved
             /\ b2 \in [onHand : Int, reserved : Int, version : Nat]
<1> DEFINE b1 == [b EXCEPT !.onHand = @ + delta]
           b2 == [b1 EXCEPT !.version = @ + 1]
<1>1. b1 \in [onHand : Int, reserved : Int, version : Nat]
  OBVIOUS
<1>2. b2 = [b EXCEPT !.onHand = @ + delta, !.version = @ + 1]
  OBVIOUS
<1>3. b1.onHand = b.onHand + delta /\ b1.reserved = b.reserved
  OBVIOUS
<1> HIDE DEF b1
<1>4. b2 \in [onHand : Int, reserved : Int, version : Nat]
      /\ b2.onHand = b1.onHand /\ b2.reserved = b1.reserved
  BY <1>1
<1> HIDE DEF b2
<1> QED
  BY <1>2, <1>3, <1>4

\* Stock moves by as much as the movement says, and never under the reserved.
LEMMA AdjustKeeps ==
  ASSUME Sound(store, moved), NEW q, WellFormed(q), q.action = "ADJUST_STOCK", CanAdjust(q)
  PROVE  moved[q.variant] + q.fields.delta \in Int
         /\ Keeps(q, moved[q.variant] + q.fields.delta)
<1> DEFINE p == q.product
           v == q.variant
           delta == q.fields.delta
           old == store.variant[v]
           bs == {[b EXCEPT !.onHand = @ + delta, !.version = @ + 1] : b \in old.balance}
           y == [old EXCEPT !.balance = bs]
           cat == Adjust(q)
<1>1. /\ p \in Products /\ v \in Variants /\ delta \in Int /\ Done(q) = cat
      /\ old.of = p
      /\ \E b \in old.balance : b.onHand + delta >= b.reserved
  BY DEF CanAdjust, WellFormed, Done
<1>2. /\ VariantRow(old, moved[v]) /\ ProductRow(store.product[p]) /\ p # None
      /\ store.product[p].status # "NONE" /\ moved[v] \in Int
      /\ store.product[p].revision \in Nat
  BY <1>1, CatalogAssumption DEF Sound, Linked, ProductRow
<1>3. PICK b \in old.balance : b.onHand + delta >= b.reserved
  BY <1>1
<1>4. /\ b \in [onHand : Int, reserved : Int, version : Nat] /\ b.onHand = moved[v]
      /\ old.balance = {b}
  BY <1>2 DEF VariantRow
<1>5. bs = {[b EXCEPT !.onHand = @ + delta, !.version = @ + 1]}
  BY <1>4
<1> DEFINE b2 == [b EXCEPT !.onHand = @ + delta, !.version = @ + 1]
<1>6. /\ b2 \in [onHand : Int, reserved : Int, version : Nat]
      /\ b2.onHand = moved[v] + delta /\ b2.onHand >= b2.reserved
  <2>1. b2.onHand = b.onHand + delta /\ b2.reserved = b.reserved
        /\ b2 \in [onHand : Int, reserved : Int, version : Nat]
    BY <1>1, <1>4, MovedBalance
  <2> HIDE DEF b2
  <2> QED
    BY <1>3, <1>4, <2>1
<1> HIDE DEF b2, bs
<1>7. /\ y.of = p /\ y.active = old.active /\ y.balance = {b2}
      /\ {"of", "active", "version", "trackStock", "meta", "balance"} \subseteq DOMAIN y
  BY <1>1, <1>2, <1>5 DEF VariantRow, b2
<1> HIDE DEF y
<1>8. VariantRow(y, moved[v] + delta)
  BY <1>2, <1>6, <1>7 DEF VariantRow
<1>9. /\ cat.product = store.product
      /\ cat.variant = [store.variant EXCEPT ![v] = y]
      /\ DOMAIN cat = DOMAIN store
  BY <1>1 DEF Adjust, Sound, Tables, y, bs
<1> HIDE DEF cat
<1>10. cat.product = store.product /\ cat.variant[v] = y /\ OnlyAt(cat, p, v)
  BY <1>1, <1>9 DEF Sound, Tables, OnlyAt
<1>11. ActiveVariants(cat, p) = ActiveVariants(store, p)
  BY <1>1, <1>7, <1>10 DEF ActiveVariants, VariantsOf, OnlyAt
<1>12. store.product[p].status = "ACTIVE" => ActiveVariants(store, p) # {}
  BY <1>1 DEF Sound, OnSale, Listed
<1>13. q.action \notin Edits
  BY DEF Edits
<1> HIDE DEF p, v, delta
<1>14. moved[v] + delta \in Int /\ Keeps(q, moved[v] + delta)
  BY <1>1, <1>2, <1>7, <1>8, <1>10, <1>11, <1>12, <1>13 DEF Keeps, p, v, old
<1> QED
  BY <1>14 DEF v, delta

\* The version of a balance only grows, by one with every adjustment, which read
\* the version before.
BalanceGrows(q) ==
  LET was == store.variant[q.variant].balance
      is  == Done(q).variant[q.variant].balance
  IN  /\ \A b \in was : \E c \in is : c.version >= b.version
      /\ q.action = "ADJUST_STOCK" =>
           \E b \in was, a \in q.view.balances[q.variant], c \in is :
             a.version = b.version /\ c.version > b.version

\* Whatever command runs, the balance of its variant has that version.
LEMMA AllowedGrows ==
  ASSUME Sound(store, moved), NEW q, WellFormed(q), Allowed(q)
  PROVE  BalanceGrows(q)
<1> DEFINE p == q.product
           v == q.variant
           old == store.variant[v]
<1>1. /\ p \in Products /\ v \in Variants
      /\ DOMAIN store.variant = Variants /\ DOMAIN store.product = Products
      /\ {"product", "variant", "business"} \subseteq DOMAIN store
      /\ VariantRow(old, moved[v])
  BY DEF WellFormed, Sound, Tables
<1>2. \A b \in old.balance : b.version \in Nat
  BY <1>1 DEF VariantRow
<1>3. CASE q.action \in {"CREATE_PRODUCT", "CREATE_VARIANT"}
  <2>1. old.of = None
    BY <1>3 DEF Allowed, CanCreateProduct, CanCreateVariant
  <2>2. old.balance = {}
    BY <1>1, <2>1 DEF VariantRow
  <2> QED
    BY <1>3, <2>2 DEF BalanceGrows
<1>4. CASE q.action = "UPDATE_PRODUCT"
  <2> DEFINE mid == [store EXCEPT !.product[p] = Patched(@, q.fields)]
  <2>1. Done(q) = [mid EXCEPT !.product[p].revision = @ + 1]
    BY <1>4 DEF Done, UpdateProduct, Revised
  <2>2. mid.variant = store.variant /\ DOMAIN mid = DOMAIN store
    BY <1>1
  <2> HIDE DEF mid
  <2>3. Done(q).variant = store.variant
    BY <1>1, <2>1, <2>2
  <2>4. \A b \in old.balance : b.version >= b.version
    BY <1>2
  <2> QED
    BY <1>4, <2>3, <2>4 DEF BalanceGrows
<1>5. CASE q.action = "UPDATE_VARIANT"
  <2> DEFINE new == Patched(old, q.fields)
             meta == IF "meta" \in DOMAIN q.fields THEN MergedMeta(old.meta, q.fields.meta)
                     ELSE old.meta
             balance == IF new.trackStock /\ ~old.trackStock /\ old.balance = {}
                        THEN NewBalance ELSE old.balance
             y == [new EXCEPT !.version = @ + 1, !.meta = meta, !.balance = balance]
             mid == [store EXCEPT !.variant[v] = y]
  <2>1. Done(q) = [mid EXCEPT !.product[p].revision = @ + 1]
    BY <1>5 DEF Done, UpdateVariant, Revised
  <2>2. "balance" \in DOMAIN new
    BY <1>1 DEF Patched, VariantRow
  <2>3. old.balance = {} \/ balance = old.balance
    OBVIOUS
  <2> HIDE DEF new, meta, balance
  <2>4. y.balance = balance
    BY <2>2
  <2> HIDE DEF y
  <2>5. mid.variant = [store.variant EXCEPT ![v] = y] /\ DOMAIN mid = DOMAIN store
    BY <1>1
  <2> HIDE DEF mid
  <2>6. Done(q).variant = [store.variant EXCEPT ![v] = y]
    BY <1>1, <2>1, <2>5
  <2>7. Done(q).variant[v].balance = balance
    BY <1>1, <2>4, <2>6
  <2>8. \A b \in old.balance : b.version >= b.version
    BY <1>2
  <2> QED
    BY <1>5, <2>3, <2>7, <2>8 DEF BalanceGrows
<1>6. CASE q.action = "ADJUST_STOCK"
  <2> DEFINE next(b) == [b EXCEPT !.onHand = @ + q.fields.delta, !.version = @ + 1]
             bs == {next(b) : b \in old.balance}
             y == [old EXCEPT !.balance = bs]
  <2>1. Done(q).variant = [store.variant EXCEPT ![v] = y]
    BY <1>1, <1>6 DEF Done, Adjust
  <2> HIDE DEF bs
  <2>2. y.balance = bs
    BY <1>1 DEF VariantRow
  <2> HIDE DEF y
  <2>3. Done(q).variant[v].balance = bs
    BY <1>1, <2>1, <2>2
  <2>4. ASSUME NEW b \in old.balance PROVE next(b) \in bs /\ next(b).version = b.version + 1
    <3>1. b \in [onHand : Int, reserved : Int, version : Nat]
      BY <1>1 DEF VariantRow
    <3> QED
      BY <3>1 DEF bs
  <2>5. PICK b \in old.balance, a \in q.view.balances[v] : b.version = a.version
    BY <1>6 DEF Allowed, CanAdjust
  <2> HIDE DEF next
  <2>6. \A x \in old.balance : \E c \in bs : c.version >= x.version
    BY <1>2, <2>4
  <2>7. \E c \in bs : c.version > b.version
    BY <1>2, <2>4
  <2> QED
    BY <2>3, <2>5, <2>6, <2>7 DEF BalanceGrows
<1> QED
  BY <1>3, <1>4, <1>5, <1>6 DEF WellFormed

LEMMA AllowedKeeps ==
  ASSUME Sound(store, moved), NEW q, WellFormed(q), Allowed(q)
  PROVE  Summed(q) \in Int /\ Keeps(q, Summed(q))
<1>1. q.variant \in Variants /\ moved[q.variant] \in Int
  BY DEF WellFormed, Sound
<1>2. CASE q.action = "CREATE_PRODUCT"
  BY <1>1, <1>2, CreateProductKeeps DEF Allowed, Summed
<1>3. CASE q.action = "UPDATE_PRODUCT"
  BY <1>1, <1>3, UpdateProductKeeps DEF Allowed, Summed
<1>4. CASE q.action = "CREATE_VARIANT"
  BY <1>1, <1>4, CreateVariantKeeps DEF Allowed, Summed
<1>5. CASE q.action = "UPDATE_VARIANT"
  BY <1>1, <1>5, UpdateVariantKeeps DEF Allowed, Summed
<1>6. CASE q.action = "ADJUST_STOCK"
  BY <1>1, <1>6, AdjustKeeps DEF Allowed, Summed
<1> QED
  BY <1>2, <1>3, <1>4, <1>5, <1>6 DEF WellFormed

-----------------------------------------------------------------------------
(* The commands.                                                            *)

\* A request that was sent carries the revision, and the balance, that was read.
Sent(q) ==
  /\ WellFormed(q) /\ q.view.revision \in Nat
  /\ \A a, b \in q.view.balances[q.variant] : a = b /\ a.version \in Nat

\* An edit that ran has been built upon, and so has an adjustment.
BuiltUpon(q) ==
  /\ q.action \in Edits =>
       /\ store.product[q.product].status # "NONE"
       /\ q.view.revision < store.product[q.product].revision
  /\ q.action = "ADJUST_STOCK" =>
       \E b \in store.variant[q.variant].balance :
         \A a \in q.view.balances[q.variant] : a.version < b.version

Commanded(r) ==
  /\ sent[r] = {} \/ \E q \in sent[r] : sent[r] = {q} /\ Sent(q)
  /\ command[r] = {} \/ \E q \in command[r] : command[r] = {q} /\ Sent(q) /\ BuiltUpon(q)
  /\ sent[r] = {} => told[r] = "nothing" /\ command[r] = {}
  /\ told[r] = "done" => command[r] = sent[r]
  /\ told[r] = "refused" => command[r] = {}
  /\ told[r] = "reused" => command[r] \notin {{}, sent[r]}

\* No two edits that ran build on the same revision of a product, and no two
\* adjustments on the same version of a balance.
Apart(r, s) ==
  r # s /\ command[r] # {} /\ command[s] # {} =>
    /\ /\ Ran(r).action \in Edits /\ Ran(s).action \in Edits
       /\ Ran(r).product = Ran(s).product
       => Ran(r).view.revision # Ran(s).view.revision
    /\ /\ Ran(r).action = "ADJUST_STOCK" /\ Ran(s).action = "ADJUST_STOCK"
       /\ Ran(r).variant = Ran(s).variant
       => \A a \in Ran(r).view.balances[Ran(r).variant],
             b \in Ran(s).view.balances[Ran(s).variant] : a.version # b.version

CatalogInv ==
  /\ Sound(store, moved)
  /\ DOMAIN sent = Requests /\ DOMAIN command = Requests /\ DOMAIN told = Requests
  /\ \A r \in Requests : Commanded(r)
  /\ \A r, s \in Requests : Apart(r, s)

LEMMA CatalogInvInit == CatalogInit => CatalogInv
<1> SUFFICES ASSUME CatalogInit PROVE CatalogInv
  OBVIOUS
<1>1. store = InitialCatalog /\ moved \in [Variants -> Int]
      /\ \A v \in Variants : VariantRow(store.variant[v], moved[v])
  <2>1. store = InitialCatalog
    BY DEF CatalogInit
  <2>2. ASSUME NEW v \in Variants
        PROVE  moved[v] \in Int /\ VariantRow(InitialCatalog.variant[v], moved[v])
    <3> DEFINE b == InitialCatalog.variant[v].balance
    <3>1. moved[v] = IF b = {} THEN 0 ELSE (CHOOSE x \in b : TRUE).onHand
      BY DEF CatalogInit
    <3>2. CASE b = {}
      BY <3>1, <3>2, CatalogAssumption DEF VariantRow
    <3>3. CASE b # {}
      <4>1. PICK x \in b : x = CHOOSE z \in b : TRUE
        BY <3>3
      <4>2. \A a \in b : a = x /\ a.onHand \in Int /\ a.onHand >= a.reserved
        BY CatalogAssumption
      <4>3. moved[v] = x.onHand
        BY <3>1, <3>3, <4>1
      <4> QED
        BY <3>3, <4>2, <4>3, CatalogAssumption DEF VariantRow
    <3> QED
      BY <3>2, <3>3
  <2>3. moved = [v \in Variants |-> moved[v]]
    BY DEF CatalogInit
  <2> QED
    BY <2>1, <2>2, <2>3
<1>2. Sound(store, moved)
  BY <1>1, CatalogAssumption DEF Sound, Tables, Linked, OnSale, ProductRow, Listed
<1>3. /\ DOMAIN sent = Requests /\ DOMAIN command = Requests /\ DOMAIN told = Requests
      /\ \A r \in Requests : sent[r] = {} /\ command[r] = {} /\ told[r] = "nothing"
  BY DEF CatalogInit
<1> QED
  BY <1>2, <1>3 DEF CatalogInv, Commanded, Apart

\* What was sent does not change, and commands that stay as they are stay apart.
LEMMA SentKept ==
  ASSUME NEW q, Sent(q)
  PROVE  Sent(q)'
BY DEF Sent, WellFormed

LEMMA ApartKept ==
  ASSUME NEW r, NEW s, Apart(r, s), command'[r] = command[r], command'[s] = command[s]
  PROVE  Apart(r, s)'
<1>1. Ran(r)' = Ran(r) /\ Ran(s)' = Ran(s)
  BY DEF Ran
<1> QED
  BY <1>1 DEF Apart

\* What the administrators do not see of a step leaves their accounts alone.
LEMMA CommandsKept ==
  ASSUME CatalogInv, Sound(store, moved)', UNCHANGED <<sent, command, told>>,
         \A p \in Products : store'.product[p] = store.product[p],
         \A v \in Variants : store'.variant[v] = store.variant[v]
  PROVE  CatalogInv'
<1>1. ASSUME NEW r \in Requests PROVE Commanded(r)'
  <2>1. Commanded(r)
    BY DEF CatalogInv
  <2>2. ASSUME NEW q, Sent(q), BuiltUpon(q) PROVE BuiltUpon(q)'
    BY <2>2 DEF BuiltUpon, Sent, WellFormed
  <2>3. command'[r] = {} \/ \E q \in command'[r] : command'[r] = {q} /\ Sent(q) /\ BuiltUpon(q)'
    BY <2>1, <2>2 DEF Commanded
  <2> QED
    BY <2>1, <2>3 DEF Commanded, Sent, WellFormed
<1>2. ASSUME NEW r \in Requests, NEW s \in Requests PROVE Apart(r, s)'
  BY ApartKept DEF CatalogInv
<1> QED
  BY <1>1, <1>2 DEF CatalogInv

LEMMA SendStep ==
  ASSUME CatalogInv, NEW r \in Requests, NEW form \in Forms,
         Send(r, form) \/ SendAnother(r, form)
  PROVE  CatalogInv'
<1> DEFINE q == Filled(form)
<1>1. Sent(q)
  <2>1. WellFormed(form) /\ form.product \in Products /\ form.variant \in Variants
    BY FormsAssumption DEF WellFormed
  <2>2. store.product[form.product].revision \in Nat
    BY <2>1 DEF CatalogInv, Sound, ProductRow
  <2>3. \A a, b \in store.variant[form.variant].balance : a = b /\ a.version \in Nat
    BY <2>1 DEF CatalogInv, Sound, VariantRow
  <2>4. /\ q.action = form.action /\ q.product = form.product /\ q.variant = form.variant
        /\ q.fields = form.fields /\ q.product_fields = form.product_fields
        /\ q.view = CatalogView(form.product)
    BY DEF Filled
  <2> HIDE DEF q
  <2>5. WellFormed(q)
    BY <2>1, <2>4 DEF WellFormed
  <2>6. /\ q.view.revision = store.product[form.product].revision
        /\ q.view.balances[q.variant] \subseteq store.variant[form.variant].balance
    BY <2>1, <2>4 DEF CatalogView
  <2> QED
    BY <2>2, <2>3, <2>5, <2>6 DEF Sent
<1> HIDE DEF q
<1>2. sent' = [sent EXCEPT ![r] = {q}] /\ UNCHANGED <<store, moved, command, told>>
  BY DEF Send, SendAnother, q
<1>3. told[r] = "nothing"
  BY DEF Send, SendAnother, Pending, CatalogInv, Commanded
<1>4. ASSUME NEW s \in Requests PROVE Commanded(s)'
  <2>1. Commanded(s) /\ sent'[s] = IF s = r THEN {q} ELSE sent[s]
    BY <1>2 DEF CatalogInv
  <2>2. command'[s] = {} \/ \E x \in command'[s] : command'[s] = {x} /\ Sent(x) /\ BuiltUpon(x)'
    BY <1>2, <2>1 DEF Commanded, BuiltUpon
  <2>3. sent'[s] = {} \/ \E x \in sent'[s] : sent'[s] = {x} /\ Sent(x)
    BY <1>1, <2>1 DEF Commanded
  <2> QED
    BY <1>2, <1>3, <2>1, <2>2, <2>3, SentKept DEF Commanded
<1>5. ASSUME NEW s \in Requests, NEW t \in Requests PROVE Apart(s, t)'
  BY <1>2, ApartKept DEF CatalogInv
<1>6. Sound(store, moved)' /\ DOMAIN sent' = Requests /\ DOMAIN command' = Requests
      /\ DOMAIN told' = Requests
  BY <1>2 DEF CatalogInv
<1> QED
  BY <1>4, <1>5, <1>6 DEF CatalogInv

\* A command that runs: the catalog stays sound, and every edit that ran before
\* on the same product was built on an earlier revision.
LEMMA RunStep ==
  ASSUME CatalogInv, NEW r \in Requests, Execute(r), Fresh(r), Allowed(Request(r))
  PROVE  CatalogInv'
<1>1. sent[r] # {} /\ told[r] = "nothing" /\ Commanded(r) /\ command[r] = {}
  BY DEF Execute, Pending, Fresh, CatalogInv
<1>2. PICK q \in sent[r] : sent[r] = {q} /\ Sent(q) /\ Allowed(q) /\ q = Request(r)
  <2>1. PICK x \in sent[r] : sent[r] = {x} /\ Sent(x)
    BY <1>1 DEF Commanded
  <2>2. x = Request(r)
    BY <2>1 DEF Request
  <2> QED
    BY <2>1, <2>2
<1>3. /\ store' = Done(q) /\ command' = [command EXCEPT ![r] = sent[r]]
      /\ moved' = IF q.action = "ADJUST_STOCK"
                  THEN [moved EXCEPT ![q.variant] = @ + q.fields.delta] ELSE moved
      /\ sent' = sent
      /\ told' = [told EXCEPT ![r] = "done"] \/ told' = told
  BY <1>2 DEF Execute, Answer
<1>4. Summed(q) \in Int /\ Keeps(q, Summed(q))
  BY <1>2, AllowedKeeps DEF CatalogInv, Sent
<1>5. q.product \in Products /\ q.variant \in Variants /\ q.view.revision \in Nat
  BY <1>2 DEF Sent, WellFormed
<1>6. moved' = [moved EXCEPT ![q.variant] = Summed(q)]
  BY <1>3, <1>5 DEF Summed, CatalogInv, Sound
<1>7. Sound(store, moved)'
  <2>1. Sound(Done(q), [moved EXCEPT ![q.variant] = Summed(q)])
    BY <1>4, <1>5, KeepsSound DEF CatalogInv
  <2>2. Sound(store', moved')
    BY Zenon, <2>1, <1>3, <1>6
  <2> QED
    BY Zenon, <2>2 DEF Sound, Tables, Linked, OnSale, Listed, ActiveVariants, VariantsOf
<1> DEFINE p == q.product
           old == store.product[p]
           new == store'.product[p]
<1>8. /\ new.status # "NONE" /\ (old.status # "NONE" => new.revision >= old.revision)
      /\ (q.action \in Edits => /\ old.status # "NONE" /\ old.revision = q.view.revision
                                /\ new.revision = old.revision + 1)
      /\ \A s \in Products \ {p} : store'.product[s] = store.product[s]
  BY <1>3, <1>4 DEF Keeps, OnlyAt
<1>9. old.revision \in Nat /\ new.revision \in Nat
  BY <1>5, <1>7 DEF CatalogInv, Sound, ProductRow
<1> HIDE DEF p, old, new
<1>10. BalanceGrows(q) /\ store' = Done(q)
  BY <1>2, <1>3, AllowedGrows DEF CatalogInv, Sent
<1>11. \A u \in Variants : \A b \in store.variant[u].balance :
         \E c \in store'.variant[u].balance : c.version >= b.version
  <2> SUFFICES ASSUME NEW u \in Variants, NEW b \in store.variant[u].balance
               PROVE  \E c \in store'.variant[u].balance : c.version >= b.version
    OBVIOUS
  <2>1. CASE u = q.variant
    BY <1>10, <2>1 DEF BalanceGrows
  <2>2. CASE u # q.variant
    <3>1. store'.variant[u] = store.variant[u]
      BY <1>3, <1>4, <2>2 DEF Keeps, OnlyAt
    <3>2. b.version \in Nat
      BY DEF CatalogInv, Sound, VariantRow
    <3> QED
      BY <3>1, <3>2
  <2> QED
    BY <2>1, <2>2
<1>12. ASSUME NEW x, Sent(x), BuiltUpon(x) PROVE BuiltUpon(x)'
  <2>1. x.product \in Products /\ x.view.revision \in Nat
    BY <1>12 DEF Sent, WellFormed
  <2>2. ASSUME x.action \in Edits
        PROVE  /\ store'.product[x.product].status # "NONE"
               /\ x.view.revision < store'.product[x.product].revision
    <3>1. CASE x.product = p
      BY <1>8, <1>9, <1>12, <2>1, <2>2, <3>1 DEF BuiltUpon, old, new
    <3>2. CASE x.product # p
      BY <1>8, <1>12, <2>1, <2>2, <3>2 DEF BuiltUpon
    <3> QED
      BY <3>1, <3>2
  <2>3. ASSUME x.action = "ADJUST_STOCK"
        PROVE  \E b \in store'.variant[x.variant].balance :
                 \A a \in x.view.balances[x.variant] : a.version < b.version
    <3>1. PICK b \in store.variant[x.variant].balance :
            \A a \in x.view.balances[x.variant] : a.version < b.version
      BY <1>12, <2>3 DEF BuiltUpon
    <3>2. x.variant \in Variants /\ \A a \in x.view.balances[x.variant] : a.version \in Nat
      BY <1>12 DEF Sent, WellFormed
    <3>3. PICK c \in store'.variant[x.variant].balance : c.version >= b.version
      BY <1>11, <3>2
    <3>4. b.version \in Nat /\ c.version \in Nat
      BY <1>7, <3>2 DEF CatalogInv, Sound, VariantRow
    <3>5. \A a \in x.view.balances[x.variant] : a.version < c.version
      BY <3>1, <3>2, <3>3, <3>4
    <3> QED
      BY <3>5
  <2> QED
    BY <2>2, <2>3 DEF BuiltUpon
<1>13. BuiltUpon(q)'
  <2>1. ASSUME q.action \in Edits
        PROVE  /\ store'.product[q.product].status # "NONE"
               /\ q.view.revision < store'.product[q.product].revision
    BY <1>5, <1>8, <1>9, <2>1 DEF p, old, new
  <2>2. ASSUME q.action = "ADJUST_STOCK"
        PROVE  \E b \in store'.variant[q.variant].balance :
                 \A a \in q.view.balances[q.variant] : a.version < b.version
    <3>1. PICK b \in store.variant[q.variant].balance, a \in q.view.balances[q.variant],
               c \in store'.variant[q.variant].balance :
            a.version = b.version /\ c.version > b.version
      BY <1>10, <2>2 DEF BalanceGrows
    <3>2. \A x \in q.view.balances[q.variant] : x = a
      BY <1>2 DEF Sent
    <3> QED
      BY <3>1, <3>2
  <2> QED
    BY <2>1, <2>2 DEF BuiltUpon
<1>14. \A s \in Requests : /\ command'[s] = IF s = r THEN {q} ELSE command[s]
                           /\ s # r => told'[s] = told[s]
  BY <1>2, <1>3 DEF CatalogInv
<1>15. told'[r] \in {"nothing", "done"}
  BY <1>1, <1>3 DEF CatalogInv
<1>16. ASSUME NEW s \in Requests PROVE Commanded(s)'
  <2>1. CASE s = r
    <3>1. command'[s] = {q} /\ sent'[s] = {q} /\ Sent(q) /\ BuiltUpon(q)'
      BY <1>2, <1>3, <1>13, <1>14, <2>1
    <3>2. \E x \in command'[s] : command'[s] = {x} /\ Sent(x) /\ BuiltUpon(x)'
      BY <3>1
    <3> QED
      BY <1>15, <2>1, <3>1, <3>2 DEF Commanded, Sent, WellFormed
  <2>2. CASE s # r
    <3>1. Commanded(s) /\ command'[s] = command[s] /\ sent'[s] = sent[s] /\ told'[s] = told[s]
      BY <1>3, <1>14, <2>2 DEF CatalogInv
    <3>2. command'[s] = {} \/ \E x \in command'[s] : command'[s] = {x} /\ Sent(x) /\ BuiltUpon(x)'
      BY <1>12, <3>1 DEF Commanded
    <3> QED
      BY <3>1, <3>2 DEF Commanded, Sent, WellFormed
  <2> QED
    BY <2>1, <2>2
<1>17. ASSUME NEW s \in Requests \ {r}, command[s] # {}, Ran(s).action \in Edits,
              q.action \in Edits, Ran(s).product = q.product
       PROVE  Ran(s).view.revision # q.view.revision
  <2>1. PICK x \in command[s] : command[s] = {x} /\ Sent(x) /\ BuiltUpon(x)
    BY <1>17 DEF CatalogInv, Commanded
  <2>2. x = Ran(s)
    BY <2>1 DEF Ran
  <2>3. x.view.revision < old.revision /\ x.view.revision \in Nat
    BY <1>17, <2>1, <2>2 DEF BuiltUpon, Sent, old, p
  <2> QED
    BY <1>8, <1>9, <1>17, <2>2, <2>3
<1>18. ASSUME NEW s \in Requests \ {r}, command[s] # {}, Ran(s).action = "ADJUST_STOCK",
              q.action = "ADJUST_STOCK", Ran(s).variant = q.variant,
              NEW a \in Ran(s).view.balances[Ran(s).variant],
              NEW d \in q.view.balances[q.variant]
       PROVE  a.version # d.version
  <2>1. PICK x \in command[s] : command[s] = {x} /\ Sent(x) /\ BuiltUpon(x)
    BY <1>18 DEF CatalogInv, Commanded
  <2>2. x = Ran(s)
    BY <2>1 DEF Ran
  <2>3. PICK b \in store.variant[q.variant].balance : a.version < b.version
    BY <1>18, <2>1, <2>2 DEF BuiltUpon
  <2>4. PICK c \in store.variant[q.variant].balance : d.version = c.version
    BY <1>2, <1>10, <1>18 DEF BalanceGrows, Sent
  <2>5. b = c /\ b.version \in Nat
    BY <1>5 DEF CatalogInv, Sound, VariantRow
  <2>6. a.version \in Nat
    BY <1>18, <2>1, <2>2 DEF Sent
  <2> QED
    BY <2>3, <2>4, <2>5, <2>6
<1>19. ASSUME NEW s \in Requests PROVE Ran(s)' = IF s = r THEN q ELSE Ran(s)
  BY <1>14 DEF Ran
<1>20. ASSUME NEW s \in Requests, NEW t \in Requests PROVE Apart(s, t)'
  <2>1. Apart(s, t)
    BY DEF CatalogInv
  <2> QED
    BY <1>14, <1>17, <1>19, <1>18, <2>1 DEF Apart
<1>21. DOMAIN sent' = Requests /\ DOMAIN command' = Requests /\ DOMAIN told' = Requests
  BY <1>3 DEF CatalogInv
<1> QED
  BY <1>7, <1>16, <1>20, <1>21 DEF CatalogInv

\* A run that leaves nothing: a replay, a reused id, or a refusal.
LEMMA NoRunStep ==
  ASSUME CatalogInv, NEW r \in Requests, Execute(r), ~(Fresh(r) /\ Allowed(Request(r)))
  PROVE  CatalogInv'
<1>1. /\ UNCHANGED <<store, moved, command, sent>>
      /\ told' = [told EXCEPT ![r] = Answer(r)] \/ told' = told
      /\ sent[r] # {} /\ told[r] = "nothing" /\ Commanded(r)
  BY DEF Execute, Pending, CatalogInv
<1>2. /\ Answer(r) = "done" => command[r] = sent[r]
      /\ Answer(r) = "refused" => command[r] = {}
      /\ Answer(r) = "reused" => command[r] \notin {{}, sent[r]}
  BY <1>1 DEF Answer, Fresh
<1>3. \A s \in Requests : /\ s # r => told'[s] = told[s]
                          /\ told'[r] = Answer(r) \/ told'[r] = "nothing"
  BY <1>1 DEF CatalogInv
<1>4. ASSUME NEW s \in Requests PROVE Commanded(s)'
  <2>1. Commanded(s)
    BY DEF CatalogInv
  <2>2. command'[s] = {} \/ \E x \in command'[s] : command'[s] = {x} /\ Sent(x) /\ BuiltUpon(x)'
    BY <1>1, <2>1 DEF Commanded, BuiltUpon
  <2> QED
    BY <1>1, <1>2, <1>3, <2>1, <2>2, SentKept DEF Commanded
<1>5. ASSUME NEW s \in Requests, NEW t \in Requests PROVE Apart(s, t)'
  BY <1>1, ApartKept DEF CatalogInv
<1>6. DOMAIN sent' = Requests /\ DOMAIN command' = Requests /\ DOMAIN told' = Requests
      /\ Sound(store, moved)'
  BY <1>1 DEF CatalogInv
<1> QED
  BY <1>4, <1>5, <1>6 DEF CatalogInv

LEMMA CatalogInvStep ==
  ASSUME CatalogInv, [CatalogNext]_catalogVars
  PROVE  CatalogInv'
<1>1. ASSUME NEW r \in Requests, NEW form \in Forms, Send(r, form) \/ SendAnother(r, form)
      PROVE  CatalogInv'
  BY <1>1, SendStep
<1>2. ASSUME NEW r \in Requests, Execute(r) PROVE CatalogInv'
  BY <1>2, RunStep, NoRunStep
<1>3. ASSUME NEW business \in DOMAIN Presets, NEW categories \in CategoryLimits,
             ApplyPreset(business, categories)
      PROVE  CatalogInv'
  <2>1. store' = [store EXCEPT !.business = business, !.categories = categories]
        /\ UNCHANGED <<moved, sent, command, told>>
    BY <1>3 DEF ApplyPreset
  <2>2. /\ store'.product = store.product /\ store'.variant = store.variant
        /\ DOMAIN store' = DOMAIN store
    BY <2>1 DEF CatalogInv, Sound, Tables
  <2>3. Sound(store, moved)'
    BY <2>1, <2>2 DEF CatalogInv, Sound, Tables, Linked, OnSale, Listed, ActiveVariants,
                      VariantsOf
  <2> QED
    BY <2>1, <2>2, <2>3, CommandsKept
<1>4. ASSUME UNCHANGED adminVars PROVE CatalogInv'
  BY <1>4, CommandsKept DEF adminVars, CatalogInv
<1>5. ASSUME Plan \/ WithoutSearch \/ RouteToKnowledge \/ AnswerQuestion
      PROVE  UNCHANGED adminVars
  BY <1>5 DEF Plan, WithoutSearch, RouteToKnowledge, AnswerQuestion
<1>6. ASSUME Search \/ SearchWithVectors PROVE UNCHANGED adminVars
  BY <1>6 DEF Search, SearchWithVectors, Found
<1>7. ASSUME UNCHANGED catalogVars PROVE UNCHANGED adminVars
  BY <1>7 DEF catalogVars
<1> QED
  BY <1>1, <1>2, <1>3, <1>4, <1>5, <1>6, <1>7 DEF CatalogNext

\* Whatever the administrators send, again or changed, and whichever answers are
\* lost, the catalog stays sound and every command that ran is accounted for
\* (product-command.service.ts, product.service.ts, inventory.service.ts).
THEOREM CatalogInvariance == CatalogSpec => []CatalogInv
BY CatalogInvInit, CatalogInvStep, PTL DEF CatalogSpec

\* Nobody is told of a command that did not run, and the stock on hand is what
\* the movements account for.
THEOREM CommandsTheorem == CatalogSpec => []CommandsAreAccounted
<1>1. CatalogInv => CommandsAreAccounted
  BY DEF CatalogInv, Commanded, Sound, VariantRow, CommandsAreAccounted
<1> QED
  BY <1>1, CatalogInvariance, PTL

\* No edit silently undoes another, and what is on sale can be sold.
THEOREM EditsTheorem == CatalogSpec => []EditsBuildOnEachOther
<1>1. CatalogInv => EditsBuildOnEachOther
  BY DEF CatalogInv, Apart, Sound, OnSale, EditsBuildOnEachOther
<1> QED
  BY <1>1, CatalogInvariance, PTL

-----------------------------------------------------------------------------
(* One search of the catalog (products/search): its lists, its evidence and  *)
(* what it leaves of several candidates.                                     *)

\* A set of pairs that orders S strictly.
Strict(S, R) ==
  /\ \A x \in S : <<x, x>> \notin R
  /\ \A x, y \in S : x # y => <<x, y>> \in R \/ <<y, x>> \in R
  /\ \A x, y, z \in S : <<x, y>> \in R /\ <<y, z>> \in R => <<x, z>> \in R

\* The place of an element, and a list that keeps to the places.
Place(S, R) == [x \in S |-> 1 + Cardinality({y \in S : <<y, x>> \in R})]
Placed(S, R) == {<<x, Place(S, R)[x]>> : x \in S}
PutsInPlace(s, S, R) ==
  /\ \E T : s \in [1 .. Cardinality(S) -> T]
  /\ \A i \in 1 .. Cardinality(S) : \A d \in Placed(S, R) :
       d[2] = i => \E e \in Placed(S, R) : e[2] = i /\ s[i] = e[1]

\* The places of n elements are 1 .. n, each once.
LEMMA Places ==
  ASSUME NEW S, IsFiniteSet(S), NEW R, Strict(S, R)
  PROVE  Place(S, R) \in Injection(S, 1 .. Cardinality(S))
                            \intersect Surjection(S, 1 .. Cardinality(S))
<1> DEFINE Below(x) == {y \in S : <<y, x>> \in R}
           n == Cardinality(S)
           P == Place(S, R)
<1>1. n \in Nat
  BY FS_CardinalityType
<1>2. \A x \in S : Cardinality(Below(x)) \in Nat /\ Cardinality(Below(x)) < n
  <2> TAKE x \in S
  <2>1. Below(x) \in SUBSET S /\ x \notin Below(x)
    BY DEF Strict
  <2>2. Below(x) # S
    BY <2>1
  <2> HIDE DEF Below
  <2>3. IsFiniteSet(Below(x)) /\ Cardinality(Below(x)) <= n
        /\ Cardinality(Below(x)) # n
    BY <2>1, <2>2, FS_Subset
  <2>4. Cardinality(Below(x)) \in Nat
    BY <2>3, FS_CardinalityType
  <2> QED
    BY <1>1, <2>3, <2>4
<1>3. \A x, y \in S : <<x, y>> \in R => Cardinality(Below(x)) < Cardinality(Below(y))
  <2> TAKE x, y \in S
  <2> HAVE <<x, y>> \in R
  <2>1. Below(x) \in SUBSET Below(y) /\ x \in Below(y) /\ x \notin Below(x)
    BY DEF Strict
  <2>2. Below(y) \in SUBSET S
    OBVIOUS
  <2> HIDE DEF Below
  <2>3. IsFiniteSet(Below(y)) /\ Below(x) # Below(y)
    BY <2>1, <2>2, FS_Subset
  <2>4. Cardinality(Below(x)) <= Cardinality(Below(y))
        /\ Cardinality(Below(x)) # Cardinality(Below(y))
    BY <2>1, <2>3, FS_Subset
  <2> QED
    BY <1>2, <2>4
<1>4. P \in [S -> 1 .. n]
  <2>1. \A x \in S : P[x] = 1 + Cardinality(Below(x))
    BY DEF Place
  <2>2. \A x \in S : P[x] \in 1 .. n
    <3> HIDE DEF P, Below, n
    <3> QED BY <1>1, <1>2, <2>1
  <2> QED
    BY <2>2 DEF Place
<1>5. \A x, y \in S : P[x] = P[y] => x = y
  <2> TAKE x, y \in S
  <2> HAVE P[x] = P[y]
  <2>1. Cardinality(Below(x)) = Cardinality(Below(y))
    BY <1>2 DEF Place
  <2>2. ~ (Cardinality(Below(x)) < Cardinality(Below(y)))
        /\ ~ (Cardinality(Below(y)) < Cardinality(Below(x)))
    BY <1>2, <2>1
  <2>3. <<x, y>> \notin R /\ <<y, x>> \notin R
    BY <1>3, <2>2
  <2> QED
    BY <2>3 DEF Strict
<1>6. P \in Injection(S, 1 .. n)
  BY <1>4, <1>5 DEF Injection, IsInjective
<1>7. IsFiniteSet(1 .. n) /\ Cardinality(1 .. n) = n
  BY <1>1, FS_Interval
<1> HIDE DEF P, n
<1>8. P \in Surjection(S, 1 .. n)
  BY <1>6, <1>7, FS_Injection DEF n
<1> QED
  BY <1>6, <1>8 DEF P, n

\* A list of elements of S, none twice; and a list of them all.
ListsSome(s, S) == s \in Seq(S) /\ \A i, j \in DOMAIN s : s[i] = s[j] => i = j
Lists(s, S) == ListsSome(s, S) /\ ItemsOf(s) = S

\* A list that puts every element at its place has every element once.
LEMMA ListOfPlaces ==
  ASSUME NEW S, IsFiniteSet(S), NEW R, Strict(S, R), NEW s, PutsInPlace(s, S, R)
  PROVE  s \in Seq(S) /\ ItemsOf(s) = S /\ Lists(s, S)
<1> DEFINE n == Cardinality(S)
           P == Place(S, R)
           placed == Placed(S, R)
<1>1. n \in Nat
  BY FS_CardinalityType
<1>2. PICK T : s \in [1 .. n -> T]
  BY DEF PutsInPlace
<1>3. \A i \in 1 .. n : \A d \in placed :
          d[2] = i => \E e \in placed : e[2] = i /\ s[i] = e[1]
  BY DEF PutsInPlace
<1>4. P \in [S -> 1 .. n] /\ (\A x, y \in S : P[x] = P[y] => x = y)
      /\ (\A i \in 1 .. n : \E x \in S : P[x] = i)
  <2>1. P \in Injection(S, 1 .. n) /\ P \in Surjection(S, 1 .. n)
    BY Places
  <2> QED
    BY <2>1 DEF Injection, IsInjective, Surjection
<1>5. placed = {<<x, P[x]>> : x \in S}
  BY DEF Placed
<1> HIDE DEF P, placed
<1>6. ASSUME NEW x \in S PROVE P[x] \in 1 .. n /\ s[P[x]] = x
  <2>1. P[x] \in 1 .. n /\ <<x, P[x]>> \in placed
    BY <1>4, <1>5
  <2>2. \A e \in placed : e[2] = P[x] => e = <<x, P[x]>>
    BY <1>4, <1>5
  <2>3. \E e \in placed : e[2] = P[x] /\ s[P[x]] = e[1]
    BY <1>3, <2>1
  <2> QED
    BY <2>1, <2>2, <2>3
<1>7. ASSUME NEW i \in 1 .. n PROVE s[i] \in S
  <2>1. PICK x \in S : P[x] = i
    BY <1>4
  <2> QED
    BY <1>6, <2>1
<1>8. s \in [1 .. n -> S]
  BY <1>7, <1>2
<1>9. s \in Seq(S) /\ DOMAIN s = 1 .. n
  BY <1>1, <1>8
<1> HIDE DEF n
<1>10. ItemsOf(s) = S
  <2>1. \A x \in S : \E i \in 1 .. n : s[i] = x
    BY <1>6
  <2>2. \A y : y \in ItemsOf(s) <=> \E i \in 1 .. n : y = s[i]
    BY <1>9 DEF ItemsOf
  <2>3. \A y : y \in ItemsOf(s) <=> y \in S
    BY <1>7, <2>1, <2>2
  <2> QED
    BY <2>3
<1>11. ASSUME NEW i \in 1 .. n, NEW j \in 1 .. n, s[i] = s[j] PROVE i = j
  <2>1. PICK x \in S, y \in S : P[x] = i /\ P[y] = j
    BY <1>4
  <2>2. s[i] = x /\ s[j] = y
    BY <1>6, <2>1
  <2> QED
    BY <1>11, <2>1, <2>2
<1> QED
  BY <1>9, <1>10, <1>11 DEF Lists, ListsSome

\* A list has as many places as it orders elements, in whatever order.
LEMMA SortedFacts ==
  ASSUME NEW S, IsFiniteSet(S)
  PROVE  /\ DOMAIN Sorted(S) = 1 .. Cardinality(S) /\ Cardinality(S) \in Nat
         /\ S # {} => 1 \in DOMAIN Sorted(S)
<1>1. Cardinality(S) \in Nat /\ (S # {} => Cardinality(S) # 0)
  BY FS_CardinalityType, FS_EmptySet
<1>2. DOMAIN Sorted(S) = 1 .. Cardinality(S)
  BY DEF Sorted, InOrder
<1> QED
  BY <1>1, <1>2

\* Products and variants are sorted by their ids and SKUs.
LEMMA SortedLists ==
  ASSUME NEW S, S \in SUBSET Products \/ S \in SUBSET Variants
  PROVE  Lists(Sorted(S), S)
<1> DEFINE list == Sorted(S)
           R == {e \in S \X S : Order[e[1]] < Order[e[2]]}
           placed == {<<x, 1 + Cardinality({y \in S : Order[y] < Order[x]})>> : x \in S}
           U == {list[i] : i \in 1 .. Cardinality(S)}
<1>1. IsFiniteSet(S)
  BY SearchAssumption, FS_Subset
<1>2. Strict(S, R)
  <2>1. \A x \in S : Order[x] \in Int
    BY SearchAssumption
  <2>2. \A x, y \in S : Order[x] = Order[y] => x = y
    BY SearchAssumption
  <2> QED
    BY <2>1, <2>2 DEF Strict
<1>3. list = [i \in 1 .. Cardinality(S) |-> (CHOOSE e \in placed : e[2] = i)[1]]
  BY DEF Sorted, InOrder
<1>4. placed = Placed(S, R)
  <2>1. \A x \in S : Place(S, R)[x] = 1 + Cardinality({y \in S : Order[y] < Order[x]})
    <3> TAKE x \in S
    <3>1. {y \in S : <<y, x>> \in R} = {y \in S : Order[y] < Order[x]}
      OBVIOUS
    <3> HIDE DEF R
    <3> QED BY <3>1 DEF Place
  <2> HIDE DEF R
  <2> QED BY <2>1 DEF Placed
<1> HIDE DEF list, placed, R
<1>5. PutsInPlace(list, S, R)
  <2>1. list \in [1 .. Cardinality(S) -> U]
    BY <1>3
  <2>2. \A i \in 1 .. Cardinality(S) : list[i] = (CHOOSE e \in placed : e[2] = i)[1]
    BY <1>3
  <2>3. ASSUME NEW i \in 1 .. Cardinality(S), NEW d \in placed, d[2] = i
        PROVE  \E e \in placed : e[2] = i /\ list[i] = e[1]
    BY <2>2, <2>3
  <2> HIDE DEF U
  <2> QED BY <1>4, <2>1, <2>3 DEF PutsInPlace
<1>6. Lists(list, S)
  BY <1>1, <1>2, <1>5, ListOfPlaces
<1> QED
  BY <1>6 DEF list

\* `Among` keeps of a list what is in the set.
LEMMA AmongFacts ==
  ASSUME NEW T, NEW list \in Seq(T), NEW S
  PROVE  /\ Among(list, S) \in Seq(T)
         /\ ItemsOf(Among(list, S)) = ItemsOf(list) \intersect S
<1> DEFINE I == {i \in DOMAIN list : list[i] \in S}
           R == {e \in I \X I : e[1] < e[2]}
           at == InOrder(I, LAMBDA i, j : i < j)
<1>1. DOMAIN list = 1 .. Len(list) /\ Len(list) \in Nat /\ \A i \in DOMAIN list : list[i] \in T
  OBVIOUS
<1>2. I \subseteq 1 .. Len(list) /\ IsFiniteSet(I)
  <2>1. I \in SUBSET (1 .. Len(list))
    BY <1>1
  <2>2. IsFiniteSet(1 .. Len(list))
    BY <1>1, FS_Interval
  <2> HIDE DEF I
  <2> QED BY <2>1, <2>2, FS_Subset
<1>3. Strict(I, R)
  <2>1. \A x \in I : x \in Int
    BY <1>2
  <2> HIDE DEF I
  <2> QED BY <2>1 DEF Strict
<1> DEFINE placed == {<<x, 1 + Cardinality({y \in I : y < x})>> : x \in I}
           U == {at[i] : i \in 1 .. Cardinality(I)}
<1>4. /\ at \in [1 .. Cardinality(I) -> U]
      /\ \A i \in 1 .. Cardinality(I) : \A d \in placed :
           d[2] = i => \E e \in placed : e[2] = i /\ at[i] = e[1]
      /\ placed = Placed(I, R)
  <2>1. \A x \in I : Place(I, R)[x] = 1 + Cardinality({y \in I : y < x})
    <3> TAKE x \in I
    <3>1. {y \in I : <<y, x>> \in R} = {y \in I : y < x}
      OBVIOUS
    <3> HIDE DEF I, R
    <3> QED BY <3>1 DEF Place
  <2> HIDE DEF I, R
  <2>2. placed = Placed(I, R)
    BY <2>1 DEF Placed
  <2>3. at = [i \in 1 .. Cardinality(I) |-> (CHOOSE e \in placed : e[2] = i)[1]]
    BY DEF InOrder
  <2> HIDE DEF at, placed
  <2>4. /\ at \in [1 .. Cardinality(I) -> U]
        /\ \A i \in 1 .. Cardinality(I) : at[i] = (CHOOSE e \in placed : e[2] = i)[1]
    BY <2>3
  <2>5. ASSUME NEW i \in 1 .. Cardinality(I), NEW d \in placed, d[2] = i
        PROVE  \E e \in placed : e[2] = i /\ at[i] = e[1]
    BY <2>4, <2>5
  <2> QED BY <2>2, <2>4, <2>5
<1>5. PutsInPlace(at, I, R)
  <2> HIDE DEF I, R, at, placed, U
  <2> QED BY <1>4 DEF PutsInPlace
<1>6. at \in Seq(I) /\ ItemsOf(at) = I
  <2> HIDE DEF I, R, at, placed, U
  <2> QED BY <1>2, <1>3, <1>5, ListOfPlaces
<1>7. Among(list, S) = [i \in DOMAIN at |-> list[at[i]]]
  BY DEF Among
<1> HIDE DEF at
<1>8. DOMAIN at = 1 .. Len(at) /\ Len(at) \in Nat /\ \A i \in DOMAIN at : at[i] \in I
  BY <1>6
<1>9. Among(list, S) \in Seq(T)
  <2>1. \A i \in 1 .. Len(at) : list[at[i]] \in T
    BY <1>1, <1>8
  <2> HIDE DEF I
  <2> QED
    BY <1>7, <1>8, <2>1
<1>10. ItemsOf(Among(list, S)) = {list[i] : i \in I}
  <2>1. DOMAIN Among(list, S) = DOMAIN at
    BY <1>7
  <2> HIDE DEF I
  <2>2. \A i \in I : \E j \in DOMAIN at : at[j] = i
    BY <1>6 DEF ItemsOf
  <2> QED
    BY <1>7, <1>8, <2>1, <2>2 DEF ItemsOf
<1>11. {list[i] : i \in I} = ItemsOf(list) \intersect S
  BY DEF ItemsOf
<1> QED
  BY <1>9, <1>10, <1>11

\* The fused score of a product is a number.
LEMMA FusedNat ==
  ASSUME NEW p, NEW lists, NEW m \in Nat, NEW n \in Nat,
         DOMAIN lists[1] = 1 .. m, DOMAIN lists[2] = 1 .. n
  PROVE  FusedScore(p, lists) \in Nat
<1> DEFINE place(i) == CHOOSE k \in DOMAIN lists[i] : lists[i][k] = p
           part(i) == IF p \in ItemsOf(lists[i]) THEN 1000000 \div (RankConstant + place(i))
                      ELSE 0
<1>1. ASSUME NEW i \in {1, 2}, p \in ItemsOf(lists[i])
      PROVE  place(i) \in Nat \ {0}
  <2>1. \E k \in DOMAIN lists[i] : lists[i][k] = p
    BY <1>1 DEF ItemsOf
  <2>2. place(i) \in DOMAIN lists[i]
    BY <2>1
  <2> HIDE DEF place
  <2> QED
    BY <2>2
<1> HIDE DEF place
<1>2. ASSUME NEW i \in {1, 2} PROVE part(i) \in Nat
  <2>1. CASE p \in ItemsOf(lists[i])
    <3>1. RankConstant + place(i) \in Nat /\ RankConstant + place(i) > 0
      BY <1>1, <2>1, SearchAssumption
    <3> DEFINE d == RankConstant + place(i)
    <3> HIDE DEF d
    <3>2. 1000000 \div d \in Nat
      BY <3>1 DEF d
    <3> QED
      BY <2>1, <3>2 DEF d
  <2> QED
    BY <2>1
<1>3. FusedScore(p, lists) = part(1) + part(2)
  BY DEF FusedScore, place
<1> HIDE DEF part
<1> QED
  BY <1>2, <1>3

\* A list by score has every scored element.
LEMMA ScoreFacts ==
  ASSUME NEW S \in SUBSET Products, NEW score, \A x \in S : score[x] \in Nat
  PROVE  ByScore(S, score) \in Seq(S) /\ ItemsOf(ByScore(S, score)) = S
<1> DEFINE before(a, b) == \/ score[a] > score[b]
                           \/ score[a] = score[b] /\ Order[a] < Order[b]
           list == InOrder(S, before)
           R == {e \in S \X S : before(e[1], e[2])}
           placed == {<<x, 1 + Cardinality({y \in S : before(y, x)})>> : x \in S}
           U == {list[i] : i \in 1 .. Cardinality(S)}
<1>1. ByScore(S, score) = list
  BY DEF ByScore
<1>2. IsFiniteSet(S)
  BY SearchAssumption, FS_Subset
<1>3. Strict(S, R)
  <2>1. \A x \in S : score[x] \in Int /\ Order[x] \in Int
    BY SearchAssumption
  <2>2. \A x, y \in S : Order[x] = Order[y] => x = y
    BY SearchAssumption
  <2>3. \A x, y \in S : <<x, y>> \in R <=> before(x, y)
    OBVIOUS
  <2> HIDE DEF R
  <2>4. \A x \in S : ~before(x, x)
    BY <2>1
  <2>5. \A x, y \in S : x # y => before(x, y) \/ before(y, x)
    BY <2>1, <2>2
  <2>6. \A x, y, z \in S : before(x, y) /\ before(y, z) => before(x, z)
    BY <2>1
  <2> HIDE DEF before
  <2> QED BY <2>3, <2>4, <2>5, <2>6 DEF Strict
<1>4. list = [i \in 1 .. Cardinality(S) |-> (CHOOSE e \in placed : e[2] = i)[1]]
  BY DEF InOrder
<1>5. placed = Placed(S, R)
  <2>1. \A x \in S : Place(S, R)[x] = 1 + Cardinality({y \in S : before(y, x)})
    <3> TAKE x \in S
    <3>1. {y \in S : <<y, x>> \in R} = {y \in S : before(y, x)}
      OBVIOUS
    <3> HIDE DEF R, before
    <3> QED BY <3>1 DEF Place
  <2> HIDE DEF R, before
  <2> QED BY <2>1 DEF Placed
<1> HIDE DEF list, placed, before, R
<1>6. PutsInPlace(list, S, R)
  <2>1. list \in [1 .. Cardinality(S) -> U]
    BY <1>4
  <2>2. \A i \in 1 .. Cardinality(S) : list[i] = (CHOOSE e \in placed : e[2] = i)[1]
    BY <1>4
  <2>3. ASSUME NEW i \in 1 .. Cardinality(S), NEW d \in placed, d[2] = i
        PROVE  \E e \in placed : e[2] = i /\ list[i] = e[1]
    BY <2>2, <2>3
  <2> HIDE DEF U
  <2> QED BY <1>5, <2>1, <2>3 DEF PutsInPlace
<1>7. list \in Seq(S) /\ ItemsOf(list) = S
  BY <1>2, <1>3, <1>6, ListOfPlaces
<1> QED
  BY <1>1, <1>7

\* The search takes all its matches for candidates while they are within its limit.
WithinLimit(c, terms) == Cardinality(LexicalMatches(c, terms)) <= MaxCandidates

LEMMA LexicalFacts ==
  ASSUME NEW c, NEW terms, IsFiniteSet(terms), WithinLimit(c, terms)
  PROVE  LexicalRows(c, terms) = LexicalMatches(c, terms)
<1> DEFINE matches == LexicalMatches(c, terms)
           relevance == [p \in matches |-> Relevance(c, p, terms)]
           list == ByScore(matches, relevance)
<1>1. LexicalRows(c, terms) = ItemsOf(FirstOf(list, MaxCandidates))
  BY DEF LexicalRows
<1>2. matches \in SUBSET Products
  BY DEF LexicalMatches, Listed
<1>3. ASSUME NEW p PROVE Relevance(c, p, terms) \in Nat
  <2> DEFINE r == c.product[p]
             named == {t \in terms : FoundIn(r.name \union r.aliases, t)}
             described == {t \in terms \ named :
                             FoundIn(r.prose \union r.category \union SearchableValues(c, p), t)}
  <2>1. Relevance(c, p, terms) = 4 * Cardinality(named) + Cardinality(described)
    BY DEF Relevance
  <2>2. named \in SUBSET terms /\ described \in SUBSET terms
    OBVIOUS
  <2> HIDE DEF named, described
  <2>3. Cardinality(named) \in Nat /\ Cardinality(described) \in Nat
    BY <2>2, FS_Subset, FS_CardinalityType
  <2> QED
    BY <2>1, <2>3
<1>4. IsFiniteSet(matches) /\ Cardinality(matches) \in Nat
  BY <1>2, SearchAssumption, FS_Subset, FS_CardinalityType
<1> HIDE DEF matches
<1>5. \A p \in matches : relevance[p] \in Nat
  BY <1>3
<1> HIDE DEF relevance
<1>6. list \in Seq(matches) /\ ItemsOf(list) = matches
  BY <1>2, <1>5, ScoreFacts
<1>7. DOMAIN list = 1 .. Cardinality(matches)
  BY DEF ByScore, InOrder
<1> HIDE DEF list
<1>8. Len(list) <= MaxCandidates /\ Len(list) \in Nat
  <2>1. Len(list) \in Nat /\ DOMAIN list = 1 .. Len(list)
    BY <1>6
  <2>2. Len(list) = Cardinality(matches)
    BY <1>4, <1>7, <2>1
  <2> QED
    BY <2>1, <2>2 DEF WithinLimit, matches
<1>9. FirstOf(list, MaxCandidates) = list
  <2>1. (IF Len(list) < MaxCandidates THEN Len(list) ELSE MaxCandidates) = Len(list)
    BY <1>8, SearchAssumption
  <2>2. SubSeq(list, 1, Len(list)) = list
    BY <1>6
  <2> QED
    BY <2>1, <2>2 DEF FirstOf
<1> QED
  BY <1>1, <1>6, <1>9 DEF matches

\* The ranking of the candidates is a list of them, and of every candidate whose
\* identity the question hits.
LEMMA RankedFacts ==
  ASSUME NEW c, NEW records \in SUBSET Products, NEW terms, NEW V, NEW vectors \in Seq(V),
         NEW hits \in [Products -> Nat], NEW reliable
  PROVE  LET ranked == RankedProducts(c, records, terms, vectors, hits, reliable)
         IN  /\ ranked \in Seq(records)
             /\ \A p \in records : hits[p] > 0 => p \in ItemsOf(ranked)
<1> DEFINE score == [p \in records |-> LexicalScore(c, p, terms)]
           found == {p \in records : score[p] > 0}
           lexical == ByScore(found, score)
           close == Among(vectors, {r \in ItemsOf(vectors) : r.close})
           lists == <<lexical, [i \in DOMAIN close |-> close[i].product]>>
           fused == [p \in records |-> FusedScore(p, lists)]
           kept == {p \in records : reliable \/ fused[p] > 0 \/ hits[p] > 0}
           ranked == ByScore(kept, fused)
<1>1. RankedProducts(c, records, terms, vectors, hits, reliable) = ranked
  BY DEF RankedProducts
<1>2. IsFiniteSet(records) /\ found \in SUBSET records /\ kept \in SUBSET records
  <2>1. IsFiniteSet(records)
    BY SearchAssumption, FS_Subset
  <2> QED
    BY <2>1
<1>3. DOMAIN lexical = 1 .. Cardinality(found) /\ Cardinality(found) \in Nat
  <2> HIDE DEF found, score
  <2>1. Cardinality(found) \in Nat
    BY <1>2, FS_Subset, FS_CardinalityType
  <2> QED
    BY <2>1 DEF ByScore, InOrder
<1>4. DOMAIN close = 1 .. Len(close) /\ Len(close) \in Nat
  <2>1. close \in Seq(V)
    BY AmongFacts
  <2> HIDE DEF close
  <2> QED BY <2>1
<1>5. \A p \in records : fused[p] \in Nat
  <2> DEFINE second == [i \in DOMAIN close |-> close[i].product]
  <2>1. DOMAIN second = 1 .. Len(close)
    BY <1>4
  <2> HIDE DEF second, lexical, found
  <2>2. lists[1] = lexical /\ lists[2] = second
    BY DEF second
  <2> HIDE DEF lists, close
  <2>3. \A p : FusedScore(p, lists) \in Nat
    BY <1>3, <1>4, <2>1, <2>2, FusedNat
  <2> QED
    BY <2>3
<1> HIDE DEF fused
<1>6. ranked \in Seq(kept) /\ ItemsOf(ranked) = kept
  <2>1. kept \in SUBSET Products /\ \A p \in kept : fused[p] \in Nat
    BY <1>2, <1>5
  <2> HIDE DEF kept
  <2> QED BY <2>1, ScoreFacts
<1> HIDE DEF ranked
<1>7. ranked \in Seq(records)
  <2> HIDE DEF kept
  <2> QED BY <1>2, <1>6
<1>8. \A p \in records : hits[p] > 0 => p \in ItemsOf(ranked)
  BY <1>6
<1> QED
  BY <1>1, <1>7, <1>8 DEF ranked

\* A list of one list.
LEMMA FlattenOne ==
  ASSUME NEW e, NEW s, s = <<e>>
  PROVE  FlattenSeq(s) = e
<1> DEFINE step(f) == [i \in 1 .. 1 |-> IF i = 1 THEN s[i] ELSE f[i - 1] \o s[i]]
           flatten == CHOOSE f : f = step(f)
           g == [i \in 1 .. 1 |-> e]
<1>1. Len(s) = 1 /\ s[1] = e
  OBVIOUS
<1>2. step(g) = g
  <2>1. \A i \in 1 .. 1 : i = 1
    OBVIOUS
  <2> QED BY <1>1, <2>1
<1>3. flatten = step(flatten)
  <2> HIDE DEF step, g
  <2> QED BY <1>2
<1>4. flatten[1] = e
  <2> HIDE DEF flatten
  <2>1. 1 \in 1 .. 1
    OBVIOUS
  <2> QED BY <1>1, <1>3, <2>1
<1>5. FlattenSeq(s) = flatten[1]
  BY <1>1 DEF FlattenSeq
<1> QED
  BY <1>4, <1>5

\* The first n of a list.
LEMMA FirstOfFacts ==
  ASSUME NEW m \in Nat, NEW s, s = [i \in 1 .. m |-> s[i]], NEW n \in Nat
  PROVE  \E k \in 0 .. m : /\ FirstOf(s, n) = [i \in 1 .. k |-> s[i]] /\ k <= n
                           /\ k = (IF m < n THEN m ELSE n)
                           /\ Len(s) = m
<1> DEFINE k == IF m < n THEN m ELSE n
<1>1. k \in 0 .. m /\ k <= n
  OBVIOUS
<1>2. Len(s) = m
  OBVIOUS
<1>3. FirstOf(s, n) = SubSeq(s, 1, k)
  BY <1>2 DEF FirstOf
<1>4. SubSeq(s, 1, k) = [i \in 1 .. k |-> s[i]]
  <2> HIDE DEF k
  <2> QED BY <1>1
<1> QED
  BY <1>1, <1>2, <1>3, <1>4

\* A list of rows of one product.
RowsOf(s, p) == \E n \in Nat : /\ s = [i \in 1 .. n |-> s[i]]
                               /\ \A i \in 1 .. n : s[i].product = p

\* The first rows of one product are rows of it.
LEMMA FirstRows ==
  ASSUME NEW s, NEW p, RowsOf(s, p), NEW n \in Nat
  PROVE  RowsOf(FirstOf(s, n), p)
<1>1. PICK m \in Nat : s = [i \in 1 .. m |-> s[i]] /\ \A i \in 1 .. m : s[i].product = p
  BY DEF RowsOf
<1>2. \E k \in 0 .. m : /\ FirstOf(s, n) = [i \in 1 .. k |-> s[i]] /\ k <= n
                       /\ k = (IF m < n THEN m ELSE n)
                       /\ Len(s) = m
  BY <1>1, FirstOfFacts
<1>3. PICK k \in 0 .. m : FirstOf(s, n) = [i \in 1 .. k |-> s[i]]
  BY <1>2
<1> DEFINE f == FirstOf(s, n)
<1>4. f = [i \in 1 .. k |-> s[i]]
  BY <1>3
<1> HIDE DEF f
<1>5. DOMAIN f = 1 .. k /\ \A i \in 1 .. k : f[i] = s[i] /\ i \in 1 .. m
  BY <1>4
<1>6. \A i \in 1 .. k : f[i].product = p
  BY <1>1, <1>5
<1>7. k \in Nat /\ f = [i \in 1 .. k |-> f[i]]
  BY <1>4
<1>8. RowsOf(f, p)
  BY <1>6, <1>7 DEF RowsOf
<1> QED
  BY <1>8 DEF f

\* The evidence of a product is a list of rows of that product; there is some
\* when a variant on sale satisfies the plan.
LEMMA EvidenceFacts ==
  ASSUME NEW c, NEW p, NEW plan
  PROVE  RowsOf(Evidence(c, p, plan), p)
<1> DEFINE named == {v \in ActiveVariants(c, p) : MentionsSku(plan.query, c.variant[v].sku)}
           fits == {v \in ActiveVariants(c, p) :
                 /\ plan.variantIds # {} => v \in plan.variantIds
                 /\ MatchesBusinessFields(c, c.variant[v], c.product[p].category, plan)
                 /\ named # {} => v \in named
                 /\ PriceFits(c.variant[v], plan)
                 /\ plan.inStockOnly => Stock(c.variant[v]) = "IN_STOCK"}
           order == Sorted(fits)
<1>1. Evidence(c, p, plan) = [i \in DOMAIN order |-> Fact(c, p, order[i])]
  BY DEF Evidence
<1>2. fits \in SUBSET Variants
  BY DEF ActiveVariants, VariantsOf
<1> HIDE DEF fits
<1>3. DOMAIN order = 1 .. Cardinality(fits) /\ Cardinality(fits) \in Nat
  BY <1>2, SearchAssumption, FS_Subset, SortedFacts
<1> HIDE DEF order
<1>4. \A i \in DOMAIN order : Evidence(c, p, plan)[i].product = p
  BY <1>1 DEF Fact
<1> DEFINE s == Evidence(c, p, plan)
<1>5. s = [i \in 1 .. Cardinality(fits) |-> s[i]]
  BY <1>1, <1>3
<1> HIDE DEF s
<1> QED
  BY <1>3, <1>4, <1>5 DEF RowsOf, s

\* A product whose variant satisfies the plan has evidence.
LEMMA SomeEvidence ==
  ASSUME NEW c, NEW p, NEW plan, NEW v \in ActiveVariants(c, p), plan.variantIds = {},
         MatchesBusinessFields(c, c.variant[v], c.product[p].category, plan),
         \A u \in ActiveVariants(c, p) : ~MentionsSku(plan.query, c.variant[u].sku),
         PriceFits(c.variant[v], plan),
         plan.inStockOnly => Stock(c.variant[v]) = "IN_STOCK"
  PROVE  Evidence(c, p, plan) # <<>>
<1> DEFINE named == {u \in ActiveVariants(c, p) : MentionsSku(plan.query, c.variant[u].sku)}
           fits == {u \in ActiveVariants(c, p) :
                 /\ plan.variantIds # {} => u \in plan.variantIds
                 /\ MatchesBusinessFields(c, c.variant[u], c.product[p].category, plan)
                 /\ named # {} => u \in named
                 /\ PriceFits(c.variant[u], plan)
                 /\ plan.inStockOnly => Stock(c.variant[u]) = "IN_STOCK"}
           order == Sorted(fits)
<1>1. Evidence(c, p, plan) = [i \in DOMAIN order |-> Fact(c, p, order[i])]
  BY DEF Evidence
<1>2. fits \in SUBSET Variants /\ v \in fits
  BY DEF ActiveVariants, VariantsOf
<1> HIDE DEF fits
<1>3. 1 \in DOMAIN order
  BY <1>2, SearchAssumption, FS_Subset, SortedFacts
<1> HIDE DEF order
<1> QED
  BY <1>1, <1>3

\* What is shown of a DETAIL is of the first of the ranking.
LEMMA AnswerableFacts ==
  ASSUME NEW c, NEW plan, plan.operation = "DETAIL", NEW T, NEW ranked \in Seq(T),
         ranked # <<>>, NEW reliable \in BOOLEAN,
         NEW result, result = Answerable(c, plan, ranked, reliable),
         result.status = "FOUND"
  PROVE  /\ result.identified = reliable
         /\ RowsOf(result.evidence, ranked[1])
<1> DEFINE selected == FirstOf(ranked, 1)
           rows == [i \in DOMAIN selected |-> Evidence(c, selected[i], plan)]
           e == Evidence(c, ranked[1], plan)
<1>1. selected = <<ranked[1]>>
  <2>1. Len(ranked) \in Nat /\ Len(ranked) # 0 /\ ranked = [i \in 1 .. Len(ranked) |-> ranked[i]]
    OBVIOUS
  <2>2. PICK k \in 0 .. Len(ranked) :
          /\ selected = [i \in 1 .. k |-> ranked[i]]
          /\ k = (IF Len(ranked) < 1 THEN Len(ranked) ELSE 1)
    BY <2>1, FirstOfFacts
  <2>3. k = 1
    BY <2>1, <2>2
  <2> HIDE DEF selected
  <2> QED
    BY <2>2, <2>3
<1> HIDE DEF selected
<1>2. rows = <<e>>
  <2> HIDE DEF e
  <2>1. DOMAIN selected = 1 .. 1 /\ selected[1] = ranked[1]
    BY <1>1
  <2>2. rows = [i \in 1 .. 1 |-> e]
    BY <2>1 DEF e
  <2> QED
    BY <2>2
<1>3. FlattenSeq(rows) = e
  <2> HIDE DEF rows, e
  <2> QED BY <1>2, FlattenOne
<1>4. result = FromEvidence(c, plan, ranked, selected, e, reliable)
  BY <1>3 DEF Answerable, selected
<1> HIDE DEF e, rows
<1>5. result.evidence = FirstOf(e, MaxEvidence) /\ result.identified = reliable
  <2>1. ASSUME NEW status, NEW choices, status # "FOUND"
        PROVE  Outcome(status, choices).status # "FOUND"
    BY <2>1 DEF Outcome
  <2>2. VariantUnavailable(c, Head(selected)).status # "FOUND"
    BY DEF VariantUnavailable, Outcome
  <2>3. e # <<>>
    BY <1>4, <2>1, <2>2 DEF FromEvidence
  <2> DEFINE partial == Len(e) > MaxEvidence \/ Len(ranked) > Len(selected)
  <2>4. result = [Outcome("FOUND", <<>>) EXCEPT !.evidence = FirstOf(e, MaxEvidence),
                                                !.identified = reliable,
                                                !.truncated = partial]
    BY <1>4, <2>3 DEF FromEvidence
  <2> HIDE DEF partial
  <2> QED
    BY <2>4 DEF Outcome
<1>6. MaxEvidence \in Nat
  BY SearchAssumption
<1>7. RowsOf(e, ranked[1])
  BY EvidenceFacts DEF e
<1>8. RowsOf(FirstOf(e, MaxEvidence), ranked[1])
  BY <1>6, <1>7, FirstRows
<1> QED
  BY <1>5, <1>8

\* The leaders of an ambiguous DETAIL keep every candidate that satisfies the
\* plan and covers the whole subject.
LEMMA LeadersFacts ==
  ASSUME NEW c, NEW T, NEW ranked \in Seq(T), NEW plan,
         NEW n \in Nat \ {0}, NEW hits, \A x \in T : hits[x] \in 0 .. n,
         NEW p \in ItemsOf(ranked), Evidence(c, p, plan) # <<>>, hits[p] = n
  PROVE  /\ Leaders(c, ranked, hits, plan) \in Seq(T)
         /\ p \in ItemsOf(Leaders(c, ranked, hits, plan))
<1> DEFINE satisfying == Among(ranked, {x \in ItemsOf(ranked) : Evidence(c, x, plan) # <<>>})
           left == IF satisfying # <<>> THEN satisfying ELSE ranked
           best == CHOOSE m \in {hits[x] : x \in ItemsOf(left)} :
                     \A x \in ItemsOf(left) : hits[x] <= m
<1>1. satisfying \in Seq(T) /\ p \in ItemsOf(satisfying)
  BY AmongFacts
<1> HIDE DEF satisfying
<1>2. satisfying # <<>>
  BY <1>1 DEF ItemsOf
<1>3. left = satisfying
  BY <1>2
<1> HIDE DEF left
<1>4. \A x \in ItemsOf(left) : hits[x] \in 0 .. n
  BY <1>1, <1>3 DEF ItemsOf
<1>5. best = n
  <2>1. n \in {hits[x] : x \in ItemsOf(left)} /\ \A x \in ItemsOf(left) : hits[x] <= n
    BY <1>1, <1>3, <1>4
  <2>2. \A m \in {hits[x] : x \in ItemsOf(left)} :
          (\A x \in ItemsOf(left) : hits[x] <= m) => m = n
    BY <1>1, <1>3, <1>4
  <2> QED
    BY <2>1, <2>2
<1>6. Covering(left, hits) = IF best > 0 THEN Among(left, {x \in ItemsOf(left) : hits[x] = best})
                             ELSE left
  BY DEF Covering
<1> HIDE DEF best
<1>7. Covering(left, hits) = Among(left, {x \in ItemsOf(left) : hits[x] = n})
  BY <1>5, <1>6
<1>8. Covering(left, hits) \in Seq(T) /\ p \in ItemsOf(Covering(left, hits))
  BY <1>1, <1>3, <1>7, AmongFacts
<1>9. Leaders(c, ranked, hits, plan) = Covering(left, hits)
  BY DEF Leaders, left, satisfying
<1> QED
  BY <1>8, <1>9

\* The leaders are elements of the ranking.
LEMMA LeadersType ==
  ASSUME NEW c, NEW T, NEW ranked \in Seq(T), NEW plan, NEW hits
  PROVE  Leaders(c, ranked, hits, plan) \in Seq(T)
<1> DEFINE satisfying == Among(ranked, {x \in ItemsOf(ranked) : Evidence(c, x, plan) # <<>>})
           left == IF satisfying # <<>> THEN satisfying ELSE ranked
<1>1. satisfying \in Seq(T)
  BY AmongFacts
<1> HIDE DEF satisfying
<1>2. left \in Seq(T)
  BY <1>1
<1> HIDE DEF left
<1>3. Covering(left, hits) \in Seq(T)
  BY <1>2, AmongFacts DEF Covering
<1> QED
  BY <1>3 DEF Leaders, left, satisfying

\* The text of a product that the words of a question are looked up in.
IdentityText(c, p) == c.product[p].name \union c.product[p].aliases \union c.product[p].category
                        \union SearchableValues(c, p)
MatchesAll(c, p, terms) == \A t \in terms : FoundIn(IdentityText(c, p), t)

\* A result is of one product; of one that nobody named, only if no other
\* matches as well.
OneAnswer(c, plan, ids, terms, result) ==
  \E q \in Products :
    /\ RowsOf(result.evidence, q)
    /\ result.identified = (ids # {})
    /\ ids = {} => \A p \in Listed(c) :
                     Evidence(c, p, plan) # <<>> /\ MatchesAll(c, p, terms) => p = q

\* A DETAIL that is answered is answered with one product: the one it named, or
\* the only one that satisfies the plan and matches every subject word.
LEMMA CandidatesFacts ==
  ASSUME NEW c, NEW plan, plan.operation = "DETAIL", plan.category = {},
         NEW ids \in SUBSET Products, NEW terms, IsFiniteSet(terms), terms # {},
         WithinLimit(c, terms),
         NEW V, NEW vectors \in Seq(V),
         NEW result, result = Candidates(c, plan, ids, terms, vectors),
         result.status = "FOUND"
  PROVE  OneAnswer(c, plan, ids, terms, result)
<1> DEFINE reliable == ids # {}
           lexical == IF reliable THEN {} ELSE LexicalRows(c, terms)
           records == Filtered(c, plan) \intersect
                        (IF reliable THEN ids
                         ELSE lexical \union {r.product : r \in ItemsOf(vectors)})
           hits == [p \in Products |-> IF p \in lexical THEN IdentityHits(c, p, terms) ELSE 0]
           ranked == RankedProducts(c, records, terms, vectors, hits, reliable)
           leaders == Narrowed(c, plan, ranked, hits, reliable)
           n == Cardinality(terms)
<1>1. result = Settled(c, plan, leaders, vectors, reliable)
  BY DEF Candidates
<1>2. records \in SUBSET Products
  BY DEF Filtered, Listed
<1>3. n \in Nat \ {0}
  BY FS_CardinalityType, FS_EmptySet
<1>4. \A p : IdentityHits(c, p, terms) \in 0 .. n
  <2> TAKE p
  <2> DEFINE hit == {t \in terms : FoundIn(IdentityText(c, p), t)}
  <2>1. IdentityHits(c, p, terms) = Cardinality(hit)
    BY DEF IdentityHits, IdentityText
  <2>2. hit \in SUBSET terms
    OBVIOUS
  <2> HIDE DEF hit, n
  <2>3. IsFiniteSet(hit) /\ Cardinality(hit) <= n
    BY <2>2, FS_Subset DEF n
  <2>4. Cardinality(hit) \in Nat
    BY <2>3, FS_CardinalityType
  <2> QED
    BY <1>3, <2>1, <2>3, <2>4
<1> HIDE DEF n
<1>5. hits \in [Products -> Nat] /\ \A p \in Products : hits[p] \in 0 .. n
  BY <1>3, <1>4
<1>6. ranked \in Seq(records) /\ \A p \in records : hits[p] > 0 => p \in ItemsOf(ranked)
  <2> HIDE DEF records, hits, reliable
  <2> QED BY <1>2, <1>5, RankedFacts
<1>7. leaders = (IF ~reliable /\ Len(ranked) > 1 THEN Leaders(c, ranked, hits, plan) ELSE ranked)
  BY DEF Narrowed
<1>8. leaders \in Seq(records)
  <2> HIDE DEF records, hits, reliable, ranked, leaders
  <2> QED BY <1>6, <1>7, LeadersType
<1>9. /\ leaders # <<>> /\ ~(Len(leaders) > 1 /\ ~reliable)
      /\ result = Answerable(c, plan, leaders, reliable)
  <2> HIDE DEF reliable, leaders
  <2>1. ASSUME NEW status, NEW choices, status # "FOUND"
        PROVE  result # Outcome(status, choices)
    BY <2>1 DEF Outcome
  <2> QED
    BY <1>1, <2>1 DEF Settled
<1>10. RowsOf(result.evidence, leaders[1]) /\ result.identified = reliable
  <2> HIDE DEF records, reliable, leaders
  <2>1. reliable \in BOOLEAN
    BY DEF reliable
  <2> QED BY <1>8, <1>9, <2>1, AnswerableFacts
<1>11. ASSUME ids = {}, NEW p \in Listed(c), Evidence(c, p, plan) # <<>>, MatchesAll(c, p, terms)
       PROVE  p = leaders[1]
  <2>1. IdentityHits(c, p, terms) = n
    <3> DEFINE hit == {t \in terms : FoundIn(IdentityText(c, p), t)}
    <3>1. IdentityHits(c, p, terms) = Cardinality(hit)
      BY DEF IdentityHits, IdentityText
    <3>2. hit = terms
      BY <1>11 DEF MatchesAll
    <3> QED
      BY <3>1, <3>2 DEF n
  <2>2. p \in LexicalRows(c, terms)
    <3>1. p \in LexicalMatches(c, terms)
      BY <1>11 DEF MatchesAll, IdentityText, LexicalMatches, FoundIn
    <3> QED
      BY <3>1, LexicalFacts
  <2>3. p \in Products /\ p \in lexical /\ p \in records /\ ~reliable
    BY <1>11, <2>2 DEF Filtered, Listed
  <2>4. hits[p] = n
    BY <2>1, <2>3
  <2> HIDE DEF records, hits, ranked, leaders, reliable
  <2>5. p \in ItemsOf(ranked)
    BY <1>3, <1>6, <2>3, <2>4
  <2>6. p \in ItemsOf(leaders)
    <3>1. CASE Len(ranked) > 1
      <4>1. \A x \in records : hits[x] \in 0 .. n
        BY <1>2, <1>5
      <4>2. p \in ItemsOf(Leaders(c, ranked, hits, plan))
        BY <1>3, <1>6, <1>11, <2>4, <2>5, <4>1, LeadersFacts
      <4> QED
        BY <1>7, <2>3, <3>1, <4>2
    <3>2. CASE ~(Len(ranked) > 1)
      BY <1>7, <2>5, <3>2
    <3> QED
      BY <3>1, <3>2
  <2>7. DOMAIN leaders = 1 .. 1
    <3>1. Len(leaders) \in Nat /\ DOMAIN leaders = 1 .. Len(leaders) /\ Len(leaders) # 0
      BY <1>8, <1>9
    <3>2. Len(leaders) = 1
      BY <1>9, <2>3, <3>1
    <3> QED
      BY <3>1, <3>2
  <2> QED
    BY <2>6, <2>7 DEF ItemsOf
<1>12. leaders[1] \in Products
  <2> HIDE DEF records, leaders
  <2> QED BY <1>2, <1>8, <1>9
<1> HIDE DEF records, hits, ranked, leaders
<1> QED
  BY <1>10, <1>11, <1>12 DEF OneAnswer

\* The words of a question that may name what it is about.
SubjectTerms(c, plan) == plan.query \ (QuestionWords \union NonSubjectWords(c, plan))

\* A question about one product that the plan does not name, whose search looks for
\* every word of it.
OpenDetail(c, plan) ==
  /\ plan.operation = "DETAIL" /\ plan.productIds = {}
  /\ plan.filters = {} /\ plan.category = {}
  /\ IsFiniteSet(plan.query) /\ SubjectTerms(c, plan) # {}
  /\ Cardinality(SubjectTerms(c, plan)) <= MaxTerms
  /\ WithinLimit(c, SubjectTerms(c, plan))

\* It is answered with the product its words name in full, or with the only one
\* that matches.
LEMMA ReadFacts ==
  ASSUME NEW c, NEW plan, OpenDetail(c, plan), NEW V, NEW vectors \in Seq(V),
         NEW result, result = Read(c, plan, vectors), result.status = "FOUND"
  PROVE  \E q \in Products :
           /\ RowsOf(result.evidence, q)
           /\ ~result.identified =>
                /\ Probe(c, plan.query) = {}
                /\ \A p \in Listed(c) :
                     Evidence(c, p, plan) # <<>> /\ MatchesAll(c, p, SubjectTerms(c, plan))
                       => p = q
<1> DEFINE exact == Probe(c, plan.query)
           found == IF exact # {} THEN <<>> ELSE vectors
           terms == SubjectTerms(c, plan)
<1>1. exact \in SUBSET Products
  BY DEF Probe, Listed
<1>2. IsFiniteSet(terms)
  <2>1. terms \in SUBSET plan.query
    BY DEF SubjectTerms
  <2>2. IsFiniteSet(plan.query)
    BY DEF OpenDetail
  <2> QED BY <2>1, <2>2, FS_Subset
<1>3. found \in Seq(V)
  OBVIOUS
<1>4. result = Candidates(c, plan, exact, terms, found)
  <2> HIDE DEF exact, terms
  <2>1. ASSUME NEW choices PROVE result # Outcome("MISSING_INPUT", choices)
    BY DEF Outcome
  <2>2. ProductContentTerms(plan.query, NonSubjectWords(c, plan)) = terms
    BY DEF ProductContentTerms, OpenDetail, SubjectTerms, terms
  <2>3. terms # {} /\ plan.productIds = {} /\ plan.filters = {} /\ plan.operation = "DETAIL"
    BY DEF OpenDetail, terms
  <2> QED
    BY <2>1, <2>2, <2>3 DEF Read, exact
<1>5. OneAnswer(c, plan, exact, terms, result)
  <2> HIDE DEF exact, terms, found
  <2>1. terms # {} /\ WithinLimit(c, terms)
    BY DEF OpenDetail, terms
  <2> QED
    BY <1>1, <1>2, <1>3, <1>4, <2>1, CandidatesFacts DEF OpenDetail
<1> QED
  BY <1>5 DEF OneAnswer

\* The tokens of a row.
LEMMA RowTokenFacts ==
  ASSUME NEW w, NEW i, NEW x \in RowTokens(w, i)
  PROVE  x[1].row = i
<1> DEFINE e == w.result.evidence[i]
           token(field, value) == <<[row |-> i, field |-> field, key |-> ""], value>>
           keyed(field, key, value) == <<[row |-> i, field |-> field, key |-> key], value>>
<1>1. (\E field, value : x = token(field, value)) \/ (\E field, key, value : x = keyed(field, key, value))
  BY DEF RowTokens
<1>2. CASE \E field, value : x = token(field, value)
  <2>1. PICK field, value : x = token(field, value)
    BY <1>2
  <2> QED BY <2>1
<1>3. CASE \E field, key, value : x = keyed(field, key, value)
  <2>1. PICK field, key, value : x = keyed(field, key, value)
    BY <1>3
  <2> QED BY <2>1
<1> QED
  BY <1>1, <1>2, <1>3

\* What a question that found something is answered with.
AnswerOf(answer, w, t) ==
  answer \in {RenderProductAnswer(w, t), UnmatchedProductAnswer(w), SafeProductAnswer(w),
             Shown("FALLBACK", {}, FALSE, {})}

\* The names an answer shows are of the products of the evidence.
LEMMA NamesFacts ==
  ASSUME NEW w, NEW p, RowsOf(w.result.evidence, p), w.result.status = "FOUND",
         w.plan.operation # "COUNT", NEW t, NEW answer, AnswerOf(answer, w, t),
         NEW f \in answer.facts, f.field = "name"
  PROVE  f.product = p
<1>1. PICK n \in Nat : /\ w.result.evidence = [i \in 1 .. n |-> w.result.evidence[i]]
                       /\ \A i \in 1 .. n : w.result.evidence[i].product = p
  BY DEF RowsOf
<1> DEFINE evidence == w.result.evidence
<1>2. DOMAIN evidence = 1 .. n /\ Len(evidence) = n
  <2> HIDE DEF evidence
  <2>1. evidence = [i \in 1 .. n |-> evidence[i]]
    BY <1>1 DEF evidence
  <2> QED BY <2>1
<1>3. ASSUME NEW k, NEW value, k.row \in 1 .. n PROVE FactOf(w, k, value).product = p
  BY <1>1, <1>3 DEF FactOf
<1>4. ASSUME NEW k, NEW value PROVE FactOf(w, k, value).field = k.field
  BY DEF FactOf
<1>5. CASE answer = RenderProductAnswer(w, t)
  <2>1. PICK x \in ProductFactTokens(w) : f = FactOf(w, x[1], x[2])
    BY <1>5 DEF RenderProductAnswer, Shown
  <2>2. x[1].field = "name"
    BY <1>4, <2>1
  <2>3. PICK i \in DOMAIN evidence : x \in RowTokens(w, i)
    <3> DEFINE answered == [row |-> 0, field |-> "policy", key |-> ""]
               count == [row |-> 0, field |-> "count", key |-> ""]
               B == {<<answered, Said({y})>> : y \in w.policies}
               C == {<<count, Amount({y})>> : y \in w.result.total}
               A == {y \in UNION {RowTokens(w, i) : i \in DOMAIN evidence} :
                       AllowedField(y[1].field, ProductFieldPolicy(w.plan))}
    <3>1. ProductFactTokens(w) = A \union B \union C
      BY DEF ProductFactTokens
    <3>2. x \notin B /\ x \notin C
      <4>1. ASSUME x \in B PROVE FALSE
        <5>1. PICK y \in w.policies : x = <<answered, Said({y})>>
          BY <4>1
        <5>2. x[1].field = "policy"
          BY <5>1
        <5> QED BY <2>2, <5>2
      <4>2. ASSUME x \in C PROVE FALSE
        <5>1. PICK y \in w.result.total : x = <<count, Amount({y})>>
          BY <4>2
        <5>2. x[1].field = "count"
          BY <5>1
        <5> QED BY <2>2, <5>2
      <4> QED
        BY <4>1, <4>2
    <3>3. x \in A
      <4> HIDE DEF A, B, C
      <4> QED BY <2>1, <3>1, <3>2
    <3> QED
      BY <3>3
  <2>4. x[1].row = i
    BY <2>3, RowTokenFacts
  <2> QED
    BY <1>2, <1>3, <2>1, <2>4
<1>6. CASE answer = UnmatchedProductAnswer(w)
  BY <1>6 DEF UnmatchedProductAnswer, Shown
<1>7. CASE answer = SafeProductAnswer(w)
  <2> DEFINE shown == 1 .. Len(FirstOf(evidence, MaxSelected))
             listed == {FactOf(w, [row |-> i, field |-> "opts"],
                               OptionValues(w, evidence[i].product, key)) :
                          i \in shown, key \in w.plan.listOptions}
             rows == UNION {{FactOf(w, [row |-> i, field |-> "name"], Nothing)}
                              \union MutableFacts(w, i) \union DetailedProductLines(w, i) :
                              i \in shown}
  <2>1. answer.facts = rows \union listed
    <3> DEFINE partial == w.result.truncated \/ Len(evidence) > MaxSelected
               refs == {evidence[i].variant : i \in shown}
    <3>1. SafeProductAnswer(w) = Shown("SAFE", rows \union listed, partial, refs)
      BY DEF SafeProductAnswer
    <3> HIDE DEF rows, listed, partial, refs
    <3> QED
      BY <1>7, <3>1 DEF Shown
  <2>2. shown \subseteq 1 .. n
    <3>1. MaxSelected \in Nat /\ RowsOf(evidence, p)
      BY SearchAssumption
    <3>2. evidence = [i \in 1 .. n |-> evidence[i]]
      BY <1>1
    <3> HIDE DEF evidence
    <3>3. PICK k \in 0 .. n : FirstOf(evidence, MaxSelected) = [i \in 1 .. k |-> evidence[i]]
      <4>1. \E k \in 0 .. n : /\ FirstOf(evidence, MaxSelected) = [i \in 1 .. k |-> evidence[i]]
                              /\ k <= MaxSelected
                              /\ k = (IF n < MaxSelected THEN n ELSE MaxSelected)
                              /\ Len(evidence) = n
        BY <3>1, <3>2, FirstOfFacts
      <4> QED BY <4>1
    <3> DEFINE g == FirstOf(evidence, MaxSelected)
    <3> HIDE DEF g
    <3>4. Len(g) = k
      BY <3>3 DEF g
    <3> QED
      BY <3>4 DEF g
  <2> HIDE DEF shown, evidence
  <2>3. f \notin listed
    <3>1. \A i \in shown, key \in w.plan.listOptions :
            FactOf(w, [row |-> i, field |-> "opts"],
                   OptionValues(w, evidence[i].product, key)).field = "opts"
      BY <1>4
    <3>2. ASSUME f \in listed PROVE FALSE
      <4>1. PICK i \in shown, key \in w.plan.listOptions :
              f = FactOf(w, [row |-> i, field |-> "opts"],
                         OptionValues(w, evidence[i].product, key))
        BY <3>2
      <4> QED BY <3>1, <4>1
    <3> QED
      BY <3>2
  <2>4. PICK i \in shown : \/ f = FactOf(w, [row |-> i, field |-> "name"], Nothing)
                           \/ f \in MutableFacts(w, i)
                           \/ f \in DetailedProductLines(w, i)
    <3>1. f \in rows
      <4> HIDE DEF rows, listed
      <4> QED BY <2>1, <2>3
    <3> QED
      BY <3>1
  <2>5. f \notin MutableFacts(w, i) /\ f \notin DetailedProductLines(w, i)
    BY <1>4 DEF MutableFacts, DetailedProductLines, When
  <2> QED
    BY <1>3, <2>2, <2>4, <2>5
<1>8. CASE answer = Shown("FALLBACK", {}, FALSE, {})
  BY <1>8 DEF Shown
<1> QED
  BY <1>5, <1>6, <1>7, <1>8 DEF AnswerOf

-----------------------------------------------------------------------------
(* The customer's question.                                                 *)

\* Every variant has one price or none.
Priced(catalog) ==
  \A v \in Variants : /\ "price" \in DOMAIN catalog.variant[v]
                      /\ IsPrice(catalog.variant[v].price)

\* A command leaves one price or none on the variant it writes.
LEMMA RowPriced ==
  ASSUME Priced(store), NEW v \in Variants, NEW y, "price" \in DOMAIN y, IsPrice(y.price),
         DOMAIN store.variant = Variants,
         NEW cat, cat.variant = [store.variant EXCEPT ![v] = y]
  PROVE  Priced(cat)
BY DEF Priced

\* Whatever command runs, every variant still has one price or none.
LEMMA DonePriced ==
  ASSUME Sound(store, moved), Priced(store), NEW q, WellFormed(q)
  PROVE  Priced(Done(q))
<1> DEFINE p == q.product
           v == q.variant
           old == store.variant[v]
<1>1. /\ p \in Products /\ v \in Variants
      /\ DOMAIN store.variant = Variants /\ DOMAIN store.product = Products
      /\ {"product", "variant", "business"} \subseteq DOMAIN store
      /\ "price" \in DOMAIN old /\ IsPrice(old.price)
  BY DEF WellFormed, Sound, Tables, Priced
<1>2. CASE q.action = "CREATE_PRODUCT"
  <2> DEFINE y == NewVariant(p, q.fields)
  <2>1. y.price = q.fields.price /\ "price" \in DOMAIN y /\ IsPrice(q.fields.price)
    BY <1>2 DEF NewVariant, WellFormed
  <2> HIDE DEF y
  <2>2. Done(q) = CreateProduct(q)
    BY <1>2 DEF Done
  <2>3. CreateProduct(q).variant = [store.variant EXCEPT ![v] = y]
    BY <1>1 DEF CreateProduct, y
  <2> QED
    BY <1>1, <2>1, <2>2, <2>3, RowPriced
<1>3. CASE q.action = "UPDATE_PRODUCT"
  <2> DEFINE mid == [store EXCEPT !.product[p] = Patched(@, q.fields)]
  <2>1. Done(q) = [mid EXCEPT !.product[p].revision = @ + 1]
    BY <1>3 DEF Done, UpdateProduct, Revised
  <2>2. mid.variant = store.variant /\ DOMAIN mid = DOMAIN store
    BY <1>1
  <2> HIDE DEF mid
  <2>3. Done(q).variant = store.variant
    BY <1>1, <2>1, <2>2
  <2> QED
    BY <2>3 DEF Priced
<1>4. CASE q.action = "CREATE_VARIANT"
  <2> DEFINE y == NewVariant(p, q.fields)
             mid == [store EXCEPT !.variant[v] = y]
  <2>1. y.price = q.fields.price /\ "price" \in DOMAIN y /\ IsPrice(q.fields.price)
    BY <1>4 DEF NewVariant, WellFormed
  <2>2. Done(q) = [mid EXCEPT !.product[p].revision = @ + 1]
    BY <1>4 DEF Done, CreateVariant, Revised
  <2> HIDE DEF y
  <2>3. mid.variant = [store.variant EXCEPT ![v] = y] /\ DOMAIN mid = DOMAIN store
    BY <1>1
  <2> HIDE DEF mid
  <2>4. Done(q).variant = [store.variant EXCEPT ![v] = y]
    BY <1>1, <2>2, <2>3
  <2> QED
    BY <1>1, <2>1, <2>4, RowPriced
<1>5. CASE q.action = "UPDATE_VARIANT"
  <2> DEFINE new == Patched(old, q.fields)
             meta == IF "meta" \in DOMAIN q.fields THEN MergedMeta(old.meta, q.fields.meta)
                     ELSE old.meta
             balance == IF new.trackStock /\ ~old.trackStock /\ old.balance = {}
                        THEN NewBalance ELSE old.balance
             y == [new EXCEPT !.version = @ + 1, !.meta = meta, !.balance = balance]
             mid == [store EXCEPT !.variant[v] = y]
  <2>1. Done(q) = [mid EXCEPT !.product[p].revision = @ + 1]
    BY <1>5 DEF Done, UpdateVariant, Revised
  <2>2. "price" \in DOMAIN new /\ IsPrice(new.price)
    BY <1>1 DEF Patched, WellFormed
  <2> HIDE DEF new, meta, balance
  <2>3. "price" \in DOMAIN y /\ IsPrice(y.price)
    BY <2>2
  <2> HIDE DEF y
  <2>4. mid.variant = [store.variant EXCEPT ![v] = y] /\ DOMAIN mid = DOMAIN store
    BY <1>1
  <2> HIDE DEF mid
  <2>5. Done(q).variant = [store.variant EXCEPT ![v] = y]
    BY <1>1, <2>1, <2>4
  <2> QED
    BY <1>1, <2>3, <2>5, RowPriced
<1>6. CASE q.action = "ADJUST_STOCK"
  <2> DEFINE bs == {[b EXCEPT !.onHand = @ + q.fields.delta, !.version = @ + 1] :
                      b \in old.balance}
             y == [old EXCEPT !.balance = bs]
  <2>1. Done(q) = Adjust(q)
    BY <1>6 DEF Done
  <2>2. Adjust(q).variant = [store.variant EXCEPT ![v] = y]
    BY <1>1 DEF Adjust
  <2> HIDE DEF bs
  <2>3. "price" \in DOMAIN y /\ IsPrice(y.price)
    BY <1>1
  <2> HIDE DEF y
  <2> QED
    BY <1>1, <2>1, <2>2, <2>3, RowPriced
<1> QED
  BY <1>2, <1>3, <1>4, <1>5, <1>6 DEF WellFormed

\* The options of a plan are fields of the business it was made for.
PlanFits(plan, business) ==
  /\ IsFiniteSet(plan.query)
  /\ \A o \in plan.options : \E d \in Presets[business] : d.key = o.key /\ d.option

\* What the vectors may have brought to a search.
HitLists == {<<>>} \union {<<h>> : h \in [product : Products, close : BOOLEAN]}

\* What was found was read from the snapshot that is kept, for the business of
\* the plan.
WasRead ==
  /\ seen.business = turn.business
  /\ \E rows \in HitLists : turn.result = Read(seen, turn.plan, rows)

\* An answer is composed of what was found.
Composed == \E layout \in Layouts : turn.answer = Reply(layout)

\* What holds of the question between any two steps.
SearchInv ==
  /\ Priced(store) /\ Priced(seen)
  /\ turn.phase \in {"planned", "embedding", "searched", "answered"}
       => PlanFits(turn.plan, turn.business)
  /\ turn.phase \in {"embedding", "searched"}
       => DOMAIN turn = {"phase", "business", "plan", "result"}
  /\ turn.phase \in {"embedding", "searched", "answered"} /\ turn.result.status = "FOUND"
       => WasRead
  /\ turn.phase = "answered" => Composed

\* Nothing was asked at first.
LEMMA SearchInvInit == CatalogInit => SearchInv
BY PricesAssumption DEF CatalogInit, SearchInv, Priced

\* The commands and the presets leave the question alone.
LEMMA AdminPriced ==
  ASSUME CatalogInv, SearchInv, Priced(store)', UNCHANGED turnVars
  PROVE  SearchInv'
<1>1. turn' = turn /\ seen' = seen
  BY DEF turnVars
<1>2. ASSUME NEW layout PROVE Reply(layout)' = Reply(layout)
  BY <1>1 DEF Reply, Template, Workflow
<1>3. Composed => Composed'
  BY <1>1, <1>2 DEF Composed
<1>4. WasRead => WasRead'
  BY <1>1 DEF WasRead
<1> QED
  BY <1>1, <1>3, <1>4 DEF SearchInv, Priced

\* A run of a request leaves the catalog of one of its commands, or of before.
LEMMA ExecutePriced ==
  ASSUME CatalogInv, SearchInv, NEW r \in Requests, Execute(r)
  PROVE  Priced(store)'
<1>1. sent[r] # {} /\ Commanded(r) /\ Priced(store) /\ Sound(store, moved)
  BY DEF Execute, Pending, CatalogInv, SearchInv
<1>2. PICK q \in sent[r] : sent[r] = {q} /\ Sent(q)
  BY <1>1 DEF Commanded
<1>3. q = Request(r)
  BY <1>2 DEF Request
<1>4. store' = Done(q) \/ store' = store
  BY <1>3 DEF Execute
<1>5. Priced(Done(q))
  BY <1>1, <1>2, DonePriced DEF Sent
<1>6. Priced(store')
  BY Zenon, <1>1, <1>4, <1>5
<1> QED
  BY Zenon, <1>6 DEF Priced

\* The planner is given the options of the business of now.
LEMMA PlanStep ==
  ASSUME SearchInv, Plan
  PROVE  SearchInv'
<1>1. PICK plan \in Plans, asksStock \in BOOLEAN :
        /\ Plannable(plan)
        /\ turn' = [phase |-> "planned", business |-> PlannerCatalog(store).business,
                    plan |-> GroundStockFilter(WithChoices(plan, PlannerCatalog(store).options),
                                               asksStock)]
  BY DEF Plan
<1> DEFINE keys == PlannerCatalog(store).options
           chosen == WithChoices(plan, keys)
           grounded == GroundStockFilter(chosen, asksStock)
<1>2. grounded.query = plan.query /\ grounded.options = chosen.options
  <2>1. {"query", "options", "filters", "inStockOnly", "onHand"} \subseteq DOMAIN plan
    BY PlansAssumption
  <2>2. /\ DOMAIN chosen = DOMAIN plan /\ chosen.query = plan.query
    BY <2>1 DEF WithChoices
  <2> HIDE DEF chosen
  <2> QED
    BY <2>1, <2>2 DEF GroundStockFilter
<1>3. \A o \in chosen.options : \E d \in Presets[store.business] : d.key = o.key /\ d.option
  <2>1. \A key \in keys : \E d \in Presets[store.business] : d.key = key /\ d.option
    BY DEF PlannerCatalog, LoadCatalogFields
  <2>2. \A o \in plan.options : o.key \in keys
    BY <1>1 DEF Plannable
  <2> DEFINE picked == {f \in plan.filters : /\ f.operator = "EQ" /\ f.key \in keys
                                              /\ f.value.words # {}}
             fresh == {f \in picked : \A o \in plan.options : o.key # f.key}
             added == UNION {{[key |-> f.key, value |-> w] : w \in f.value.words} : f \in fresh}
  <2>3. chosen.options = plan.options \union added
    BY PlansAssumption DEF WithChoices
  <2>4. \A o \in added : o.key \in keys
    OBVIOUS
  <2> HIDE DEF keys, chosen, added
  <2>5. \A o \in chosen.options : o.key \in keys
    BY <2>2, <2>3, <2>4
  <2> QED
    BY <2>1, <2>5
<1>4. turn'.phase = "planned" /\ turn'.business = store.business /\ turn'.plan = grounded
  BY <1>1 DEF PlannerCatalog
<1> HIDE DEF grounded, chosen, keys
<1>5. PlanFits(turn'.plan, turn'.business)
  BY <1>2, <1>3, <1>4, PlansAssumption DEF PlanFits
<1>6. store' = store /\ seen' = seen
  BY DEF Plan, adminVars
<1> QED
  BY <1>4, <1>5, <1>6 DEF SearchInv, Priced, PlanFits

\* A question that is not searched has no options, and nothing is found for it.
LEMMA WithoutSearchStep ==
  ASSUME SearchInv, WithoutSearch
  PROVE  SearchInv'
<1>1. PICK status \in {"MISSING_INPUT", "FAILED"} :
        /\ DOMAIN turn' = {"phase", "business", "plan", "result"}
        /\ turn'.phase = "searched" /\ turn'.plan.query = {}
        /\ turn'.plan.options = {} /\ turn'.result = Outcome(status, <<>>)
  BY DEF WithoutSearch
<1>2. IsFiniteSet({})
  BY FS_EmptySet
<1>3. turn'.result.status # "FOUND"
  BY <1>1 DEF Outcome
<1>4. PlanFits(turn'.plan, turn'.business)
  BY <1>1, <1>2 DEF PlanFits
<1>5. store' = store /\ seen' = seen
  BY DEF WithoutSearch, adminVars
<1> QED
  BY <1>1, <1>3, <1>4, <1>5 DEF SearchInv, Priced, PlanFits

\* What a search of a searchable turn finds was read from the store of now.
LEMMA FoundStep ==
  ASSUME SearchInv, turn.phase \in {"planned", "embedding"}, NEW result, NEW again,
         Found(result, again),
         result.status = "FOUND" =>
           /\ store.business = turn.business
           /\ \E rows \in HitLists : result = Read(store, turn.plan, rows)
  PROVE  SearchInv'
<1>1. /\ DOMAIN turn' = {"phase", "business", "plan", "result"}
      /\ turn'.phase \in {"embedding", "searched"}
      /\ turn'.business = turn.business /\ turn'.plan = turn.plan /\ turn'.result = result
      /\ seen' = store /\ store' = store
  BY DEF Found, adminVars
<1>2. PlanFits(turn.plan, turn.business)
  BY DEF SearchInv
<1>3. result.status = "FOUND" => WasRead'
  BY <1>1 DEF WasRead
<1> QED
  BY <1>1, <1>2, <1>3 DEF SearchInv, Priced, PlanFits

\* The first search.
LEMMA SearchStep ==
  ASSUME SearchInv, Search
  PROVE  SearchInv'
<1> DEFINE result == IF Searchable THEN Read(store, turn.plan, <<>>)
                     ELSE Outcome("UNAVAILABLE", <<>>)
<1>1. turn.phase = "planned" /\ Found(result, TRUE)
  BY DEF Search
<1>2. Outcome("UNAVAILABLE", <<>>).status # "FOUND"
  BY DEF Outcome
<1>3. result.status = "FOUND" =>
        /\ store.business = turn.business
        /\ \E rows \in HitLists : result = Read(store, turn.plan, rows)
  BY <1>2 DEF Searchable, HitLists
<1> QED
  BY <1>1, <1>3, FoundStep

\* The second search, or its failure: what was found stays with its snapshot.
LEMMA VectorStep ==
  ASSUME SearchInv, SearchWithVectors
  PROVE  SearchInv'
<1>1. turn.phase = "embedding"
  BY DEF SearchWithVectors
<1>2. ASSUME Searchable, NEW rows \in VectorRows, Found(Read(store, turn.plan, rows), FALSE)
      PROVE  SearchInv'
  <2>1. rows \in HitLists
    BY DEF VectorRows, HitLists, Listed
  <2> QED
    BY <1>1, <1>2, <2>1, FoundStep DEF Searchable
<1>3. ASSUME turn' = [turn EXCEPT !.phase = "searched",
                                  !.result = IF @.status = "FOUND" THEN @
                                             ELSE Outcome("UNAVAILABLE", <<>>)],
             UNCHANGED <<adminVars, seen>>
      PROVE  SearchInv'
  <2>1. /\ DOMAIN turn = {"phase", "business", "plan", "result"}
        /\ PlanFits(turn.plan, turn.business)
        /\ turn.result.status = "FOUND" => WasRead
    BY <1>1 DEF SearchInv
  <2>2. /\ DOMAIN turn' = {"phase", "business", "plan", "result"}
        /\ turn'.phase = "searched" /\ turn'.plan = turn.plan /\ turn'.business = turn.business
        /\ turn'.result = IF turn.result.status = "FOUND" THEN turn.result
                          ELSE Outcome("UNAVAILABLE", <<>>)
    BY <1>3, <2>1
  <2>3. Outcome("UNAVAILABLE", <<>>).status # "FOUND"
    BY DEF Outcome
  <2>4. seen' = seen /\ store' = store
    BY <1>3 DEF adminVars
  <2>5. turn'.result.status = "FOUND" => WasRead'
    BY <2>1, <2>2, <2>3, <2>4 DEF WasRead
  <2> QED
    BY <2>1, <2>2, <2>4, <2>5 DEF SearchInv, Priced, PlanFits
<1> QED
  BY <1>2, <1>3 DEF SearchWithVectors

\* The answer is made of the rows, whichever way it is composed.
LEMMA AnswerStep ==
  ASSUME SearchInv, AnswerQuestion
  PROVE  SearchInv'
<1>1. PICK layout \in Layouts :
        turn' = [phase |-> "answered", business |-> turn.business, plan |-> turn.plan,
                 result |-> turn.result, answer |-> Reply(layout)]
  BY DEF AnswerQuestion
<1>2. turn.phase = "searched" /\ seen' = seen /\ store' = store
  BY DEF AnswerQuestion, adminVars
<1>3. /\ DOMAIN turn = {"phase", "business", "plan", "result"}
      /\ PlanFits(turn.plan, turn.business)
      /\ turn.result.status = "FOUND" => WasRead
  BY <1>2 DEF SearchInv
<1> DEFINE answer == Reply(layout)
<1>4. /\ turn'.phase = "answered" /\ turn'.plan = turn.plan
      /\ turn'.business = turn.business /\ turn'.result = turn.result
      /\ turn'.answer = answer
  <2> HIDE DEF answer
  <2> QED
    BY <1>1 DEF answer
<1>5. Composed'
  BY <1>4 DEF Composed, Reply, Template, Workflow
<1> HIDE DEF answer
<1>6. turn.result.status = "FOUND" => WasRead'
  BY <1>2, <1>3, <1>4 DEF WasRead
<1> QED
  BY <1>2, <1>3, <1>4, <1>5, <1>6 DEF SearchInv, Priced, PlanFits

\* One step of anybody.
LEMMA SearchInvStep ==
  ASSUME CatalogInv, SearchInv, [CatalogNext]_catalogVars
  PROVE  SearchInv'
<1>1. ASSUME NEW r \in Requests, NEW form \in Forms, Send(r, form) \/ SendAnother(r, form)
      PROVE  SearchInv'
  <2>1. UNCHANGED store /\ UNCHANGED turnVars
    BY <1>1 DEF Send, SendAnother
  <2> QED
    BY <2>1, AdminPriced DEF SearchInv, Priced
<1>2. ASSUME NEW r \in Requests, Execute(r) PROVE SearchInv'
  <2>1. UNCHANGED turnVars
    BY <1>2 DEF Execute
  <2> QED
    BY <1>2, <2>1, ExecutePriced, AdminPriced
<1>3. ASSUME NEW business \in DOMAIN Presets, NEW categories \in CategoryLimits,
             ApplyPreset(business, categories)
      PROVE  SearchInv'
  <2>1. store' = [store EXCEPT !.business = business, !.categories = categories]
        /\ UNCHANGED turnVars
    BY <1>3 DEF ApplyPreset
  <2>2. store'.variant = store.variant
    BY <2>1 DEF CatalogInv, Sound, Tables
  <2>3. Priced(store)'
    BY <2>2 DEF SearchInv, Priced
  <2> QED
    BY <2>1, <2>3, AdminPriced
<1>4. ASSUME RouteToKnowledge PROVE SearchInv'
  <2>1. turn'.phase = "knowledge" /\ store' = store /\ seen' = seen
    BY <1>4 DEF RouteToKnowledge, adminVars
  <2> QED
    BY <2>1 DEF SearchInv, Priced
<1>5. ASSUME UNCHANGED catalogVars PROVE SearchInv'
  <2>1. UNCHANGED store /\ UNCHANGED turnVars
    BY <1>5 DEF catalogVars, adminVars
  <2> QED
    BY <2>1, AdminPriced DEF SearchInv, Priced
<1> QED
  BY <1>1, <1>2, <1>3, <1>4, <1>5, PlanStep, WithoutSearchStep, SearchStep, VectorStep, AnswerStep
     DEF CatalogNext

\* Whatever the administrators change between the plan, the searches and the
\* answer, what is answered was read from one snapshot for the plan's business
\* (product-search.service.ts, product-answer.service.ts).
THEOREM SearchInvariance == CatalogSpec => []SearchInv
<1>1. CatalogInit => CatalogInv /\ SearchInv
  BY CatalogInvInit, SearchInvInit
<1>2. CatalogInv /\ SearchInv /\ [CatalogNext]_catalogVars => (CatalogInv /\ SearchInv)'
  BY CatalogInvStep, SearchInvStep
<1> QED
  BY <1>1, <1>2, PTL DEF CatalogSpec

\* A product on sale with a variant the choices fit has evidence, unless the
\* question names a SKU.
LEMMA FitsEvidence ==
  ASSUME Priced(seen), NEW plan, plan.operation = "DETAIL", plan.variantIds = {},
         plan.filters = {}, PlanFits(plan, seen.business),
         NEW p \in Listed(seen), Probe(seen, plan.query) = {},
         NEW v \in Sold(p), Fits(v, plan)
  PROVE  Evidence(seen, p, plan) # <<>>
<1> DEFINE r == seen.variant[v]
<1>1. v \in ActiveVariants(seen, p) /\ r.of = p /\ v \in Variants
  BY DEF Sold, ActiveVariants, VariantsOf
<1>2. \A u \in ActiveVariants(seen, p) : ~MentionsSku(plan.query, seen.variant[u].sku)
  BY <1>1 DEF Probe
<1>3. MatchesBusinessFields(seen, r, seen.product[p].category, plan)
  <2> SUFFICES ASSUME NEW o \in plan.options
               PROVE  \E d \in Presets[seen.business] :
                        /\ d.key = o.key /\ AppliesToCategory(seen, seen.product[p].category)
                        /\ d.option /\ OptionMatches(ValueOf(r, o.key).words, {o.value})
    BY DEF MatchesBusinessFields, LoadCatalogFields
  <2>1. PICK d \in Presets[seen.business] : d.key = o.key /\ d.option
    BY DEF PlanFits
  <2>2. /\ AppliesToCategory(seen, seen.product[p].category) /\ o.key \in DOMAIN r.meta
        /\ \E x \in r.meta[o.key].words : Canon[x] = Canon[o.value]
    BY <1>1 DEF Fits
  <2>3. OptionMatches(ValueOf(r, o.key).words, {o.value})
    BY <2>2 DEF OptionMatches, ValueOf
  <2> QED
    BY <2>1, <2>2, <2>3
<1>4. PriceFits(r, plan)
  <2>1. IsPrice(r.price)
    BY <1>1 DEF Priced
  <2>2. /\ \A n \in plan.minPrice : \E a \in r.price : a >= n
        /\ \A n \in plan.maxPrice : \E a \in r.price : a <= n
    BY DEF Fits
  <2> HIDE DEF r
  <2> QED
    BY <2>1, <2>2 DEF PriceFits, IsPrice
<1>5. plan.inStockOnly => Stock(r) = "IN_STOCK"
  BY DEF Fits, Stock
<1> QED
  BY <1>1, <1>2, <1>3, <1>4, <1>5, SomeEvidence

\* Without filters the words of the subject are those the search looks for, when
\* there are not too many.
LEMMA SubjectWordsFacts ==
  ASSUME NEW plan, plan.filters = {}
  PROVE  SubjectTerms(seen, plan) = SubjectWords(plan)
<1> DEFINE chosen == {o.value : o \in plan.options}
           filtered == UNION {f.value.words : f \in plan.filters}
           labels == {d.label : d \in Presets[seen.business]}
<1>1. NonSubjectWords(seen, plan) = chosen \union filtered \union labels
  BY DEF NonSubjectWords, LoadCatalogFields
<1>2. SubjectWords(plan) = plan.query \ (QuestionWords \union chosen \union labels)
  BY DEF SubjectWords
<1>3. filtered = {}
  OBVIOUS
<1> HIDE DEF chosen, filtered, labels
<1> QED
  BY <1>1, <1>2, <1>3 DEF SubjectTerms

\* "On the subject" is what the search matches.
LEMMA AboutMatches ==
  ASSUME NEW plan, plan.filters = {}, NEW p, About(p, plan)
  PROVE  /\ SubjectTerms(seen, plan) = SubjectWords(plan)
         /\ MatchesAll(seen, p, SubjectTerms(seen, plan))
<1>1. SubjectTerms(seen, plan) = SubjectWords(plan)
  BY SubjectWordsFacts
<1>2. ASSUME NEW w \in SubjectWords(plan) PROVE FoundIn(IdentityText(seen, p), w)
  <2> DEFINE keys == {d.key : d \in {f \in Presets[seen.business] : ~f.option /\ f.searchable}}
             said == UNION {UNION {seen.variant[v].meta[k].words :
                                     k \in DOMAIN seen.variant[v].meta \intersect keys} :
                              v \in Sold(p)}
  <2>1. PICK x \in seen.product[p].name \union seen.product[p].aliases
                     \union seen.product[p].category \union said :
               x = w \/ <<w, x>> \in Inside
    BY DEF About
  <2>2. said \subseteq SearchableValues(seen, p)
    <3> SUFFICES ASSUME NEW v \in Sold(p),
                        NEW k \in DOMAIN seen.variant[v].meta \intersect keys,
                        NEW y \in seen.variant[v].meta[k].words
                 PROVE  y \in SearchableValues(seen, p)
      OBVIOUS
    <3>1. v \in ActiveVariants(seen, p)
      BY DEF Sold, ActiveVariants, VariantsOf
    <3>2. k \in SearchableProductKeys(seen)
      BY DEF SearchableProductKeys, LoadCatalogFields
    <3>3. y \in ValueOf(seen.variant[v], k).words
      BY DEF ValueOf
    <3> QED
      BY <3>1, <3>2, <3>3 DEF SearchableValues
  <2> QED
    BY <2>1, <2>2 DEF FoundIn, IdentityText
<1> QED
  BY <1>1, <1>2 DEF MatchesAll

\* A question about one product is answered with one product, and not at all
\* when another on sale fits as well, as long as the products that share a word
\* with the question are within the limit of the search (product-search.service.ts).
THEOREM PickedTheorem == CatalogSpec => []NothingIsPickedSilently
<1>1. ASSUME SearchInv PROVE NothingIsPickedSilently
  <2> DEFINE plan == turn.plan
             result == turn.result
  <2> SUFFICES ASSUME turn.phase = "answered", result.status = "FOUND",
                      plan.operation = "DETAIL", plan.productIds = {}, plan.variantIds = {},
                      plan.filters = {}, plan.category = {}, SubjectWords(plan) # {},
                      Short(plan), WithinLimit(seen, SubjectWords(plan)),
                      NEW f \in turn.answer.facts, f.field = "name",
                      NEW g \in turn.answer.facts, g.field = "name"
               PROVE  /\ f.product = g.product
                      /\ \A p \in Products \ {f.product} :
                           ~result.identified =>
                             ~(/\ seen.product[p].status = "ACTIVE" /\ About(p, plan)
                               /\ \E v \in Sold(p) : Fits(v, plan))
    BY DEF NothingIsPickedSilently, Answered, WithinLimit
  <2>1. /\ Priced(seen) /\ PlanFits(plan, turn.business) /\ WasRead /\ Composed
    BY <1>1 DEF SearchInv
  <2>2. PICK rows \in HitLists : result = Read(seen, plan, rows)
    BY <2>1 DEF WasRead
  <2>3. seen.business = turn.business
    BY <2>1 DEF WasRead
  <2>4. SubjectTerms(seen, plan) = SubjectWords(plan)
    BY SubjectWordsFacts
  <2>5. rows \in Seq([product : Products, close : BOOLEAN])
    <3>1. CASE rows = <<>>
      BY <3>1
    <3>2. CASE rows # <<>>
      <4>1. PICK h \in [product : Products, close : BOOLEAN] : rows = <<h>>
        BY <3>2 DEF HitLists
      <4> QED
        BY <4>1
    <3> QED
      BY <3>1, <3>2
  <2>6. IsFiniteSet(plan.query)
    BY <2>1 DEF PlanFits
  <2>7. OpenDetail(seen, plan)
    BY <2>4, <2>6 DEF OpenDetail, Short
  <2>8. PICK q \in Products :
          /\ RowsOf(result.evidence, q)
          /\ ~result.identified =>
               /\ Probe(seen, plan.query) = {}
               /\ \A p \in Listed(seen) :
                    Evidence(seen, p, plan) # <<>>
                      /\ MatchesAll(seen, p, SubjectTerms(seen, plan)) => p = q
    <3> HIDE DEF plan, result
    <3> QED
      BY <2>2, <2>5, <2>7, ReadFacts
  <2>9. f.product = q /\ g.product = q
    <3>1. PICK layout \in Layouts : turn.answer = Reply(layout)
      BY <2>1 DEF Composed
    <3> DEFINE w == Workflow
               t == Template(layout)
    <3>2. AnswerOf(turn.answer, w, t)
      BY <3>1 DEF Reply, AnswerOf
    <3>3. w.result = result /\ w.plan = plan
      BY DEF Workflow
    <3> HIDE DEF w, t
    <3>4. RowsOf(w.result.evidence, q) /\ w.result.status = "FOUND" /\ w.plan.operation # "COUNT"
      BY <2>8, <3>3
    <3> QED
      BY <3>2, <3>4, NamesFacts
  <2>10. ASSUME NEW p \in Products, ~result.identified, seen.product[p].status = "ACTIVE",
               About(p, plan), NEW v \in Sold(p), Fits(v, plan)
        PROVE  p = q
    <3> HIDE DEF plan, result
    <3>1. p \in Listed(seen)
      BY <2>10 DEF Listed
    <3>2. Evidence(seen, p, plan) # <<>>
      BY <2>1, <2>3, <2>8, <2>10, <3>1, FitsEvidence
    <3>3. MatchesAll(seen, p, SubjectTerms(seen, plan))
      BY <2>10, AboutMatches
    <3> QED
      BY <2>8, <2>10, <3>1, <3>2, <3>3
  <2> QED
    BY <2>9, <2>10
<1> QED
  BY <1>1, SearchInvariance, PTL

=============================================================================
