---------------------------- MODULE CreditBilling ----------------------------
(***************************************************************************)
(* Prepaid AI credit: the wallet, the per-scope budgets, the credit holds   *)
(* (creditReservation rows) and the ledger, with the three parties that     *)
(* change them:                                                             *)
(*   - workers inside AiBillingService.runMetered, which reserve, call the  *)
(*     provider outside every transaction, and settle;                      *)
(*   - administrators, who review unresolved holds and set budget limits;   *)
(*   - top-up requests, confirmed or rejected by administrators.            *)
(*                                                                          *)
(* Every SERIALIZABLE transaction of CreditService is one action.  What a   *)
(* worker keeps in memory between two transactions (its CreditHold, with    *)
(* the amount it reserved) is in worker[w], so that a worker may act on a   *)
(* hold that somebody else has released and taken again meanwhile.          *)
(* The operation key is unique and a released row is taken again under its  *)
(* own id, so holds are indexed by the key.  Amounts count millionths of a  *)
(* credit, the resolution reserveAiCredit rounds to.                        *)
(***************************************************************************)
EXTENDS Integers, FiniteSetsExt

CONSTANTS
  Workers,       \* concurrent runMetered calls
  Admins,        \* concurrent releaseUnknownReservation requests
  Keys,          \* operation keys, usage:<turn>:<fingerprint>
  Scopes,        \* budget scopes
  ScopeOf,       \* the scope each operation is billed to
  LimitRequired, \* scopes whose calls pass requireBudgetLimit
  Quotes,        \* per operation, the amounts its quote may reserve
  Charges,       \* actual charges a successful call may come to
  Limits,        \* budget limits an administrator may set
  Bills,         \* top-up requests
  BillAmount,    \* credit each top-up adds
  MinBalance,    \* MIN_AI_BALANCE_CREDIT
  NoLimit,       \* limitCredit: null
  MaxCalls       \* bound: times each operation is started

ASSUME SetsAssumption ==
  /\ Keys # {} /\ IsFiniteSet(Scopes)
  /\ ScopeOf \in [Keys -> Scopes]
  /\ LimitRequired \subseteq Scopes
ASSUME AmountsAssumption ==
  /\ Quotes \in [Keys -> SUBSET Nat]
  /\ Charges \subseteq Nat
  /\ Limits \subseteq Nat
  /\ NoLimit \notin Nat
  /\ BillAmount \in [Bills -> Nat]
  /\ MinBalance \in Nat
  /\ MaxCalls \in [Keys -> Nat]
ASSUME RefsAssumption == Keys \cap Bills = {}

VARIABLES
  wallet,   \* creditWallet row
  budget,   \* creditBudget row of each scope
  hold,     \* creditReservation row of each operation key
  ledger,   \* creditLedger rows
  bill,     \* creditTopupHistory status of each request
  worker,   \* runMetered's locals
  admin,    \* releaseUnknownReservation's locals
  started,  \* how often each operation was started (names the payloads)
  replies   \* <<key, payload>> that runMetered returned to its caller

vars == <<wallet, budget, hold, ledger, bill, worker, admin, started, replies>>

HoldStatus   == {"NONE", "HELD", "UNKNOWN", "RELEASED", "SETTLED"}
LiveStatus   == {"HELD", "UNKNOWN"}
BillStatus   == {"NONE", "PENDING", "APPROVED", "REJECTED"}
WorkerPC     == {"idle", "lookup", "reserve", "replay", "calling",
                 "recordSuccess", "recordFailure", "markUnknown", "release"}

NoHold   == [status |-> "NONE", amount |-> 0, lapsed |-> FALSE, result |-> 0]
AnyKey   == CHOOSE k \in Keys : TRUE
IdleWorker == [pc |-> "idle", key |-> AnyKey, amount |-> 0, charge |-> 0, call |-> 0]
IdleAdmin  == [pc |-> "idle", key |-> AnyKey, amount |-> 0]

Init ==
  /\ wallet = [balance |-> 0, reserved |-> 0, topup |-> 0, spent |-> 0]
  /\ budget = [s \in Scopes |-> [limit |-> NoLimit, used |-> 0, reserved |-> 0]]
  /\ hold = [k \in Keys |-> NoHold]
  /\ ledger = {}
  /\ bill = [b \in Bills |-> "NONE"]
  /\ worker = [w \in Workers |-> IdleWorker]
  /\ admin = [a \in Admins |-> IdleAdmin]
  /\ started = [k \in Keys |-> 0]
  /\ replies = {}

-----------------------------------------------------------------------------
(* Transactions of CreditService.                                           *)

\* (Mutant) settled keys could be held again.
KeyFreeEvenSettled(k) == hold[k].status \notin LiveStatus

\* A key can be held once: it has no row, or a released one.
KeyFree(k) == hold[k].status \in {"NONE", "RELEASED"}

\* (Mutant) the check forgets the other reservations.
WalletCoversIgnoringHolds(amount) == wallet.balance - amount > MinBalance

\* The reservation leaves more than the minimum balance available ...
WalletCovers(amount) == wallet.balance - wallet.reserved - amount > MinBalance

\* (Mutant) only the exhausted budget is refused, not the overdrawn one.
BudgetCoversIfNotExhausted(k, amount) ==
  LET b == budget[ScopeOf[k]] IN b.limit # NoLimit => b.used + b.reserved < b.limit

\* ... and the scope's budget has room for it.
BudgetCovers(k, amount) ==
  LET b == budget[ScopeOf[k]] IN
    b.limit # NoLimit => /\ b.used + b.reserved < b.limit
                         /\ b.used + b.reserved + amount <= b.limit

\* reserveAiCredit's checks on the key, the wallet and the scope's budget.  The wallet is
\* always active: nothing in src sets it otherwise.
CanReserve(k, amount) ==
  /\ KeyFree(k)
  /\ ScopeOf[k] \in LimitRequired => budget[ScopeOf[k]].limit # NoLimit
  /\ WalletCovers(amount)
  /\ BudgetCovers(k, amount)

\* Moves amount into (or, negative, out of) the two reserved columns.
AddReserved(k, amount) ==
  /\ wallet' = [wallet EXCEPT !.reserved = @ + amount]
  /\ budget' = [budget EXCEPT ![ScopeOf[k]].reserved = @ + amount]

\* The charge fits what the wallet and the budget have once every reservation
\* other than this one is set aside.
WalletCoversCharge(amount, charge) ==
  /\ wallet.reserved - amount >= 0
  /\ wallet.balance - (wallet.reserved - amount) - charge > MinBalance
BudgetCoversCharge(k, amount, charge) ==
  LET b == budget[ScopeOf[k]] IN
  /\ b.reserved - amount >= 0
  /\ b.limit # NoLimit => b.used + (b.reserved - amount) + charge <= b.limit

\* recordAiUsage's checks: the row is still HELD, by whomever, and the charge fits.
CanRecord(k, amount, charge) ==
  /\ hold[k].status = "HELD"
  /\ WalletCoversCharge(amount, charge)
  /\ BudgetCoversCharge(k, amount, charge)

\* (Mutant) the budget's use is not counted.
RecordUsageUncounted(k, amount, charge, status, result) ==
  LET newBalance == wallet.balance - charge IN
  /\ wallet' = [wallet EXCEPT !.balance = newBalance, !.reserved = @ - amount,
                              !.spent = @ + charge]
  /\ budget' = [budget EXCEPT ![ScopeOf[k]].reserved = @ - amount]
  /\ ledger' = IF charge > 0
               THEN ledger \cup {[ref |-> k, amount |-> -charge, after |-> newBalance]}
               ELSE ledger
  /\ hold' = [hold EXCEPT ![k].status = status, ![k].result = result]

\* (Mutant) the transaction forgets to settle the row.
RecordUsageWithoutSettling(k, amount, charge, status, result) ==
  LET newBalance == wallet.balance - charge IN
  /\ wallet' = [wallet EXCEPT !.balance = newBalance, !.reserved = @ - amount,
                              !.spent = @ + charge]
  /\ budget' = [budget EXCEPT ![ScopeOf[k]].reserved = @ - amount,
                              ![ScopeOf[k]].used = @ + charge]
  /\ ledger' = ledger \cup {[ref |-> k, amount |-> -charge, after |-> newBalance]}
  /\ UNCHANGED hold
\* recordAiUsage's writes.
RecordUsage(k, amount, charge, status, result) ==
  LET newBalance == wallet.balance - charge IN
  /\ wallet' = [balance |-> newBalance, reserved |-> wallet.reserved - amount,
                topup |-> wallet.topup, spent |-> wallet.spent + charge]
  /\ budget' = [budget EXCEPT ![ScopeOf[k]] =
                  [limit |-> @.limit, used |-> @.used + charge, reserved |-> @.reserved - amount]]
  /\ ledger' = IF charge > 0
               THEN ledger \cup {[ref |-> k, amount |-> -charge, after |-> newBalance]}
               ELSE ledger
  /\ hold' = [hold EXCEPT ![k] = [status |-> status, amount |-> @.amount,
                                  lapsed |-> @.lapsed, result |-> result]]

\* releaseAiCredit: releases a live hold once, by the caller's own amount.
ReleaseAiCredit(k, amount) ==
  IF hold[k].status \in LiveStatus
  THEN /\ hold' = [hold EXCEPT ![k].status = "RELEASED"]
       /\ AddReserved(k, -amount)
  ELSE UNCHANGED <<hold, wallet, budget>>

-----------------------------------------------------------------------------
(* AiBillingService.runMetered and its callers runBilled and                *)
(* runBilledEmbedding, one worker per call.                                 *)

Goto(w, pc) == worker' = [worker EXCEPT ![w].pc = pc]
Return(w)   == worker' = [worker EXCEPT ![w] = IdleWorker]

\* A turn, or its retry, asks for the operation k.
Start(w, k) ==
  /\ worker[w].pc = "idle"
  /\ started[k] < MaxCalls[k]
  /\ started' = [started EXCEPT ![k] = @ + 1]
  /\ worker' = [worker EXCEPT ![w] = [pc |-> "lookup", key |-> k, amount |-> 0,
                                      charge |-> 0, call |-> started[k] + 1]]
  /\ UNCHANGED <<wallet, budget, hold, ledger, bill, admin, replies>>

\* (Mutant) an unresolved hold is taken for a settled one.
ReplayAnyRow(w) ==
  LET k == worker[w].key IN
  /\ worker[w].pc \in {"lookup", "replay"}
  /\ hold[k].status \in {"SETTLED", "UNKNOWN"}
  /\ replies' = replies \cup {<<k, hold[k].result>>}
  /\ Return(w)
  /\ UNCHANGED <<wallet, budget, hold, ledger, bill, admin, started>>

\* findSettledAiResult found a settled payload: return it instead of calling.
ReplaySettled(w) ==
  LET k == worker[w].key IN
  /\ worker[w].pc \in {"lookup", "replay"}
  /\ hold[k].status = "SETTLED"
  /\ replies' = replies \cup {<<k, hold[k].result>>}
  /\ Return(w)
  /\ UNCHANGED <<wallet, budget, hold, ledger, bill, admin, started>>

\* Nothing to replay: quote the request; its price is the one in force now.
Quote(w) ==
  /\ worker[w].pc = "lookup"
  /\ hold[worker[w].key].status # "SETTLED"
  /\ \E q \in Quotes[worker[w].key] :
       worker' = [worker EXCEPT ![w] = [pc |-> "reserve", key |-> @.key, amount |-> q,
                                        charge |-> 0, call |-> @.call]]
  /\ UNCHANGED <<wallet, budget, hold, ledger, bill, admin, started, replies>>

\* reserveAiCredit commits: a new row, or the released row taken again.
Reserve(w) ==
  LET k == worker[w].key   q == worker[w].amount IN
  /\ worker[w].pc = "reserve"
  /\ CanReserve(k, q)
  /\ hold' = [hold EXCEPT ![k] = [status |-> "HELD", amount |-> q,
                                  lapsed |-> FALSE, result |-> @.result]]
  /\ AddReserved(k, q)
  /\ Goto(w, "calling")
  /\ UNCHANGED <<ledger, bill, admin, started, replies>>

\* The key is held, unresolved or settled: PendingAiUsageError, look again.
ReservePending(w) ==
  /\ worker[w].pc = "reserve"
  /\ hold[worker[w].key].status \in LiveStatus \cup {"SETTLED"}
  /\ Goto(w, "replay")
  /\ UNCHANGED <<wallet, budget, hold, ledger, bill, admin, started, replies>>

\* InsufficientCreditException: the call ends without a provider call.
ReserveInsufficient(w) ==
  /\ worker[w].pc = "reserve"
  /\ hold[worker[w].key].status \in {"NONE", "RELEASED"}
  /\ ~CanReserve(worker[w].key, worker[w].amount)
  /\ Return(w)
  /\ UNCHANGED <<wallet, budget, hold, ledger, bill, admin, started, replies>>

\* Still unresolved at the second lookup: the PendingAiUsageError is thrown.
ReplayPending(w) ==
  /\ worker[w].pc = "replay"
  /\ hold[worker[w].key].status # "SETTLED"
  /\ Return(w)
  /\ UNCHANGED <<wallet, budget, hold, ledger, bill, admin, started, replies>>

\* The heartbeat of a call in flight: keepReservationAlive.
KeepReservationAlive(w) ==
  LET k == worker[w].key IN
  /\ worker[w].pc = "calling"
  /\ hold[k].status = "HELD"
  /\ hold[k].lapsed
  /\ hold' = [hold EXCEPT ![k].lapsed = FALSE]
  /\ UNCHANGED <<wallet, budget, ledger, bill, worker, admin, started, replies>>

\* The provider answered and the metered usage comes to some charge.
ProviderAnswers(w) ==
  /\ worker[w].pc = "calling"
  /\ \E c \in Charges :
       worker' = [worker EXCEPT ![w] = [pc |-> "recordSuccess", key |-> @.key,
                                        amount |-> @.amount, charge |-> c, call |-> @.call]]
  /\ UNCHANGED <<wallet, budget, hold, ledger, bill, admin, started, replies>>

\* The provider failed, or its answer could not be metered: record no charge.
ProviderFails(w) ==
  /\ worker[w].pc = "calling"
  /\ Goto(w, "recordFailure")
  /\ UNCHANGED <<wallet, budget, hold, ledger, bill, admin, started, replies>>

\* recordAiUsage(success) commits and its acknowledgement arrives.
RecordSuccess(w) ==
  LET k == worker[w].key IN
  /\ worker[w].pc = "recordSuccess"
  /\ CanRecord(k, worker[w].amount, worker[w].charge)
  /\ RecordUsage(k, worker[w].amount, worker[w].charge, "SETTLED", worker[w].call)
  /\ replies' = replies \cup {<<k, worker[w].call>>}
  /\ Return(w)
  /\ UNCHANGED <<bill, admin, started>>

\* recordAiUsage(success) commits, but the connection is lost before the
\* acknowledgement: record() handles it like any other error.
RecordSuccessUnacknowledged(w) ==
  LET k == worker[w].key IN
  /\ worker[w].pc = "recordSuccess"
  /\ CanRecord(k, worker[w].amount, worker[w].charge)
  /\ RecordUsage(k, worker[w].amount, worker[w].charge, "SETTLED", worker[w].call)
  /\ Goto(w, "markUnknown")
  /\ UNCHANGED <<bill, admin, started, replies>>

\* recordAiUsage(success) throws: a check failed, or the transaction did.
RecordSuccessFails(w) ==
  /\ worker[w].pc = "recordSuccess"
  /\ Goto(w, "markUnknown")
  /\ UNCHANGED <<wallet, budget, hold, ledger, bill, admin, started, replies>>

\* markReservationUnknown, then PendingAiUsageError.
MarkReservationUnknown(w) ==
  LET k == worker[w].key IN
  /\ worker[w].pc = "markUnknown"
  /\ hold' = IF hold[k].status = "HELD"
             THEN [hold EXCEPT ![k].status = "UNKNOWN"] ELSE hold
  /\ Return(w)
  /\ UNCHANGED <<wallet, budget, ledger, bill, admin, started, replies>>

\* recordAiUsage(failed) commits: the hold is released without a charge.
RecordFailure(w) ==
  LET k == worker[w].key IN
  /\ worker[w].pc = "recordFailure"
  /\ CanRecord(k, worker[w].amount, 0)
  /\ RecordUsage(k, worker[w].amount, 0, "RELEASED", hold[k].result)
  /\ \/ Return(w)
     \/ Goto(w, "release")   \* committed, acknowledgement lost
  /\ UNCHANGED <<bill, admin, started, replies>>

\* recordAiUsage(failed) throws.
RecordFailureFails(w) ==
  /\ worker[w].pc = "recordFailure"
  /\ Goto(w, "release")
  /\ UNCHANGED <<wallet, budget, hold, ledger, bill, admin, started, replies>>

\* record() gives the hold back itself after a failed failure record.
ReleaseAfterFailure(w) ==
  /\ worker[w].pc = "release"
  /\ ReleaseAiCredit(worker[w].key, worker[w].amount)
  /\ Return(w)
  /\ UNCHANGED <<ledger, bill, admin, started, replies>>

\* The process dies, or a statement outside the handled ones throws: the
\* call ends where it is and what it kept in memory is lost.
Crash(w) ==
  /\ worker[w].pc # "idle"
  /\ Return(w)
  /\ UNCHANGED <<wallet, budget, hold, ledger, bill, admin, started, replies>>

-----------------------------------------------------------------------------
(* Administrators.                                                          *)

\* 120 s pass without a heartbeat reaching the row.
HoldLapses(k) ==
  /\ hold[k].status = "HELD"
  /\ ~hold[k].lapsed
  /\ hold' = [hold EXCEPT ![k].lapsed = TRUE]
  /\ UNCHANGED <<wallet, budget, ledger, bill, worker, admin, started, replies>>

\* listUnresolvedReservations: every lapsed HELD hold becomes UNKNOWN.
ListUnresolvedReservations ==
  LET Lapsed == {k \in Keys : hold[k].status = "HELD" /\ hold[k].lapsed} IN
  /\ Lapsed # {}
  /\ hold' = [k \in Keys |-> IF k \in Lapsed
                             THEN [hold[k] EXCEPT !.status = "UNKNOWN"] ELSE hold[k]]
  /\ UNCHANGED <<wallet, budget, ledger, bill, worker, admin, started, replies>>

\* releaseUnknownReservation, first half: the row is read while UNKNOWN ...
ReadUnknownReservation(a, k) ==
  /\ admin[a].pc = "idle"
  /\ hold[k].status = "UNKNOWN"
  /\ admin' = [admin EXCEPT ![a] = [pc |-> "release", key |-> k, amount |-> hold[k].amount]]
  /\ UNCHANGED <<wallet, budget, hold, ledger, bill, worker, started, replies>>

\* ... second half: a transaction of its own releases it if it is still live.
ReleaseUnknownReservation(a) ==
  /\ admin[a].pc = "release"
  /\ ReleaseAiCredit(admin[a].key, admin[a].amount)
  /\ admin' = [admin EXCEPT ![a] = IdleAdmin]
  /\ UNCHANGED <<ledger, bill, worker, started, replies>>

SetBudgetLimit(s, limit) ==
  /\ limit # budget[s].limit
  /\ limit # NoLimit => limit >= budget[s].used + budget[s].reserved
  /\ budget' = [budget EXCEPT ![s].limit = limit]
  /\ UNCHANGED <<wallet, hold, ledger, bill, worker, admin, started, replies>>

CreateTopup(b) ==
  /\ bill[b] = "NONE"
  /\ bill' = [bill EXCEPT ![b] = "PENDING"]
  /\ UNCHANGED <<wallet, budget, hold, ledger, worker, admin, started, replies>>

ConfirmTopup(b) ==
  LET newBalance == wallet.balance + BillAmount[b] IN
  /\ bill[b] = "PENDING"
  /\ bill' = [bill EXCEPT ![b] = "APPROVED"]
  /\ wallet' = [balance |-> newBalance, reserved |-> wallet.reserved,
                topup |-> wallet.topup + BillAmount[b], spent |-> wallet.spent]
  /\ ledger' = ledger \cup {[ref |-> b, amount |-> BillAmount[b], after |-> newBalance]}
  /\ UNCHANGED <<budget, hold, worker, admin, started, replies>>

RejectTopup(b) ==
  /\ bill[b] = "PENDING"
  /\ bill' = [bill EXCEPT ![b] = "REJECTED"]
  /\ UNCHANGED <<wallet, budget, hold, ledger, worker, admin, started, replies>>

-----------------------------------------------------------------------------
WorkerStep(w) ==
  \/ ReplaySettled(w)  \/ Quote(w)  \/ Reserve(w)  \/ ReservePending(w)
  \/ ReserveInsufficient(w)  \/ ReplayPending(w)
  \/ ProviderAnswers(w)  \/ ProviderFails(w)
  \/ RecordSuccess(w)  \/ RecordSuccessUnacknowledged(w)  \/ RecordSuccessFails(w)
  \/ MarkReservationUnknown(w)
  \/ RecordFailure(w)  \/ RecordFailureFails(w)  \/ ReleaseAfterFailure(w)

AdminStep(a) ==
  \/ \E k \in Keys : ReadUnknownReservation(a, k)
  \/ ReleaseUnknownReservation(a)

Next ==
  \/ \E w \in Workers : \/ \E k \in Keys : Start(w, k)
                        \/ WorkerStep(w)
                        \/ KeepReservationAlive(w)
                        \/ Crash(w)
  \/ \E a \in Admins : AdminStep(a)
  \/ \E k \in Keys : HoldLapses(k)
  \/ ListUnresolvedReservations
  \/ \E s \in Scopes, l \in Limits \cup {NoLimit} : SetBudgetLimit(s, l)
  \/ \E b \in Bills : CreateTopup(b) \/ ConfirmTopup(b) \/ RejectTopup(b)

Spec == Init /\ [][Next]_vars

-----------------------------------------------------------------------------
(* Properties.                                                              *)

WalletRow   == [balance : Int, reserved : Int, topup : Nat, spent : Nat]
BudgetRow   == [limit : Nat \cup {NoLimit}, used : Nat, reserved : Int]
HoldRow     == [status : HoldStatus, amount : Nat, lapsed : BOOLEAN, result : Nat]
LedgerRow   == [ref : Keys \cup Bills, amount : Int, after : Int]
WorkerState == [pc : WorkerPC, key : Keys, amount : Nat, charge : Nat, call : Nat]
AdminState  == [pc : {"idle", "release"}, key : Keys, amount : Nat]

\* Every row and every local has its type (the reserved columns are signed).
TypeOK ==
  /\ wallet \in WalletRow
  /\ budget \in [Scopes -> BudgetRow]
  /\ hold \in [Keys -> HoldRow]
  /\ ledger \subseteq LedgerRow
  /\ bill \in [Bills -> BillStatus]
  /\ worker \in [Workers -> WorkerState]
  /\ admin \in [Admins -> AdminState]
  /\ started \in [Keys -> Nat]
  /\ replies \subseteq Keys \X Nat

LiveHolds == {k \in Keys : hold[k].status \in LiveStatus}

\* The wallet is the sum of its ledger, and spending is accounted three times
\* alike: lifetimeSpentCredit, the budgets' usedCredit and the debit rows.
LedgerExplainsWallet ==
  LET debits == {r \in ledger : r.ref \in Keys} IN
  /\ wallet.balance = MapThenSumSet(LAMBDA r : r.amount, ledger)
  /\ wallet.balance = wallet.topup - wallet.spent
  /\ wallet.spent = MapThenSumSet(LAMBDA r : -r.amount, debits)
  /\ wallet.spent = MapThenSumSet(LAMBDA s : budget[s].used, Scopes)

\* AI calls never take the available credit down to the minimum balance: from
\* the first hold on, balance less reservations stays above it, whatever the
\* actual charges come to and however many calls are in flight.
FloorKept ==
  (\E k \in Keys : hold[k].status # "NONE") =>
     wallet.balance - wallet.reserved > MinBalance

\* A limited budget never commits more than its limit, even when the limit is
\* moved while calls of the scope are in flight.
BudgetKept ==
  \A s \in Scopes : budget[s].limit # NoLimit =>
                      budget[s].used + budget[s].reserved <= budget[s].limit

\* An operation is debited at most once, and only together with its
\* settlement: recordAiUsage never meets the unique key it guards against.
OneDebitPerOperation ==
  \A r1 \in ledger : /\ r1.ref \in Keys => hold[r1.ref].status = "SETTLED"
                     /\ \A r2 \in ledger : r1.ref = r2.ref => r1 = r2

\* Whoever gets an answer for an operation gets the one that was paid for, and
\* all get the same: a reply is the settled payload of its key.
RepliesArePaid ==
  \A r \in replies : hold[r[1]].status = "SETTLED" /\ hold[r[1]].result = r[2]

\* A settled operation stays as it was settled; late failures, late
\* reviews and retries of the same key leave it alone.
SettledIsFinal ==
  [][\A k \in Keys : hold[k].status = "SETTLED" => hold'[k] = hold[k]]_vars

\* The billing code implements the prepaid account it promises: every step is
\* one payment, one reply or one top-up of that account, or none of them.
Account == INSTANCE PrepaidAccount WITH
             Payloads <- UNION {1..MaxCalls[k] : k \in Keys},
             balance  <- wallet.balance,
             answer   <- [k \in Keys |-> hold[k].result],
             credited <- {b \in Bills : bill[b] = "APPROVED"}
AccountSpec == Account!Init /\ [][Account!Next]_(Account!avars)

\* The inductive strengthening the proofs use: a payload number is stored when
\* and only when the operation is settled, calls in progress have a number,
\* and a top-up row stands for an approved request.
SettledHasResult == \A k \in Keys : hold[k].status = "SETTLED" <=> hold[k].result # 0
CallsNumbered ==
  /\ \A k \in Keys : started[k] <= MaxCalls[k]
  /\ \A w \in Workers : worker[w].pc # "idle" =>
                          worker[w].call \in 1..MaxCalls[worker[w].key]
  /\ \A w \in Workers : worker[w].pc = "recordSuccess" => worker[w].charge \in Charges
TopupsApproved == \A r \in ledger : r.ref \in Bills => bill[r.ref] = "APPROVED"

IInv ==
  /\ TypeOK
  /\ SettledHasResult /\ CallsNumbered /\ TopupsApproved
  /\ FloorKept /\ BudgetKept /\ OneDebitPerOperation /\ RepliesArePaid
=============================================================================
