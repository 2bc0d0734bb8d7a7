---------------------------- MODULE ProductTurn ----------------------------
(* One customer event about products: the commerceTurn row with its lease,    *)
(* its three stages (plan, retrieval, response) and its call slots, and the   *)
(* attempts that work on it. An attempt is one handling of the event, first   *)
(* ProductRetrievalService.retrieveProduct, then ProductAnswerService.answer. *)
(* Every awaited call is an action: an attempt may lose its lease, die, or    *)
(* fail between any two of them.                                              *)
EXTENDS Naturals, FiniteSets

CONSTANTS
    Attempts,     \* handlings of the event that may run at the same time
    MaxAttempts,  \* bound: handlings begun
    MaxFaults,    \* bound: crashes, lapses under a live attempt, failed writes
    MaxCatalog,   \* bound: versions of the catalog
    Modes,        \* plan modes in use
    None          \* no value

ASSUME BoundsAssumption ==
    /\ {MaxAttempts, MaxFaults, MaxCatalog} \subseteq Nat /\ MaxCatalog > 0
    /\ "PRODUCT" \in Modes /\ Modes \subseteq {"GENERAL", "KNOWLEDGE", "PRODUCT", "BOTH"}

VARIABLES
    turn,      \* the row, or its absence
    broad,     \* the message is a broad inquiry (isBroadProductInquiry)
    slot,      \* commerceLlmCall rows of the turn
    bill,      \* operation key of a slot -> state of its payment
    att,       \* attempt -> program counter and locals
    catalog,   \* version of the products that searches read
    begun, faults,
    replies    \* history: what attempts returned from answer

vars == <<turn, broad, slot, bill, att, catalog, begun, faults, replies>>

Slots == {"PLAN", "ANSWER", "CRITICAL_REPAIR"}
Statuses == {"FOUND", "NO_MATCH", "MISSING_INPUT", "UNAVAILABLE"}
Verdicts == {"valid", "invalid", "insufficient"}

\* critical: a comparison, or a question for both price and stock.
Plans == [mode : Modes, failed : BOOLEAN, critical : BOOLEAN, seen : 0 .. MaxCatalog]
\* policies: the knowledge half found an answer; product is FALSE for a
\* retrieval that the knowledge route answers.
Retrievals == [plan : Plans, product : BOOLEAN, status : Statuses, failed : BOOLEAN,
               policies : BOOLEAN, seen : 0 .. MaxCatalog]
Texts == {"ai", "safe", "named", "fallback"}
Responses == [text : Texts, isFallback : BOOLEAN, of : Retrievals]
ASSUME NoneAssumption ==
    /\ None \notin Attempts /\ "dead" \notin Attempts
    /\ None \notin Plans /\ None \notin Retrievals /\ None \notin Responses

NoSlot == [state |-> None, result |-> None]
Idle == [pc |-> "idle", stage |-> "retrieve", slot |-> None, got |-> None, plan |-> None,
         retrieval |-> None, response |-> None]

Init ==
    /\ turn = [exists |-> FALSE, plan |-> None, retrieval |-> None, response |-> None,
               owner |-> None, lapsed |-> FALSE]
    /\ broad \in BOOLEAN
    /\ slot = [s \in Slots |-> NoSlot]
    /\ bill = [s \in Slots |-> [state |-> "free", result |-> None]]
    /\ att = [a \in Attempts |-> Idle]
    /\ catalog = 1 /\ begun = 0 /\ faults = 0 /\ replies = {}

At(a, pc) == att[a].pc = pc
Go(a, pc) == att' = [att EXCEPT ![a].pc = pc]
Leave(a) == att' = [att EXCEPT ![a] = Idle]
Fault == faults < MaxFaults /\ faults' = faults + 1
Owns(a) == turn.exists /\ turn.owner = a

-----------------------------------------------------------------------------
(* The lease                                                                  *)

Begin(a) ==
    /\ At(a, "idle") /\ begun < MaxAttempts
    /\ begun' = begun + 1
    /\ Go(a, "find")
    /\ UNCHANGED <<turn, broad, slot, bill, catalog, faults, replies>>

\* retrieveProduct: an existing turn is continued; a new event may take the
\* knowledge route without one (routeWithoutPlanner).
Find(a) ==
    /\ At(a, "find")
    /\ \/ turn.exists /\ Go(a, "claim")
       \/ ~turn.exists /\ (Go(a, "open") \/ Leave(a))
    /\ UNCHANGED <<turn, broad, slot, bill, catalog, begun, faults, replies>>

\* open: an upsert, so that two first attempts share one row.
Open(a) ==
    /\ At(a, "open")
    /\ turn' = [turn EXCEPT !.exists = TRUE]
    /\ Go(a, "claim")
    /\ UNCHANGED <<broad, slot, bill, catalog, begun, faults, replies>>

Claimable == turn.owner = None \/ turn.lapsed

\* A stored retrieval is returned without the lease.
AlreadyRetrieved(a) ==
    /\ At(a, "claim") /\ att[a].stage = "retrieve" /\ turn.retrieval # None
    /\ IF turn.retrieval.product
       THEN att' = [att EXCEPT ![a].stage = "answer", ![a].retrieval = turn.retrieval]
       ELSE Leave(a)
    /\ UNCHANGED <<turn, broad, slot, bill, catalog, begun, faults, replies>>

\* Mutant: the stages are not read again under the lease.
ClaimAnew(a) ==
    /\ At(a, "claim") /\ Claimable
    /\ turn' = [turn EXCEPT !.owner = a, !.lapsed = FALSE]
    /\ Go(a, IF att[a].stage = "retrieve" THEN "plan" ELSE "compose")
    /\ UNCHANGED <<broad, slot, bill, catalog, begun, faults, replies>>

\* withLease: a lease and a fresh read of the row; the stages found done are
\* taken over.
Claim(a) ==
    /\ At(a, "claim") /\ Claimable
    /\ turn' = [turn EXCEPT !.owner = a, !.lapsed = FALSE]
    /\ att' = [att EXCEPT
         ![a].plan = turn.plan,
         ![a].retrieval = IF turn.retrieval # None THEN turn.retrieval ELSE @,
         ![a].response = turn.response,
         ![a].pc = IF att[a].stage = "retrieve"
                   THEN (IF turn.retrieval # None THEN "release"
                         ELSE IF turn.plan # None THEN "search" ELSE "plan")
                   ELSE (IF turn.response # None THEN "release" ELSE "compose")]
    /\ UNCHANGED <<broad, slot, bill, catalog, begun, faults, replies>>

\* "Product turn is processing; retry the same event".
ClaimRefused(a) ==
    /\ At(a, "claim") /\ ~Claimable
    /\ Leave(a)
    /\ UNCHANGED <<turn, broad, slot, bill, catalog, begun, faults, replies>>

Freed(a) == IF turn.owner = a THEN [turn EXCEPT !.owner = None, !.lapsed = FALSE] ELSE turn

\* withLease, finally: the lease is given back by its owner only. A retrieval
\* without a product is answered by the knowledge route, which keeps nothing
\* here; otherwise answer begins, or its response is returned.
Release(a) ==
    /\ At(a, "release")
    /\ turn' = Freed(a)
    /\ IF att[a].stage = "retrieve" /\ att[a].retrieval.product
       THEN att' = [att EXCEPT ![a].pc = "claim", ![a].stage = "answer"] /\ UNCHANGED replies
       ELSE /\ replies' = IF att[a].stage = "answer" THEN replies \cup {att[a].response} ELSE replies
            /\ Leave(a)
    /\ UNCHANGED <<broad, slot, bill, catalog, begun, faults>>

\* A stage throws: the event is retried, the lease is given back.
Throw(a) == turn' = Freed(a) /\ Leave(a)

\* The process dies with the lease; a call it had in flight stays held.
Crash(a) ==
    /\ att[a].pc \notin {"idle", "find"} /\ Fault
    /\ turn' = IF turn.owner = a THEN [turn EXCEPT !.owner = "dead"] ELSE turn
    /\ Leave(a)
    /\ UNCHANGED <<broad, slot, bill, catalog, begun, replies>>

\* 180 s without a heartbeat: the owner is dead, or alive but slow.
LeaseLapses ==
    /\ turn.owner # None /\ ~turn.lapsed
    /\ IF turn.owner = "dead" THEN UNCHANGED faults ELSE Fault
    /\ turn' = [turn EXCEPT !.lapsed = TRUE]
    /\ UNCHANGED <<broad, slot, bill, att, catalog, begun, replies>>

\* The interval of a slow owner fires before another attempt claims.
Heartbeat(a) ==
    /\ Owns(a) /\ turn.lapsed /\ att[a].pc \notin {"idle", "find", "open", "claim"}
    /\ turn' = [turn EXCEPT !.lapsed = FALSE]
    /\ UNCHANGED <<broad, slot, bill, att, catalog, begun, faults, replies>>

-----------------------------------------------------------------------------
(* Calls                                                                      *)

\* call: the slot row is created, or found, under the lease. The third call is
\* the repair; a slot that failed is not called again.
MayOpen(s) ==
    LET taken == Cardinality({x \in Slots : slot[x] # NoSlot}) IN
    taken < 3 /\ (taken = 2 => s = "CRITICAL_REPAIR")

OpenSlot(a) ==
    LET s == att[a].slot IN
    /\ At(a, "call") /\ Owns(a)
    /\ CASE slot[s].state = "failed" -> UNCHANGED slot /\ Go(a, "called")
         [] slot[s].state = "done" ->
              UNCHANGED slot
              /\ att' = [att EXCEPT ![a].pc = "called", ![a].got = slot[s].result]
         [] slot[s].state = "open" -> UNCHANGED slot /\ Go(a, "generate")
         [] slot[s].state = None /\ MayOpen(s) ->
              slot' = [slot EXCEPT ![s].state = "open"] /\ Go(a, "generate")
         [] OTHER -> UNCHANGED slot /\ Go(a, "called")
    /\ UNCHANGED <<turn, broad, bill, catalog, begun, faults, replies>>

\* Every write of a stage, and the opening of a slot, is fenced by the lease.
LeaseLost(a) ==
    /\ att[a].pc \in {"call", "savePlan", "saveRetrieval", "saveResponse"} /\ ~Owns(a)
    /\ Throw(a)
    /\ UNCHANGED <<broad, slot, bill, catalog, begun, faults, replies>>

\* AiBillingService under the slot's operation key: a settled call is replayed,
\* a held one is pending, and only a free key reaches the provider.
Reserve(a) ==
    LET s == att[a].slot IN
    /\ At(a, "generate")
    /\ \/ /\ bill[s].state = "settled"
          /\ att' = [att EXCEPT ![a].pc = "store", ![a].got = bill[s].result]
          /\ UNCHANGED <<bill, turn>>
       \/ /\ bill[s].state = "free"
          /\ bill' = [bill EXCEPT ![s].state = "held"]
          /\ Go(a, "provider")
          /\ UNCHANGED turn
       \/ bill[s].state = "held" /\ Throw(a) /\ UNCHANGED bill
    /\ UNCHANGED <<broad, slot, catalog, begun, faults, replies>>

\* No credit: nothing was reserved or sent, and the slot stays retryable.
InsufficientCredit(a) ==
    /\ At(a, "generate") /\ bill[att[a].slot].state = "free" /\ Fault
    /\ Throw(a)
    /\ UNCHANGED <<broad, slot, bill, catalog, begun, replies>>

ResultsOf(s) == IF s = "PLAN" THEN Modes \cup {"invalid"} ELSE Verdicts

ProviderAnswers(a) ==
    LET s == att[a].slot IN
    /\ At(a, "provider")
    /\ \E r \in ResultsOf(s) :
         /\ bill' = [bill EXCEPT ![s] = [state |-> "settled", result |-> r]]
         /\ att' = [att EXCEPT ![a].pc = "store", ![a].got = r]
    /\ UNCHANGED <<turn, broad, slot, catalog, begun, faults, replies>>

\* The provider fails, or the customer's AI budget is used up: the hold is
\* released, and the slot is marked by an update of its own.
ProviderFails(a) ==
    /\ At(a, "provider")
    /\ bill' = [bill EXCEPT ![att[a].slot] = [state |-> "free", result |-> None]]
    /\ Go(a, "markFailed")
    /\ UNCHANGED <<turn, broad, slot, catalog, begun, faults, replies>>

\* The outcome is not known: PendingAiUsageError is rethrown, the hold stands.
ProviderUnknown(a) ==
    /\ At(a, "provider") /\ Fault
    /\ Throw(a)
    /\ UNCHANGED <<broad, slot, bill, catalog, begun, replies>>

MarkFailed(a) ==
    /\ At(a, "markFailed")
    /\ slot' = [slot EXCEPT ![att[a].slot].state = "failed"]
    /\ Go(a, "called")
    /\ UNCHANGED <<turn, broad, bill, catalog, begun, faults, replies>>

\* Only result is written: a slot marked failed meanwhile stays so.
StoreResult(a) ==
    LET s == att[a].slot IN
    /\ At(a, "store")
    /\ slot' = [slot EXCEPT ![s].result = att[a].got,
                            ![s].state = IF @ = "failed" THEN @ ELSE "done"]
    /\ Go(a, "called")
    /\ UNCHANGED <<turn, broad, bill, catalog, begun, faults, replies>>

\* The billing result is settled; a failed write propagates, for a replay.
StoreFails(a) ==
    /\ At(a, "store") /\ Fault
    /\ Throw(a)
    /\ UNCHANGED <<broad, slot, bill, catalog, begun, replies>>

\* An administrator releases the hold of a dead attempt (CreditBilling).
ReviewReleases(s) ==
    /\ bill[s].state = "held" /\ ~\E a \in Attempts : att[a].slot = s /\ At(a, "provider")
    /\ bill' = [bill EXCEPT ![s] = [state |-> "free", result |-> None]]
    /\ UNCHANGED <<turn, broad, slot, att, catalog, begun, faults, replies>>

-----------------------------------------------------------------------------
(* Plan                                                                       *)

FailedPlan(seen) == [mode |-> "PRODUCT", failed |-> TRUE, critical |-> FALSE, seen |-> seen]
BroadPlan == [mode |-> "PRODUCT", failed |-> FALSE, critical |-> FALSE, seen |-> 0]

\* A broad inquiry, an exact SKU and a question about policies alone are
\* planned without a call; anything else costs the PLAN call.
Plan(a) ==
    /\ At(a, "plan")
    /\ \/ broad /\ att' = [att EXCEPT ![a].pc = "savePlan", ![a].plan = BroadPlan]
       \/ ~broad /\ \E p \in [mode : Modes \ {"GENERAL"}, failed : {FALSE}, critical : BOOLEAN,
                               seen : {catalog}] :
             att' = [att EXCEPT ![a].pc = "savePlan", ![a].plan = p]
       \/ ~broad /\ att' = [att EXCEPT ![a].pc = "call", ![a].slot = "PLAN"]
    /\ UNCHANGED <<turn, broad, slot, bill, catalog, begun, faults, replies>>

\* The planner's answer is checked against the catalog read by this attempt: a
\* product, variant, option or filter outside it, or no answer at all, makes
\* the failed plan. GENERAL is overridden when the message names products.
PlansOf(got) ==
    {FailedPlan(catalog)} \cup
    [mode : (Modes \cap {got}) \cup (IF got = "GENERAL" THEN Modes \ {"KNOWLEDGE"} ELSE {}),
     failed : {FALSE}, critical : BOOLEAN, seen : {catalog}]

Planned(a) ==
    /\ At(a, "called") /\ att[a].slot = "PLAN"
    /\ \E p \in PlansOf(att[a].got) :
         att' = [att EXCEPT ![a].pc = "savePlan", ![a].plan = p, ![a].slot = None, ![a].got = None]
    /\ UNCHANGED <<turn, broad, slot, bill, catalog, begun, faults, replies>>

SavePlan(a) ==
    /\ At(a, "savePlan") /\ Owns(a)
    /\ turn' = [turn EXCEPT !.plan = att[a].plan]
    /\ Go(a, "search")
    /\ UNCHANGED <<broad, slot, bill, catalog, begun, faults, replies>>

-----------------------------------------------------------------------------
(* Retrieval                                                                  *)

Searched(a) == ~att[a].plan.failed /\ att[a].plan.mode \in {"PRODUCT", "BOTH"}

Found(a, status, policies, failed) ==
    [plan |-> att[a].plan, product |-> att[a].plan.failed \/ att[a].plan.mode # "KNOWLEDGE",
     status |-> status, failed |-> att[a].plan.failed \/ failed, policies |-> policies,
     seen |-> IF Searched(a) THEN catalog ELSE 0]

\* The product search and, for BOTH, the knowledge read: a knowledge error or
\* a conflict fails the whole; KNOWLEDGE is the knowledge route's alone.
Search(a) ==
    /\ At(a, "search")
    /\ \E status \in (IF ~Searched(a) THEN {"NO_MATCH"}
                      ELSE IF broad THEN {"MISSING_INPUT"} ELSE Statuses),
         policies \in (IF att[a].plan.mode = "BOTH" THEN BOOLEAN ELSE {FALSE}),
         failed \in (IF att[a].plan.mode = "BOTH" /\ ~att[a].plan.failed THEN BOOLEAN ELSE {FALSE}) :
         att' = [att EXCEPT ![a].pc = "saveRetrieval",
                            ![a].retrieval = Found(a, status, policies /\ ~failed, failed)]
    /\ UNCHANGED <<turn, broad, slot, bill, catalog, begun, faults, replies>>

\* The query embedding is pending, or there is no credit: the error is not
\* turned into UNAVAILABLE, it retries the event.
SearchPending(a) ==
    /\ At(a, "search") /\ Searched(a) /\ ~broad /\ Fault
    /\ Throw(a)
    /\ UNCHANGED <<broad, slot, bill, catalog, begun, replies>>

SaveRetrieval(a) ==
    /\ At(a, "saveRetrieval") /\ Owns(a)
    /\ turn' = [turn EXCEPT !.retrieval = att[a].retrieval]
    /\ Go(a, "release")
    /\ UNCHANGED <<broad, slot, bill, catalog, begun, faults, replies>>

-----------------------------------------------------------------------------
(* Answer                                                                     *)

General(a) == att[a].retrieval.plan.mode = "GENERAL"

\* A BOTH question whose policy half found nothing is answered as PRODUCT.
Critical(a) ==
    LET r == att[a].retrieval IN
    ~General(a) /\ (r.plan.critical \/ (r.plan.mode = "BOTH" /\ r.policies))

Reply(a, text, isFallback) ==
    att' = [att EXCEPT ![a].pc = "saveResponse", ![a].slot = None, ![a].got = None,
              ![a].response = [text |-> text, isFallback |-> isFallback, of |-> att[a].retrieval]]

\* What needs no model call: a failed workflow, or a search that found nothing.
Compose(a) ==
    LET r == att[a].retrieval IN
    /\ At(a, "compose")
    /\ IF r.failed THEN Reply(a, "fallback", TRUE)
       ELSE IF ~General(a) /\ r.status # "FOUND" THEN Reply(a, "safe", r.status = "UNAVAILABLE")
       ELSE att' = [att EXCEPT ![a].pc = "call", ![a].slot = "ANSWER"]
    /\ UNCHANGED <<turn, broad, slot, bill, catalog, begun, faults, replies>>

\* An answer that says the evidence does not suffice is not repaired; one that
\* fails the checks is, once, when the question is critical.
Answered(a) ==
    /\ At(a, "called") /\ att[a].slot = "ANSWER"
    /\ LET got == att[a].got IN
       CASE got # None /\ (General(a) \/ got = "valid") -> Reply(a, "ai", FALSE)
         [] got = "insufficient" /\ ~General(a) -> Reply(a, "fallback", TRUE) \/ Reply(a, "named", FALSE)
         [] got = "invalid" /\ ~General(a) /\ Critical(a) ->
              att' = [att EXCEPT ![a].pc = "call", ![a].slot = "CRITICAL_REPAIR", ![a].got = None]
         [] OTHER -> IF General(a) THEN Reply(a, "fallback", TRUE) ELSE Reply(a, "safe", FALSE)
    /\ UNCHANGED <<turn, broad, slot, bill, catalog, begun, faults, replies>>

Repaired(a) ==
    /\ At(a, "called") /\ att[a].slot = "CRITICAL_REPAIR"
    /\ IF att[a].got = "valid" THEN Reply(a, "ai", FALSE) ELSE Reply(a, "safe", FALSE)
    /\ UNCHANGED <<turn, broad, slot, bill, catalog, begun, faults, replies>>

\* Mutant: the save is not fenced by the lease.
SaveUnfenced(a) ==
    /\ At(a, "saveResponse")
    /\ turn' = [turn EXCEPT !.response = att[a].response]
    /\ Go(a, "release")
    /\ UNCHANGED <<broad, slot, bill, catalog, begun, faults, replies>>

SaveResponse(a) ==
    /\ At(a, "saveResponse") /\ Owns(a)
    /\ turn' = [turn EXCEPT !.response = att[a].response]
    /\ Go(a, "release")
    /\ UNCHANGED <<broad, slot, bill, catalog, begun, faults, replies>>

-----------------------------------------------------------------------------
\* An administrator edits a product.
ChangeCatalog ==
    /\ catalog < MaxCatalog
    /\ catalog' = catalog + 1
    /\ UNCHANGED <<turn, broad, slot, bill, att, begun, faults, replies>>

Next ==
    \/ \E a \in Attempts :
         \/ Begin(a) \/ Find(a) \/ Open(a) \/ AlreadyRetrieved(a) \/ Claim(a) \/ ClaimRefused(a)
         \/ Release(a) \/ Crash(a) \/ Heartbeat(a)
         \/ OpenSlot(a) \/ LeaseLost(a) \/ Reserve(a) \/ InsufficientCredit(a) \/ ProviderAnswers(a)
         \/ ProviderFails(a) \/ ProviderUnknown(a) \/ MarkFailed(a) \/ StoreResult(a) \/ StoreFails(a)
         \/ Plan(a) \/ Planned(a) \/ SavePlan(a) \/ Search(a) \/ SearchPending(a) \/ SaveRetrieval(a)
         \/ Compose(a) \/ Answered(a) \/ Repaired(a) \/ SaveResponse(a)
    \/ \E s \in Slots : ReviewReleases(s)
    \/ LeaseLapses
    \/ ChangeCatalog

Spec == Init /\ [][Next]_vars

-----------------------------------------------------------------------------
(* Properties                                                                 *)

PC == {"idle", "find", "open", "claim", "release", "plan", "savePlan", "search", "saveRetrieval",
       "compose", "saveResponse", "call", "generate", "provider", "markFailed", "store", "called"}
Results == Modes \cup Verdicts \cup {None}
Turn == [exists : BOOLEAN, plan : Plans \cup {None}, retrieval : Retrievals \cup {None},
         response : Responses \cup {None}, owner : Attempts \cup {None, "dead"}, lapsed : BOOLEAN]
Local == [pc : PC, stage : {"retrieve", "answer"}, slot : Slots \cup {None}, got : Results,
          plan : Plans \cup {None}, retrieval : Retrievals \cup {None},
          response : Responses \cup {None}]

\* The rows and the attempts keep their shape: a stage never holds a value of
\* another stage.
TypeOK ==
    /\ turn \in Turn /\ broad \in BOOLEAN
    /\ slot \in [Slots -> [state : {None, "open", "done", "failed"}, result : Results]]
    /\ bill \in [Slots -> [state : {"free", "held", "settled"}, result : Results]]
    /\ att \in [Attempts -> Local]
    /\ catalog \in 1 .. MaxCatalog /\ begun \in 0 .. MaxAttempts /\ faults \in 0 .. MaxFaults
    /\ replies \subseteq Responses

\* Whatever interleaves, every handling that returns an answer returns the one
\* that the turn keeps: a replayed event repeats its reply (answer returns
\* lease.turn.response, and save is fenced by the lease).
RepliesAgree == \A r \in replies : r = turn.response

\* A stage is decided once: a plan, a retrieval or a response that was saved is
\* not replaced by a slower attempt that planned or searched a later catalog.
StageStands ==
    /\ turn.plan # None => turn'.plan = turn.plan
    /\ turn.retrieval # None => turn'.retrieval = turn.retrieval
    /\ turn.response # None => turn'.response = turn.response
StagesStand == [][StageStands]_vars

=============================================================================
