------------------------- MODULE ProductTurn_proofs -------------------------
(* Machine-checked facts about ProductTurn, for every number of attempts,     *)
(* faults and versions of the catalog, and every set of plan modes.           *)
EXTENDS ProductTurn, TLAPS

-----------------------------------------------------------------------------
(* The inductive invariant.                                                   *)

Calling(a)   == att[a].pc \in {"call", "generate", "provider", "markFailed", "store", "called"}
Planning(a)  == att[a].pc \in {"plan", "savePlan"} \/ (Calling(a) /\ att[a].slot = "PLAN")
Searching(a) == att[a].pc \in {"search", "saveRetrieval"}
Answering(a) == att[a].pc \in {"compose", "saveResponse"} \/ (Calling(a) /\ att[a].slot # "PLAN")
Working(a)   == att[a].pc \notin {"idle", "find", "open", "claim"}

\* An attempt works for one stage, from values of the stages before it.
PointAgrees(a) ==
    /\ Calling(a) => att[a].slot \in Slots
    /\ Planning(a) \/ Searching(a) => att[a].stage = "retrieve"
    /\ Answering(a) => att[a].stage = "answer"
    /\ att[a].pc \in {"savePlan", "search"} => att[a].plan \in Plans
    /\ att[a].stage = "answer" \/ att[a].pc \in {"saveRetrieval", "release"}
         => att[a].retrieval \in Retrievals
    /\ att[a].pc = "saveResponse" => att[a].response \in Responses

\* Whoever has the lease works, and the stage it works for is still undecided.
OwnerDecides(a) == turn.owner = a =>
    /\ Working(a)
    /\ Planning(a) => turn.plan = None
    /\ Planning(a) \/ Searching(a) => turn.retrieval = None
    /\ Answering(a) => turn.response = None

\* An attempt that is about to return has the turn's response.
ReturnAgrees(a) == att[a].pc = "release" /\ att[a].stage = "answer" =>
    att[a].response \in Responses /\ att[a].response = turn.response

PointsAgree  == \A a \in Attempts : PointAgrees(a)
OwnersDecide == \A a \in Attempts : OwnerDecides(a)
ReturnsAgree ==
    /\ \A a \in Attempts : ReturnAgrees(a)
    /\ \A r \in replies : r \in Responses /\ r = turn.response

IInv == TypeOK /\ PointsAgree /\ OwnersDecide /\ ReturnsAgree

-----------------------------------------------------------------------------
(* Type correctness.                                                          *)

LEMMA IdleTypes == Idle \in Local
BY DEF Idle, Local, PC, Results

\* An attempt that moves on, stops, or takes well typed values stays well typed.
LEMMA MoveTypes ==
  ASSUME att \in [Attempts -> Local], NEW a \in Attempts,
         \/ \E pc \in PC : Go(a, pc)
         \/ Leave(a)
         \/ \E w \in Local : att' = [att EXCEPT ![a] = w]
  PROVE  att' \in [Attempts -> Local]
<1>1. ASSUME NEW pc \in PC, Go(a, pc) PROVE att' \in [Attempts -> Local]
  <2>1. [att[a] EXCEPT !.pc = pc] \in Local
    BY DEF Local
  <2> QED
    BY <1>1, <2>1 DEF Go
<1> QED
  BY <1>1, IdleTypes DEF Leave

LEMMA InitInv == Init => IInv
<1> SUFFICES ASSUME Init PROVE IInv
  OBVIOUS
<1>1. Idle \in Local /\ Idle.pc = "idle" /\ Idle.stage = "retrieve"
  BY IdleTypes DEF Idle
<1>2. att \in [Attempts -> Local]
  BY <1>1 DEF Init
<1>3. \A a \in Attempts : att[a].pc = "idle" /\ att[a].stage = "retrieve"
  BY <1>1 DEF Init
<1>4. turn \in Turn
  BY DEF Init, Turn
<1>5. slot \in [Slots -> [state : {None, "open", "done", "failed"}, result : Results]]
  BY DEF Init, NoSlot, Results
<1>6. bill \in [Slots -> [state : {"free", "held", "settled"}, result : Results]]
  BY DEF Init, Results
<1>7. broad \in BOOLEAN
  BY DEF Init
<1>8. /\ catalog \in 1 .. MaxCatalog /\ begun \in 0 .. MaxAttempts /\ faults \in 0 .. MaxFaults
      /\ replies = {}
  BY BoundsAssumption DEF Init
<1>9. turn.owner \notin Attempts
  BY NoneAssumption DEF Init
<1>10. PointsAgree /\ OwnersDecide /\ ReturnsAgree
  BY <1>3, <1>8, <1>9 DEF PointsAgree, PointAgrees, OwnersDecide, OwnerDecides, ReturnsAgree, ReturnAgrees, Calling, Planning, Searching, Answering
<1> QED
  BY <1>2, <1>4, <1>5, <1>6, <1>7, <1>8, <1>10 DEF IInv, TypeOK

\* Only these write the row of the turn, and what they write is well typed.
LEMMA TurnTypes ==
  ASSUME TypeOK, NEW a \in Attempts
  PROVE  /\ Freed(a) \in Turn
         /\ [turn EXCEPT !.exists = TRUE] \in Turn
         /\ [turn EXCEPT !.owner = a, !.lapsed = FALSE] \in Turn
         /\ [turn EXCEPT !.owner = "dead"] \in Turn
         /\ \A b \in BOOLEAN : [turn EXCEPT !.lapsed = b] \in Turn
         /\ \A p \in Plans \cup {None} : [turn EXCEPT !.plan = p] \in Turn
         /\ \A r \in Retrievals \cup {None} : [turn EXCEPT !.retrieval = r] \in Turn
         /\ \A x \in Responses \cup {None} : [turn EXCEPT !.response = x] \in Turn
<1>1. turn \in Turn
  BY DEF TypeOK
<1>2. [turn EXCEPT !.owner = None, !.lapsed = FALSE] \in Turn
  BY <1>1, Zenon DEF Turn
<1>3. [turn EXCEPT !.exists = TRUE] \in Turn
  BY <1>1, Zenon DEF Turn
<1>4. [turn EXCEPT !.owner = a, !.lapsed = FALSE] \in Turn
  BY <1>1, Zenon DEF Turn
<1>5. [turn EXCEPT !.owner = "dead"] \in Turn
  BY <1>1, Zenon DEF Turn
<1>6. \A b \in BOOLEAN : [turn EXCEPT !.lapsed = b] \in Turn
  BY <1>1, Zenon DEF Turn
<1>7. \A p \in Plans \cup {None} : [turn EXCEPT !.plan = p] \in Turn
  BY <1>1, Zenon DEF Turn
<1>8. \A r \in Retrievals \cup {None} : [turn EXCEPT !.retrieval = r] \in Turn
  BY <1>1, Zenon DEF Turn
<1>9. \A x \in Responses \cup {None} : [turn EXCEPT !.response = x] \in Turn
  BY <1>1, Zenon DEF Turn
<1> QED
  BY <1>1, <1>2, <1>3, <1>4, <1>5, <1>6, <1>7, <1>8, <1>9 DEF Freed

\* The plans that an attempt may choose, and the retrieval and reply it makes of them.
LEMMA PlanTypes ==
  ASSUME TypeOK
  PROVE  /\ BroadPlan \in Plans
         /\ [mode : Modes \ {"GENERAL"}, failed : {FALSE}, critical : BOOLEAN, seen : {catalog}]
              \subseteq Plans
         /\ \A got : PlansOf(got) \subseteq Plans
<1>1. /\ catalog \in 0 .. MaxCatalog /\ 0 \in 0 .. MaxCatalog /\ "PRODUCT" \in Modes
      /\ TRUE \in BOOLEAN /\ FALSE \in BOOLEAN
  BY BoundsAssumption DEF TypeOK
<1>2. BroadPlan \in Plans /\ FailedPlan(catalog) \in Plans
  BY <1>1, Zenon DEF BroadPlan, FailedPlan, Plans
<1>3. ASSUME NEW M, M \subseteq Modes
      PROVE  [mode : M, failed : {FALSE}, critical : BOOLEAN, seen : {catalog}] \subseteq Plans
  BY <1>1, <1>3 DEF Plans
<1>4. \A got : PlansOf(got) \subseteq Plans
  <2> SUFFICES ASSUME NEW got PROVE PlansOf(got) \subseteq Plans
    OBVIOUS
  <2>1. (Modes \cap {got}) \cup (IF got = "GENERAL" THEN Modes \ {"KNOWLEDGE"} ELSE {}) \subseteq Modes
    OBVIOUS
  <2> QED
    BY <1>2, <1>3, <2>1 DEF PlansOf
<1> QED
  BY <1>2, <1>3, <1>4

LEMMA FoundTypes ==
  ASSUME TypeOK, NEW a \in Attempts, att[a].plan \in Plans,
         NEW status \in Statuses, NEW policies \in BOOLEAN, NEW failed \in BOOLEAN
  PROVE  Found(a, status, policies, failed) \in Retrievals
<1>1. catalog \in 0 .. MaxCatalog /\ 0 \in 0 .. MaxCatalog
  BY BoundsAssumption DEF TypeOK
<1>2. (IF Searched(a) THEN catalog ELSE 0) \in 0 .. MaxCatalog
  BY <1>1
<1>3. /\ (att[a].plan.failed \/ att[a].plan.mode # "KNOWLEDGE") \in BOOLEAN
      /\ (att[a].plan.failed \/ failed) \in BOOLEAN
  OBVIOUS
<1> QED
  BY <1>2, <1>3, Zenon DEF Found, Retrievals

LEMMA ReplyTypes ==
  ASSUME TypeOK, NEW a \in Attempts, att[a].retrieval \in Retrievals,
         NEW text \in Texts, NEW isFallback \in BOOLEAN, Reply(a, text, isFallback)
  PROVE  att' \in [Attempts -> Local]
<1> DEFINE x == [text |-> text, isFallback |-> isFallback, of |-> att[a].retrieval]
           w == [att[a] EXCEPT !.pc = "saveResponse", !.slot = None, !.got = None, !.response = x]
<1>1. x \in Responses
  BY Zenon DEF Responses
<1>2. att \in [Attempts -> Local] /\ att[a] \in Local
  BY DEF TypeOK
<1>3. w \in Local
  <2> HIDE DEF x
  <2> QED
    BY <1>1, <1>2 DEF Local, PC, Results
<1>4. att' = [att EXCEPT ![a] = w]
  BY <1>2 DEF Reply
<1> QED
  BY <1>2, <1>3, <1>4, MoveTypes

LEMMA TypeStep == TypeOK /\ PointsAgree /\ ReturnsAgree /\ [Next]_vars => TypeOK'
<1> SUFFICES ASSUME TypeOK, PointsAgree, ReturnsAgree, [Next]_vars PROVE TypeOK'
  OBVIOUS
<1>0. /\ turn \in Turn /\ broad \in BOOLEAN
      /\ att \in [Attempts -> Local] /\ \A a \in Attempts : att[a] \in Local
      /\ catalog \in 1 .. MaxCatalog /\ begun \in 0 .. MaxAttempts /\ faults \in 0 .. MaxFaults
      /\ {MaxAttempts, MaxFaults, MaxCatalog} \subseteq Nat /\ MaxCatalog > 0
  BY BoundsAssumption DEF TypeOK
<1>1. ASSUME NEW a \in Attempts, Begin(a) PROVE TypeOK'
  <2>1. att' \in [Attempts -> Local]
    BY <1>0, <1>1, MoveTypes DEF Begin, PC
  <2> QED
    BY <1>0, <1>1, <2>1 DEF Begin, TypeOK
<1>2. ASSUME NEW a \in Attempts, Find(a) \/ Open(a) \/ ClaimRefused(a) PROVE TypeOK'
  <2>1. att' \in [Attempts -> Local]
    BY <1>0, <1>2, MoveTypes DEF Find, Open, ClaimRefused, PC
  <2> QED
    BY <1>2, <2>1, TurnTypes DEF Find, Open, ClaimRefused, TypeOK
<1>3. ASSUME NEW a \in Attempts, AlreadyRetrieved(a) PROVE TypeOK'
  <2>1. turn.retrieval \in Retrievals \cup {None}
    BY <1>0 DEF Turn
  <2>2. [att[a] EXCEPT !.stage = "answer", !.retrieval = turn.retrieval] \in Local
    BY <1>0, <2>1 DEF Local, PC, Results
  <2>3. att' \in [Attempts -> Local]
    BY <1>0, <1>3, <2>2, MoveTypes DEF AlreadyRetrieved
  <2> QED
    BY <1>3, <2>3 DEF AlreadyRetrieved, TypeOK
<1>4. ASSUME NEW a \in Attempts, Claim(a) PROVE TypeOK'
  <2>1. /\ turn.plan \in Plans \cup {None} /\ turn.retrieval \in Retrievals \cup {None}
        /\ turn.response \in Responses \cup {None}
    BY <1>0 DEF Turn
  <2>2. att[a].retrieval \in Retrievals \cup {None}
    BY <1>0 DEF Local
  <2>3. ASSUME NEW pc \in PC, NEW r \in Retrievals \cup {None}
        PROVE  [att[a] EXCEPT !.plan = turn.plan, !.retrieval = r, !.response = turn.response,
                              !.pc = pc] \in Local
    BY <1>0, <2>1 DEF Local, Results
  <2>4. \E pc \in PC, r \in Retrievals \cup {None} :
          att' = [att EXCEPT ![a] = [att[a] EXCEPT !.plan = turn.plan, !.retrieval = r,
                                       !.response = turn.response, !.pc = pc]]
    <3> DEFINE r == IF turn.retrieval # None THEN turn.retrieval ELSE att[a].retrieval
               pc == IF att[a].stage = "retrieve"
                     THEN (IF turn.retrieval # None THEN "release"
                           ELSE IF turn.plan # None THEN "search" ELSE "plan")
                     ELSE (IF turn.response # None THEN "release" ELSE "compose")
    <3>1. pc \in PC /\ r \in Retrievals \cup {None}
      BY <2>1, <2>2 DEF PC
    <3>2. att' = [att EXCEPT ![a] = [att[a] EXCEPT !.plan = turn.plan, !.retrieval = r,
                                       !.response = turn.response, !.pc = pc]]
      BY <1>0, <1>4 DEF Claim, Local
    <3> QED
      BY <3>1, <3>2
  <2>5. att' \in [Attempts -> Local]
    BY <1>0, <2>3, <2>4, MoveTypes
  <2> QED
    BY <1>4, <2>5, TurnTypes DEF Claim, TypeOK
<1>5. ASSUME NEW a \in Attempts, Release(a) PROVE TypeOK'
  <2>1. [att[a] EXCEPT !.pc = "claim", !.stage = "answer"] \in Local
    BY <1>0 DEF Local, PC, Results
  <2>2. att' \in [Attempts -> Local]
    BY <1>0, <1>5, <2>1, MoveTypes DEF Release
  <2>3. replies' \subseteq Responses
    BY <1>5, <1>0 DEF Release, At, ReturnsAgree, ReturnAgrees, TypeOK
  <2> QED
    BY <1>5, <2>2, <2>3, TurnTypes DEF Release, TypeOK
<1>6. ASSUME NEW a \in Attempts, Crash(a) PROVE TypeOK'
  <2>1. att' \in [Attempts -> Local] /\ faults' \in 0 .. MaxFaults
    BY <1>0, <1>6, MoveTypes DEF Crash, Fault
  <2> QED
    BY <1>0, <1>6, <2>1, TurnTypes DEF Crash, TypeOK
<1>7. ASSUME NEW a \in Attempts, Heartbeat(a) PROVE TypeOK'
  BY <1>7, TurnTypes DEF Heartbeat, TypeOK
<1>8. ASSUME NEW a \in Attempts, OpenSlot(a) PROVE TypeOK'
  <2>1. att[a].slot \in Slots /\ slot[att[a].slot].result \in Results
    BY <1>8 DEF OpenSlot, At, PointsAgree, PointAgrees, Calling, TypeOK
  <2>2. [att[a] EXCEPT !.pc = "called", !.got = slot[att[a].slot].result] \in Local
    BY <1>0, <2>1 DEF Local, PC, Results
  <2>3. \/ \E pc \in PC : Go(a, pc)
        \/ att' = [att EXCEPT ![a] = [att[a] EXCEPT !.pc = "called", !.got = slot[att[a].slot].result]]
    BY <1>8 DEF OpenSlot, PC
  <2>4. att' \in [Attempts -> Local]
    BY <1>0, <2>2, <2>3, MoveTypes
  <2>5. slot' \in [Slots -> [state : {None, "open", "done", "failed"}, result : Results]]
    BY <1>8 DEF OpenSlot, TypeOK
  <2> QED
    BY <1>8, <2>4, <2>5 DEF OpenSlot, TypeOK
<1>9. ASSUME NEW a \in Attempts, LeaseLost(a) PROVE TypeOK'
  <2>1. att' \in [Attempts -> Local]
    BY <1>0, <1>9, MoveTypes DEF LeaseLost, Throw
  <2> QED
    BY <1>9, <2>1, TurnTypes DEF LeaseLost, Throw, TypeOK
<1>10. ASSUME NEW a \in Attempts, Reserve(a) PROVE TypeOK'
  <2>1. att[a].slot \in Slots /\ bill[att[a].slot].result \in Results
    BY <1>10 DEF Reserve, At, PointsAgree, PointAgrees, Calling, TypeOK
  <2>2. [att[a] EXCEPT !.pc = "store", !.got = bill[att[a].slot].result] \in Local
    BY <1>0, <2>1 DEF Local, PC, Results
  <2>3. \/ \E pc \in PC : Go(a, pc)
        \/ Leave(a)
        \/ att' = [att EXCEPT ![a] = [att[a] EXCEPT !.pc = "store", !.got = bill[att[a].slot].result]]
    BY <1>10 DEF Reserve, Throw, PC
  <2>4. att' \in [Attempts -> Local]
    BY <1>0, <2>2, <2>3, MoveTypes
  <2>5. bill' \in [Slots -> [state : {"free", "held", "settled"}, result : Results]]
    BY <1>10 DEF Reserve, TypeOK
  <2>6. turn' \in Turn
    BY <1>0, <1>10, TurnTypes DEF Reserve, Throw
  <2> QED
    BY <1>10, <2>4, <2>5, <2>6 DEF Reserve, TypeOK
<1>11. ASSUME NEW a \in Attempts,
              \/ InsufficientCredit(a) \/ ProviderUnknown(a) \/ StoreFails(a) \/ SearchPending(a)
       PROVE  TypeOK'
  <2>1. att' \in [Attempts -> Local] /\ faults' \in 0 .. MaxFaults
    BY <1>0, <1>11, MoveTypes DEF InsufficientCredit, ProviderUnknown, StoreFails, SearchPending, Throw, Fault
  <2> QED
    BY <1>11, <2>1, TurnTypes DEF InsufficientCredit, ProviderUnknown, StoreFails, SearchPending, Throw, TypeOK
<1>12. ASSUME NEW a \in Attempts, ProviderAnswers(a) PROVE TypeOK'
  <2>1. PICK r \in ResultsOf(att[a].slot) :
          /\ bill' = [bill EXCEPT ![att[a].slot] = [state |-> "settled", result |-> r]]
          /\ att' = [att EXCEPT ![a].pc = "store", ![a].got = r]
    BY <1>12 DEF ProviderAnswers
  <2>2. r \in Results
    BY DEF ResultsOf, Results, Verdicts
  <2>3. [att[a] EXCEPT !.pc = "store", !.got = r] \in Local
    BY <1>0, <2>2 DEF Local, PC, Results
  <2>4. att' \in [Attempts -> Local]
    BY <1>0, <2>1, <2>3, MoveTypes
  <2>5. bill' \in [Slots -> [state : {"free", "held", "settled"}, result : Results]]
    BY <2>1, <2>2 DEF TypeOK
  <2> QED
    BY <1>12, <2>4, <2>5 DEF ProviderAnswers, TypeOK
<1>13. ASSUME NEW a \in Attempts, ProviderFails(a) PROVE TypeOK'
  <2>1. att' \in [Attempts -> Local]
    BY <1>0, <1>13, MoveTypes DEF ProviderFails, PC
  <2>2. bill' \in [Slots -> [state : {"free", "held", "settled"}, result : Results]]
    BY <1>13 DEF ProviderFails, TypeOK, Results
  <2> QED
    BY <1>13, <2>1, <2>2 DEF ProviderFails, TypeOK
<1>14. ASSUME NEW a \in Attempts, MarkFailed(a) \/ StoreResult(a) PROVE TypeOK'
  <2>1. att' \in [Attempts -> Local]
    BY <1>0, <1>14, MoveTypes DEF MarkFailed, StoreResult, PC
  <2>2. att[a].got \in Results /\ att[a].slot \in Slots
    BY <1>0, <1>14 DEF Local, MarkFailed, StoreResult, At, PointsAgree, PointAgrees, Calling
  <2>3. slot' \in [Slots -> [state : {None, "open", "done", "failed"}, result : Results]]
    <3> DEFINE SlotRow == [state : {None, "open", "done", "failed"}, result : Results]
               s == att[a].slot
    <3>1. slot \in [Slots -> SlotRow] /\ slot[s] \in SlotRow
      BY <2>2 DEF TypeOK
    <3>2. CASE MarkFailed(a)
      BY <3>1, <3>2 DEF MarkFailed
    <3>3. CASE StoreResult(a)
      <4> DEFINE w == [slot[s] EXCEPT !.result = att[a].got,
                                      !.state = IF slot[s].state = "failed" THEN slot[s].state ELSE "done"]
      <4>1. w \in SlotRow
        BY <2>2, <3>1
      <4>2. slot' = [slot EXCEPT ![s] = w]
        BY <3>1, <3>3 DEF StoreResult
      <4> QED
        BY <3>1, <4>1, <4>2
    <3> QED
      BY <1>14, <3>2, <3>3
  <2> QED
    BY <1>14, <2>1, <2>3 DEF MarkFailed, StoreResult, TypeOK
<1>15. ASSUME NEW a \in Attempts, Plan(a) \/ Planned(a) PROVE TypeOK'
  <2>1. \E w \in Local : att' = [att EXCEPT ![a] = w]
    <3>1. CASE \E p \in Plans : att' = [att EXCEPT ![a].pc = "savePlan", ![a].plan = p]
      <4>1. PICK p \in Plans : att' = [att EXCEPT ![a].pc = "savePlan", ![a].plan = p]
        BY <3>1
      <4>2. [att[a] EXCEPT !.pc = "savePlan", !.plan = p] \in Local
        BY <1>0 DEF Local, PC, Results
      <4> QED
        BY <1>0, <4>1, <4>2
    <3>2. CASE att' = [att EXCEPT ![a].pc = "call", ![a].slot = "PLAN"]
      <4>1. [att[a] EXCEPT !.pc = "call", !.slot = "PLAN"] \in Local
        BY <1>0 DEF Local, PC, Results, Slots
      <4> QED
        BY <1>0, <3>2, <4>1
    <3>3. CASE \E p \in Plans : att' = [att EXCEPT ![a].pc = "savePlan", ![a].plan = p,
                                                  ![a].slot = None, ![a].got = None]
      <4>1. PICK p \in Plans : att' = [att EXCEPT ![a].pc = "savePlan", ![a].plan = p,
                                                  ![a].slot = None, ![a].got = None]
        BY <3>3
      <4>2. [att[a] EXCEPT !.pc = "savePlan", !.plan = p, !.slot = None, !.got = None] \in Local
        BY <1>0 DEF Local, PC, Results
      <4> QED
        BY <1>0, <4>1, <4>2
    <3>4. CASE Plan(a)
      BY <3>1, <3>2, <3>4, PlanTypes DEF Plan
    <3>5. CASE Planned(a)
      BY <3>3, <3>5, PlanTypes DEF Planned
    <3> QED
      BY <1>15, <3>4, <3>5
  <2>2. att' \in [Attempts -> Local]
    BY <1>0, <2>1, MoveTypes
  <2> QED
    BY <1>15, <2>2 DEF Plan, Planned, TypeOK
<1>16. ASSUME NEW a \in Attempts, SavePlan(a) \/ SaveRetrieval(a) \/ SaveResponse(a) PROVE TypeOK'
  <2>1. att' \in [Attempts -> Local]
    BY <1>0, <1>16, MoveTypes DEF SavePlan, SaveRetrieval, SaveResponse, PC
  <2>2. /\ att[a].plan \in Plans \cup {None} /\ att[a].retrieval \in Retrievals \cup {None}
        /\ att[a].response \in Responses \cup {None}
    BY <1>0 DEF Local
  <2>3. turn' \in Turn
    BY <1>16, <2>2, TurnTypes DEF SavePlan, SaveRetrieval, SaveResponse
  <2> QED
    BY <1>16, <2>1, <2>3 DEF SavePlan, SaveRetrieval, SaveResponse, TypeOK
<1>17. ASSUME NEW a \in Attempts, Search(a) PROVE TypeOK'
  <2>1. att[a].plan \in Plans
    BY <1>17 DEF Search, At, PointsAgree, PointAgrees
  <2>2. \E r \in Retrievals : att' = [att EXCEPT ![a].pc = "saveRetrieval", ![a].retrieval = r]
    BY <1>17, <2>1, FoundTypes DEF Search, Statuses
  <2>3. PICK r \in Retrievals : att' = [att EXCEPT ![a].pc = "saveRetrieval", ![a].retrieval = r]
    BY <2>2
  <2>4. [att[a] EXCEPT !.pc = "saveRetrieval", !.retrieval = r] \in Local
    BY <1>0 DEF Local, PC, Results
  <2>5. att' \in [Attempts -> Local]
    BY <1>0, <2>3, <2>4, MoveTypes
  <2> QED
    BY <1>17, <2>5 DEF Search, TypeOK
<1>18. ASSUME NEW a \in Attempts, Compose(a) \/ Answered(a) \/ Repaired(a) PROVE TypeOK'
  <2>1. att[a].retrieval \in Retrievals
    BY <1>18 DEF Compose, Answered, Repaired, At, PointsAgree, PointAgrees, Answering, Calling
  <2>2. CASE \E text \in Texts, isFallback \in BOOLEAN : Reply(a, text, isFallback)
    <3>1. att' \in [Attempts -> Local]
      BY <2>1, <2>2, ReplyTypes
    <3> QED
      BY <1>18, <3>1 DEF Compose, Answered, Repaired, TypeOK
  <2>3. CASE \/ att' = [att EXCEPT ![a].pc = "call", ![a].slot = "ANSWER"]
             \/ att' = [att EXCEPT ![a].pc = "call", ![a].slot = "CRITICAL_REPAIR", ![a].got = None]
    <3>1. /\ [att[a] EXCEPT !.pc = "call", !.slot = "ANSWER"] \in Local
          /\ [att[a] EXCEPT !.pc = "call", !.slot = "CRITICAL_REPAIR", !.got = None] \in Local
      BY <1>0 DEF Local, PC, Results, Slots
    <3>2. att' \in [Attempts -> Local]
      BY <1>0, <2>3, <3>1, MoveTypes
    <3> QED
      BY <1>18, <3>2 DEF Compose, Answered, Repaired, TypeOK
  <2>4. CASE Compose(a)
    BY <2>2, <2>3, <2>4 DEF Compose, Texts
  <2>5. CASE Answered(a)
    BY <2>2, <2>3, <2>5 DEF Answered, Texts
  <2>6. CASE Repaired(a)
    BY <2>2, <2>3, <2>6 DEF Repaired, Texts
  <2> QED
    BY <1>18, <2>4, <2>5, <2>6
<1>19. ASSUME NEW s \in Slots, ReviewReleases(s) PROVE TypeOK'
  <2>1. bill' \in [Slots -> [state : {"free", "held", "settled"}, result : Results]]
    BY <1>19 DEF ReviewReleases, TypeOK, Results
  <2> QED
    BY <1>19, <2>1 DEF ReviewReleases, TypeOK
<1>20. CASE LeaseLapses
  <2>1. faults' \in 0 .. MaxFaults
    BY <1>0, <1>20 DEF LeaseLapses, Fault
  <2>2. [turn EXCEPT !.lapsed = TRUE] \in Turn
    BY <1>0, Zenon DEF Turn
  <2> QED
    BY <1>20, <2>1, <2>2 DEF LeaseLapses, TypeOK
<1>21. CASE ChangeCatalog
  BY <1>0, <1>21 DEF ChangeCatalog, TypeOK
<1>22. CASE UNCHANGED vars
  BY <1>22 DEF vars, TypeOK
<1> QED
  BY <1>1, <1>2, <1>3, <1>4, <1>5, <1>6, <1>7, <1>8, <1>9, <1>10, <1>11, <1>12, <1>13, <1>14,
     <1>15, <1>16, <1>17, <1>18, <1>19, <1>20, <1>21, <1>22 DEF Next

-----------------------------------------------------------------------------
(* What a step of one attempt does to the others and to the turn.             *)

Steps(a) ==
    \/ Begin(a) \/ Find(a) \/ Open(a) \/ AlreadyRetrieved(a) \/ Claim(a) \/ ClaimRefused(a)
    \/ Release(a) \/ Crash(a) \/ Heartbeat(a)
    \/ OpenSlot(a) \/ LeaseLost(a) \/ Reserve(a) \/ InsufficientCredit(a) \/ ProviderAnswers(a)
    \/ ProviderFails(a) \/ ProviderUnknown(a) \/ MarkFailed(a) \/ StoreResult(a) \/ StoreFails(a)
    \/ Plan(a) \/ Planned(a) \/ SavePlan(a) \/ Search(a) \/ SearchPending(a) \/ SaveRetrieval(a)
    \/ Compose(a) \/ Answered(a) \/ Repaired(a) \/ SaveResponse(a)

LEMMA OthersKeep ==
  ASSUME TypeOK, NEW a \in Attempts, NEW b \in Attempts, a # b, Steps(a)
  PROVE  att'[b] = att[b]
<1>1. att \in [Attempts -> Local]
  BY DEF TypeOK
<1>2. ASSUME \/ \E pc : Go(a, pc)
             \/ Leave(a)
             \/ att' = att
             \/ \E text, isFallback : Reply(a, text, isFallback)
      PROVE  att'[b] = att[b]
  BY <1>1, <1>2 DEF Go, Leave, Reply
<1>3. CASE \/ Begin(a) \/ Find(a) \/ Open(a) \/ ClaimRefused(a) \/ Crash(a) \/ Heartbeat(a) \/ LeaseLost(a)
           \/ InsufficientCredit(a) \/ ProviderUnknown(a) \/ StoreFails(a) \/ SearchPending(a)
           \/ ProviderFails(a) \/ MarkFailed(a) \/ StoreResult(a)
           \/ SavePlan(a) \/ SaveRetrieval(a) \/ SaveResponse(a) \/ Repaired(a)
  BY <1>2, <1>3 DEF Begin, Find, Open, ClaimRefused, Crash, Heartbeat, LeaseLost, InsufficientCredit,
     ProviderUnknown, StoreFails, SearchPending, ProviderFails, MarkFailed, StoreResult, SavePlan,
     SaveRetrieval, SaveResponse, Repaired, Throw
<1>4. CASE \/ AlreadyRetrieved(a) \/ Claim(a) \/ Release(a) \/ OpenSlot(a) \/ Reserve(a) \/ ProviderAnswers(a)
  BY <1>1, <1>2, <1>4 DEF AlreadyRetrieved, Claim, Release, OpenSlot, Reserve, ProviderAnswers, Throw
<1>5. CASE Plan(a) \/ Planned(a) \/ Search(a)
  BY <1>1, <1>5 DEF Plan, Planned, Search
<1>6. CASE Compose(a) \/ Answered(a)
  BY <1>1, <1>2, <1>6 DEF Compose, Answered
<1> QED
  BY <1>3, <1>4, <1>5, <1>6 DEF Steps

\* The lease is taken over by its new owner only, and a stage is written by the owner, once.
LEMMA TurnSteps ==
  ASSUME TypeOK, OwnersDecide, NEW a \in Attempts, Steps(a)
  PROVE  /\ \A b \in Attempts \ {a} : turn'.owner = b => turn.owner = b
         /\ turn.owner # a => /\ turn'.plan = turn.plan
                              /\ turn'.retrieval = turn.retrieval
                              /\ turn'.response = turn.response
         /\ StageStands
<1>1. turn \in Turn
  BY DEF TypeOK
<1>2. CASE UNCHANGED turn
  BY <1>2 DEF StageStands
<1>3. CASE turn' = Freed(a) \/ Open(a) \/ Claim(a) \/ Crash(a) \/ Heartbeat(a)
  BY <1>1, <1>3, NoneAssumption DEF Freed, Open, Claim, Crash, Heartbeat, StageStands, Turn
<1>4. CASE SavePlan(a) \/ SaveRetrieval(a) \/ SaveResponse(a)
  <2>1. OwnerDecides(a) /\ turn.owner = a
    BY <1>4 DEF OwnersDecide, SavePlan, SaveRetrieval, SaveResponse, Owns
  <2>2. CASE SavePlan(a)
    BY <1>1, <2>1, <2>2 DEF SavePlan, At, OwnerDecides, Planning, StageStands, Turn
  <2>3. CASE SaveRetrieval(a)
    BY <1>1, <2>1, <2>3 DEF SaveRetrieval, At, OwnerDecides, Searching, StageStands, Turn
  <2>4. CASE SaveResponse(a)
    BY <1>1, <2>1, <2>4 DEF SaveResponse, At, OwnerDecides, Answering, StageStands, Turn
  <2> QED
    BY <1>4, <2>2, <2>3, <2>4
<1> QED
  BY <1>2, <1>3, <1>4 DEF Steps, Begin, Find, AlreadyRetrieved, ClaimRefused, Release, OpenSlot, LeaseLost,
     Reserve, InsufficientCredit, ProviderAnswers, ProviderFails, ProviderUnknown, MarkFailed,
     StoreResult, StoreFails, Plan, Planned, Search, SearchPending, Compose, Answered, Repaired, Throw

-----------------------------------------------------------------------------
(* What a step leaves its own attempt with.                                   *)

\* An attempt that stops has nothing left to keep.
LEMMA LeaveStep ==
  ASSUME TypeOK, NEW a \in Attempts, Leave(a), turn'.owner # a
  PROVE  PointAgrees(a)' /\ OwnerDecides(a)' /\ ReturnAgrees(a)'
<1>1. att'[a] = Idle
  BY DEF TypeOK, Leave
<1>2. att'[a].pc = "idle" /\ att'[a].stage = "retrieve"
  BY <1>1 DEF Idle
<1> QED
  BY <1>2 DEF PointAgrees, OwnerDecides, ReturnAgrees, Calling, Planning, Searching, Answering

\* A handling that throws frees its lease with its locals.
LEMMA FreedTurn ==
  ASSUME TypeOK, NEW a \in Attempts
  PROVE  Freed(a).owner # a /\ Freed(a).response = turn.response
BY NoneAssumption DEF Freed, TypeOK, Turn

LEMMA PointStep ==
  ASSUME TypeOK, PointsAgree, NEW a \in Attempts, Steps(a)
  PROVE  PointAgrees(a)'
<1>0. /\ att \in [Attempts -> Local] /\ att[a] \in Local /\ PointAgrees(a) /\ turn \in Turn
  BY DEF TypeOK, PointsAgree
<1>1. CASE Leave(a) \/ UNCHANGED att
  BY <1>0, <1>1 DEF Leave, Idle, PointAgrees, Calling, Planning, Searching, Answering
<1>2. CASE Begin(a) \/ Find(a) \/ Open(a)
  <2>1. CASE \E pc \in {"find", "open", "claim"} : Go(a, pc) /\ att[a].pc \in {"idle", "find", "open"}
    BY <1>0, <2>1 DEF Go, PointAgrees, Calling, Planning, Searching, Answering, Local
  <2> QED
    BY <1>1, <1>2, <2>1 DEF Begin, Find, Open, At
<1>3. CASE AlreadyRetrieved(a)
  <2>1. turn.retrieval \in Retrievals \cup {None}
    BY <1>0 DEF Turn
  <2> QED
    BY <1>0, <1>1, <1>3, <2>1 DEF AlreadyRetrieved, At, PointAgrees, Calling, Planning, Searching,
       Answering, Local
<1>4. CASE Claim(a)
  <2>1. /\ turn.retrieval \in Retrievals \cup {None} /\ turn.plan \in Plans \cup {None}
        /\ turn.response \in Responses \cup {None}
    BY <1>0 DEF Turn
  <2> QED
    BY <1>0, <1>4, <2>1 DEF Claim, At, PointAgrees, Calling, Planning, Searching, Answering, Local
<1>5. CASE Release(a)
  BY <1>0, <1>1, <1>5 DEF Release, At, PointAgrees, Calling, Planning, Searching, Answering, Local
<1>6. CASE OpenSlot(a) \/ Reserve(a) \/ ProviderAnswers(a) \/ ProviderFails(a) \/ MarkFailed(a) \/ StoreResult(a)
  <2>1. CASE Calling(a) /\ Calling(a)' /\ att'[a].slot = att[a].slot /\ att'[a].stage = att[a].stage
             /\ att'[a].retrieval = att[a].retrieval
    BY <1>0, <2>1 DEF PointAgrees, Calling, Planning, Searching, Answering
  <2>2. CASE OpenSlot(a)
    BY <1>0, <2>1, <2>2 DEF OpenSlot, At, Go, Calling, Local
  <2>3. CASE Reserve(a)
    BY <1>0, <1>1, <2>1, <2>3 DEF Reserve, Throw, At, Go, Calling, Local
  <2>4. CASE ProviderAnswers(a)
    BY <1>0, <2>1, <2>4 DEF ProviderAnswers, At, Go, Calling, Local
  <2>5. CASE ProviderFails(a) \/ MarkFailed(a) \/ StoreResult(a)
    BY <1>0, <2>1, <2>5 DEF ProviderFails, MarkFailed, StoreResult, At, Go, Calling, Local
  <2> QED
    BY <1>6, <2>2, <2>3, <2>4, <2>5
<1>7. CASE Plan(a) \/ Planned(a)
  <2>1. att[a].stage = "retrieve"
    BY <1>0, <1>7 DEF Plan, Planned, At, PointAgrees, Planning, Calling
  <2>2. CASE \E p \in Plans : att' = [att EXCEPT ![a].pc = "savePlan", ![a].plan = p]
    BY <1>0, <2>1, <2>2 DEF PointAgrees, Calling, Planning, Searching, Answering, Local
  <2>3. CASE att' = [att EXCEPT ![a].pc = "call", ![a].slot = "PLAN"]
    BY <1>0, <2>1, <2>3 DEF PointAgrees, Calling, Planning, Searching, Answering, Local, Slots
  <2>4. CASE \E p \in Plans : att' = [att EXCEPT ![a].pc = "savePlan", ![a].plan = p,
                                                ![a].slot = None, ![a].got = None]
    BY <1>0, <2>1, <2>4 DEF PointAgrees, Calling, Planning, Searching, Answering, Local
  <2>5. CASE Plan(a)
    BY <2>2, <2>3, <2>5, PlanTypes DEF Plan
  <2>6. CASE Planned(a)
    BY <2>4, <2>6, PlanTypes DEF Planned
  <2> QED
    BY <1>7, <2>5, <2>6
<1>8. CASE SavePlan(a) \/ SaveRetrieval(a) \/ SaveResponse(a)
  BY <1>0, <1>8 DEF SavePlan, SaveRetrieval, SaveResponse, At, Go, PointAgrees, Calling, Planning,
     Searching, Answering, Local
<1>9. CASE Search(a)
  <2>1. att[a].plan \in Plans /\ att[a].stage = "retrieve"
    BY <1>0, <1>9 DEF Search, At, PointAgrees, Searching
  <2>2. \E r \in Retrievals : att' = [att EXCEPT ![a].pc = "saveRetrieval", ![a].retrieval = r]
    BY <1>9, <2>1, FoundTypes DEF Search, Statuses
  <2> QED
    BY <1>0, <2>1, <2>2 DEF PointAgrees, Calling, Planning, Searching, Answering, Local
<1>10. CASE Compose(a) \/ Answered(a) \/ Repaired(a)
  <2>1. att[a].stage = "answer" /\ att[a].retrieval \in Retrievals
    BY <1>0, <1>10 DEF Compose, Answered, Repaired, At, PointAgrees, Answering, Calling
  <2>2. ASSUME NEW text \in Texts, NEW isFallback \in BOOLEAN, Reply(a, text, isFallback)
        PROVE  PointAgrees(a)'
    <3> DEFINE x == [text |-> text, isFallback |-> isFallback, of |-> att[a].retrieval]
    <3>1. x \in Responses
      BY <2>1, Zenon DEF Responses
    <3> HIDE DEF x
    <3>2. att' = [att EXCEPT ![a].pc = "saveResponse", ![a].slot = None, ![a].got = None,
                             ![a].response = x]
      BY <2>2 DEF Reply, x
    <3> QED
      BY <1>0, <2>1, <3>1, <3>2 DEF PointAgrees, Calling, Planning, Searching, Answering, Local
  <2>3. CASE \/ att' = [att EXCEPT ![a].pc = "call", ![a].slot = "ANSWER"]
             \/ att' = [att EXCEPT ![a].pc = "call", ![a].slot = "CRITICAL_REPAIR", ![a].got = None]
    BY <1>0, <2>1, <2>3 DEF PointAgrees, Calling, Planning, Searching, Answering, Local, Slots
  <2>4. CASE Compose(a)
    BY <2>2, <2>3, <2>4 DEF Compose, Texts
  <2>5. CASE Answered(a)
    BY <2>2, <2>3, <2>5 DEF Answered, Texts
  <2>6. CASE Repaired(a)
    BY <2>2, <2>3, <2>6 DEF Repaired, Texts
  <2> QED
    BY <1>10, <2>4, <2>5, <2>6
<1>11. CASE \/ ClaimRefused(a) \/ Crash(a) \/ Heartbeat(a) \/ LeaseLost(a) \/ InsufficientCredit(a)
            \/ ProviderUnknown(a) \/ StoreFails(a) \/ SearchPending(a)
  BY <1>1, <1>11 DEF ClaimRefused, Crash, Heartbeat, LeaseLost, InsufficientCredit, ProviderUnknown,
     StoreFails, SearchPending, Throw
<1> QED
  BY <1>2, <1>3, <1>4, <1>5, <1>6, <1>7, <1>8, <1>9, <1>10, <1>11 DEF Steps

LEMMA OwnerStep ==
  ASSUME TypeOK, PointsAgree, OwnersDecide, NEW a \in Attempts, Steps(a)
  PROVE  OwnerDecides(a)'
<1>0. /\ att \in [Attempts -> Local] /\ att[a] \in Local /\ PointAgrees(a) /\ OwnerDecides(a)
      /\ turn \in Turn
  BY DEF TypeOK, PointsAgree, OwnersDecide
<1>1. CASE turn'.owner # a
  BY <1>1 DEF OwnerDecides
<1>2. CASE Begin(a) \/ Find(a) \/ AlreadyRetrieved(a) \/ ClaimRefused(a) \/ Open(a)
  BY <1>0, <1>1, <1>2 DEF Begin, Find, AlreadyRetrieved, ClaimRefused, Open, At, OwnerDecides, Working, Turn
<1>3. CASE \/ Release(a) \/ LeaseLost(a) \/ InsufficientCredit(a) \/ ProviderUnknown(a) \/ StoreFails(a)
           \/ SearchPending(a)
  BY <1>1, <1>3, FreedTurn DEF Release, LeaseLost, InsufficientCredit, ProviderUnknown, StoreFails,
     SearchPending, Throw
<1>4. CASE Crash(a)
  BY <1>0, <1>1, <1>4, NoneAssumption DEF Crash, Turn
<1>5. CASE Heartbeat(a)
  BY <1>0, <1>5 DEF Heartbeat, OwnerDecides, Working, Planning, Searching, Answering, Calling, Turn
<1>6. CASE Claim(a)
  BY <1>0, <1>6 DEF Claim, OwnerDecides, Working, Planning, Searching, Answering, Calling, Local, Turn
<1>7. CASE OpenSlot(a) \/ Reserve(a) \/ ProviderAnswers(a) \/ ProviderFails(a) \/ MarkFailed(a) \/ StoreResult(a)
  <2>1. CASE Calling(a) /\ Calling(a)' /\ att'[a].slot = att[a].slot /\ UNCHANGED turn
    BY <1>0, <2>1 DEF OwnerDecides, Working, Calling, Planning, Searching, Answering
  <2>2. CASE OpenSlot(a)
    BY <1>0, <2>1, <2>2 DEF OpenSlot, At, Go, Calling, Local
  <2>3. CASE Reserve(a)
    BY <1>0, <1>1, <2>1, <2>3, FreedTurn DEF Reserve, Throw, At, Go, Calling, Local
  <2>4. CASE ProviderAnswers(a)
    BY <1>0, <2>1, <2>4 DEF ProviderAnswers, At, Go, Calling, Local
  <2>5. CASE ProviderFails(a) \/ MarkFailed(a) \/ StoreResult(a)
    BY <1>0, <2>1, <2>5 DEF ProviderFails, MarkFailed, StoreResult, At, Go, Calling, Local
  <2> QED
    BY <1>7, <2>2, <2>3, <2>4, <2>5
<1>8. CASE Plan(a) \/ Planned(a)
  <2>1. Planning(a) /\ turn' = turn
    BY <1>8 DEF Plan, Planned, At, Planning, Calling
  <2>2. att'[a].pc = "savePlan" \/ (att'[a].pc = "call" /\ att'[a].slot = "PLAN")
    <3>1. CASE Plan(a)
      <4>1. CASE \E p : att' = [att EXCEPT ![a].pc = "savePlan", ![a].plan = p]
        BY <1>0, <4>1 DEF Local
      <4>2. CASE att' = [att EXCEPT ![a].pc = "call", ![a].slot = "PLAN"]
        BY <1>0, <4>2 DEF Local
      <4> QED
        BY <3>1, <4>1, <4>2 DEF Plan
    <3>2. CASE Planned(a)
      BY <1>0, <3>2 DEF Planned, Local
    <3> QED
      BY <1>8, <3>1, <3>2
  <2> QED
    BY <1>0, <2>1, <2>2 DEF OwnerDecides, Working, Planning, Searching, Answering, Calling
<1>9. CASE SavePlan(a) \/ SaveRetrieval(a) \/ SaveResponse(a) \/ Search(a)
  <2>1. CASE SavePlan(a)
    <3>1. Planning(a) /\ att'[a].pc = "search" /\ turn'.retrieval = turn.retrieval
      BY <1>0, <2>1 DEF SavePlan, At, Go, Planning, Local, Turn
    <3>2. turn'.owner = turn.owner
      BY <1>0, <2>1 DEF SavePlan, Turn
    <3> QED
      BY <1>0, <3>1, <3>2 DEF OwnerDecides, Working, Planning, Searching, Answering, Calling
  <2>2. CASE SaveRetrieval(a) \/ SaveResponse(a)
    <3>1. att'[a].pc = "release"
      BY <1>0, <2>2 DEF SaveRetrieval, SaveResponse, Go, Local
    <3> QED
      BY <3>1 DEF OwnerDecides, Working, Planning, Searching, Answering, Calling
  <2>3. CASE Search(a)
    <3>1. Searching(a) /\ turn' = turn /\ att'[a].pc = "saveRetrieval"
      BY <1>0, <2>3 DEF Search, At, Searching, Local
    <3> QED
      BY <1>0, <3>1 DEF OwnerDecides, Working, Planning, Searching, Answering, Calling
  <2> QED
    BY <1>9, <2>1, <2>2, <2>3
<1>10. CASE Compose(a) \/ Answered(a) \/ Repaired(a)
  BY <1>0, <1>10 DEF Compose, Answered, Repaired, Reply, At, OwnerDecides, Working, Planning, Searching,
     Answering, Calling, Local
<1> QED
  BY <1>2, <1>3, <1>4, <1>5, <1>6, <1>7, <1>8, <1>9, <1>10 DEF Steps

LEMMA ReturnStep ==
  ASSUME TypeOK, PointsAgree, ReturnsAgree, NEW a \in Attempts, Steps(a)
  PROVE  ReturnAgrees(a)'
<1>0. /\ att \in [Attempts -> Local] /\ att[a] \in Local /\ PointAgrees(a) /\ ReturnAgrees(a)
      /\ turn \in Turn
  BY DEF TypeOK, PointsAgree, ReturnsAgree
<1>1. CASE att'[a].pc # "release"
  BY <1>1 DEF ReturnAgrees
<1>2. CASE UNCHANGED <<att, turn>>
  BY <1>0, <1>2 DEF ReturnAgrees
<1>3. CASE Leave(a)
  BY <1>0, <1>1, <1>3 DEF Leave, Idle
<1>4. CASE Claim(a)
  <2>1. turn.response \in Responses \cup {None}
    BY <1>0 DEF Turn
  <2> QED
    BY <1>0, <1>4, <2>1 DEF Claim, ReturnAgrees, Local, Turn
<1>5. CASE SaveResponse(a)
  BY <1>0, <1>5 DEF SaveResponse, At, Go, PointAgrees, ReturnAgrees, Local, Turn
<1>6. CASE SaveRetrieval(a)
  BY <1>0, <1>6 DEF SaveRetrieval, At, Go, PointAgrees, Searching, ReturnAgrees, Local, Turn
<1>7. CASE \/ Begin(a) \/ Find(a) \/ Open(a) \/ AlreadyRetrieved(a) \/ ClaimRefused(a) \/ Release(a)
           \/ LeaseLost(a) \/ InsufficientCredit(a) \/ ProviderUnknown(a) \/ StoreFails(a)
           \/ SearchPending(a) \/ Crash(a)
  BY <1>0, <1>1, <1>3, <1>7 DEF Begin, Find, Open, AlreadyRetrieved, ClaimRefused, Release, LeaseLost,
     InsufficientCredit, ProviderUnknown, StoreFails, SearchPending, Crash, Throw, At, Go, Local
<1>8. CASE Heartbeat(a)
  BY <1>0, <1>8 DEF Heartbeat, ReturnAgrees, Turn
<1>9. CASE \/ OpenSlot(a) \/ Reserve(a) \/ ProviderAnswers(a) \/ ProviderFails(a) \/ MarkFailed(a)
           \/ StoreResult(a) \/ Plan(a) \/ Planned(a) \/ SavePlan(a)
  <2>1. CASE OpenSlot(a)
    BY <1>0, <1>1, <2>1 DEF OpenSlot, Go, Local
  <2>2. CASE Reserve(a)
    BY <1>0, <1>1, <1>3, <2>2 DEF Reserve, Throw, Go, Local
  <2>3. CASE ProviderAnswers(a)
    BY <1>0, <1>1, <2>3 DEF ProviderAnswers, Local
  <2>4. CASE ProviderFails(a) \/ MarkFailed(a) \/ StoreResult(a) \/ SavePlan(a)
    BY <1>0, <1>1, <2>4 DEF ProviderFails, MarkFailed, StoreResult, SavePlan, Go, Local
  <2>5. CASE Plan(a)
    <3>1. CASE \E p : att' = [att EXCEPT ![a].pc = "savePlan", ![a].plan = p]
      BY <1>0, <1>1, <3>1 DEF Local
    <3>2. CASE att' = [att EXCEPT ![a].pc = "call", ![a].slot = "PLAN"]
      BY <1>0, <1>1, <3>2 DEF Local
    <3> QED
      BY <2>5, <3>1, <3>2 DEF Plan
  <2>6. CASE Planned(a)
    BY <1>0, <1>1, <2>6 DEF Planned, Local
  <2> QED
    BY <1>9, <2>1, <2>2, <2>3, <2>4, <2>5, <2>6
<1>10. CASE Search(a) \/ Compose(a) \/ Answered(a) \/ Repaired(a)
  <2>1. CASE \E text, isFallback : Reply(a, text, isFallback)
    BY <1>0, <1>1, <2>1 DEF Reply, Local
  <2>2. CASE Search(a)
    BY <1>0, <1>1, <2>2 DEF Search, Local
  <2>3. CASE Compose(a)
    BY <1>0, <1>1, <2>1, <2>3 DEF Compose, Local
  <2>4. CASE Answered(a)
    BY <1>0, <1>1, <2>1, <2>4 DEF Answered, Local
  <2>5. CASE Repaired(a)
    BY <2>1, <2>5 DEF Repaired
  <2> QED
    BY <1>10, <2>2, <2>3, <2>4, <2>5
<1> QED
  BY <1>4, <1>5, <1>6, <1>7, <1>8, <1>9, <1>10 DEF Steps

-----------------------------------------------------------------------------
(* The theorems.                                                              *)

\* Steps that no attempt makes leave the attempts and the stages of the turn alone.
LEMMA OtherSteps ==
  ASSUME TypeOK,
         LeaseLapses \/ ChangeCatalog \/ (\E s \in Slots : ReviewReleases(s)) \/ UNCHANGED vars
  PROVE  /\ att' = att /\ replies' = replies /\ turn'.owner = turn.owner
         /\ turn'.plan = turn.plan /\ turn'.retrieval = turn.retrieval /\ turn'.response = turn.response
BY DEF TypeOK, Turn, LeaseLapses, ChangeCatalog, ReviewReleases, vars

LEMMA InvStep == IInv /\ [Next]_vars => IInv' /\ StageStands
<1> SUFFICES ASSUME IInv, [Next]_vars PROVE IInv' /\ StageStands
  OBVIOUS
<1>0. TypeOK /\ PointsAgree /\ OwnersDecide /\ ReturnsAgree /\ TypeOK'
  BY TypeStep DEF IInv
<1>1. ASSUME NEW a \in Attempts, Steps(a) PROVE IInv' /\ StageStands
  <2>1. /\ \A b \in Attempts \ {a} : att'[b] = att[b]
        /\ \A b \in Attempts \ {a} : turn'.owner = b => turn.owner = b
        /\ turn.owner # a => /\ turn'.plan = turn.plan
                             /\ turn'.retrieval = turn.retrieval
                             /\ turn'.response = turn.response
        /\ StageStands
    BY <1>0, <1>1, OthersKeep, TurnSteps
  <2>2. PointAgrees(a)' /\ OwnerDecides(a)' /\ ReturnAgrees(a)'
    BY <1>0, <1>1, PointStep, OwnerStep, ReturnStep
  <2>3. ASSUME NEW b \in Attempts \ {a} PROVE PointAgrees(b)' /\ OwnerDecides(b)' /\ ReturnAgrees(b)'
    <3>1. PointAgrees(b) /\ OwnerDecides(b) /\ ReturnAgrees(b)
      BY <1>0 DEF PointsAgree, OwnersDecide, ReturnsAgree
    <3>2. PointAgrees(b)'
      BY <2>1, <3>1 DEF PointAgrees, Calling, Planning, Searching, Answering
    <3>3. OwnerDecides(b)'
      BY <2>1, <3>1 DEF OwnerDecides, Working, Calling, Planning, Searching, Answering
    <3>4. ReturnAgrees(b)'
      BY <2>1, <3>1, NoneAssumption DEF ReturnAgrees, StageStands
    <3> QED
      BY <3>2, <3>3, <3>4
  <2>4. \A r \in replies' : r \in Responses /\ r = turn'.response
    <3>1. \A r \in replies : r \in Responses /\ r = turn.response
      BY <1>0 DEF ReturnsAgree
    <3>2. CASE Release(a)
      <4>1. ReturnAgrees(a) /\ turn'.response = turn.response
        BY <1>0, <3>2, FreedTurn DEF ReturnsAgree, Release
      <4> QED
        BY <3>1, <3>2, <4>1 DEF Release, At, ReturnAgrees
    <3>3. CASE UNCHANGED replies
      BY <2>1, <3>1, <3>3, NoneAssumption DEF StageStands
    <3> QED
      BY <1>1, <3>2, <3>3 DEF Steps, Begin, Find, Open, AlreadyRetrieved, Claim, ClaimRefused, Crash,
         Heartbeat, OpenSlot, LeaseLost, Reserve, InsufficientCredit, ProviderAnswers, ProviderFails,
         ProviderUnknown, MarkFailed, StoreResult, StoreFails, Plan, Planned, SavePlan, Search,
         SearchPending, SaveRetrieval, Compose, Answered, Repaired, SaveResponse
  <2> QED
    BY <1>0, <2>1, <2>2, <2>3, <2>4 DEF IInv, PointsAgree, OwnersDecide, ReturnsAgree
<1>2. CASE LeaseLapses \/ ChangeCatalog \/ (\E s \in Slots : ReviewReleases(s)) \/ UNCHANGED vars
  <2>1. /\ att' = att /\ replies' = replies /\ turn'.owner = turn.owner
        /\ turn'.plan = turn.plan /\ turn'.retrieval = turn.retrieval /\ turn'.response = turn.response
    BY <1>0, <1>2, OtherSteps
  <2>2. PointsAgree'
    BY <1>0, <2>1 DEF PointsAgree, PointAgrees, Calling, Planning, Searching, Answering
  <2>3. OwnersDecide'
    BY <1>0, <2>1 DEF OwnersDecide, OwnerDecides, Working, Calling, Planning, Searching, Answering
  <2>4. ReturnsAgree' /\ StageStands
    BY <1>0, <2>1 DEF ReturnsAgree, ReturnAgrees, StageStands
  <2> QED
    BY <1>0, <2>2, <2>3, <2>4 DEF IInv
<1> QED
  BY <1>1, <1>2 DEF Next, Steps

\* The turn, its slots and the locals of its attempts keep their types
\* (CommerceTurnService, ProductRetrievalService, ProductAnswerService).
THEOREM TypeCorrect == Spec => []TypeOK
<1>1. IInv => TypeOK
  BY DEF IInv
<1> QED
  BY <1>1, InitInv, InvStep, PTL DEF Spec

\* Every handling that returns an answer returns the one that the turn keeps, for any
\* number of handlings, crashes and lapsed leases (ProductAnswerService.answer).
THEOREM RepliesAgreeAlways == Spec => []RepliesAgree
<1>1. IInv => RepliesAgree
  BY DEF IInv, ReturnsAgree, RepliesAgree
<1> QED
  BY <1>1, InitInv, InvStep, PTL DEF Spec

\* A stage that was saved is never replaced (CommerceTurnService.savePlan, saveRetrieval
\* and saveResponse, fenced by the lease).
THEOREM StagesStandAlways == Spec => StagesStand
<1>1. IInv /\ [Next]_vars => [StageStands]_vars
  BY InvStep
<1> QED
  BY <1>1, InitInv, InvStep, PTL DEF Spec, StagesStand

=============================================================================
