------------------------- MODULE LineWebhook_proofs -------------------------
(* Machine-checked facts about LineWebhook, for every set of events,         *)
(* processes and prompts and every number of claims and faults.              *)
EXTENDS LineWebhook, FiniteSetTheorems, TLAPS

WorkerRow == [pc : PC, kind : Kinds, event : Events, prompt : Prompts,
              text : BOOLEAN, err : {"none", "transient", "other"}]
EventRow  == [status : RowStatus, owner : Processes \cup {Nobody},
              expired : BOOLEAN, attempts : 0..MaxClaims]

-----------------------------------------------------------------------------
(* Type correctness.                                                        *)

LEMMA IdleTypes == Idle \in WorkerRow
<1>1. (CHOOSE e \in Events : TRUE) \in Events /\ (CHOOSE q \in Prompts : TRUE) \in Prompts
  BY SetsAssumption
<1> QED
  BY <1>1 DEF Idle, WorkerRow, PC, Kinds

\* What a process that works is told by its locals.
LEMMA LocalTypes ==
  ASSUME TypeOK, NEW p \in Processes
  PROVE  /\ worker[p] \in WorkerRow /\ Event(p) \in Events /\ Job(p) \in Kinds \X Events
         /\ Key(p) \in Events \X Prompts
BY DEF TypeOK, WorkerRow, Event, Job, Key

\* Locals stay well typed when some of them are written.
LEMMA WriteTypes ==
  ASSUME NEW w \in WorkerRow, NEW pc \in PC, NEW q \in Prompts, NEW text \in BOOLEAN,
         NEW err \in {"transient", "other"}
  PROVE  /\ [w EXCEPT !.pc = pc] \in WorkerRow
         /\ [w EXCEPT !.pc = pc, !.prompt = q] \in WorkerRow
         /\ [w EXCEPT !.pc = pc, !.text = text] \in WorkerRow
         /\ [w EXCEPT !.pc = pc, !.text = text, !.prompt = q] \in WorkerRow
         /\ [w EXCEPT !.pc = pc, !.err = err, !.prompt = q, !.text = text] \in WorkerRow
<1>1. err \in {"none", "transient", "other"}
  OBVIOUS
<1> QED
  BY <1>1, Zenon DEF WorkerRow

\* A process that moves on, throws, answers or is done stays well typed.
LEMMA MoveTypes ==
  ASSUME TypeOK, NEW p \in Processes,
         \/ \E pc \in PC : Goto(p, pc)
         \/ Done(p)
         \/ \E err \in {"transient", "other"} : Throw(p, err)
         \/ \E text \in BOOLEAN : Answer(p, text)
         \/ \E w \in WorkerRow : worker' = [worker EXCEPT ![p] = w]
  PROVE  worker' \in [Processes -> WorkerRow]
<1>1. worker \in [Processes -> WorkerRow]
  BY DEF TypeOK, WorkerRow
<1>2. ASSUME NEW w \in WorkerRow, worker' = [worker EXCEPT ![p] = w]
      PROVE  worker' \in [Processes -> WorkerRow]
  BY <1>1, <1>2
<1>3. worker[p] \in WorkerRow /\ Idle.prompt \in Prompts
  BY <1>1, IdleTypes DEF WorkerRow
<1>4. ASSUME NEW pc \in PC, Goto(p, pc) PROVE worker' \in [Processes -> WorkerRow]
  <2>1. [worker[p] EXCEPT !.pc = pc] \in WorkerRow
    BY <1>3, Zenon DEF WorkerRow
  <2>2. worker' = [worker EXCEPT ![p] = [worker[p] EXCEPT !.pc = pc]]
    BY <1>4 DEF Goto
  <2> QED
    BY <1>2, <2>1, <2>2
<1>5. ASSUME NEW err \in {"transient", "other"}, Throw(p, err)
      PROVE  worker' \in [Processes -> WorkerRow]
  <2>1. [worker[p] EXCEPT !.pc = "finish", !.err = err, !.prompt = Idle.prompt, !.text = FALSE]
          \in WorkerRow
    BY <1>3, WriteTypes DEF PC
  <2> QED
    BY <1>2, <1>5, <2>1 DEF Throw
<1>6. ASSUME NEW text \in BOOLEAN, Answer(p, text) PROVE worker' \in [Processes -> WorkerRow]
  <2>1. [worker[p] EXCEPT !.pc = "persist", !.text = text, !.prompt = Idle.prompt] \in WorkerRow
    BY <1>3, WriteTypes DEF PC
  <2> QED
    BY <1>2, <1>6, <2>1 DEF Answer
<1> QED
  BY <1>2, <1>4, <1>5, <1>6, IdleTypes DEF Done

LEMMA TypeStep == TypeOK /\ [Next]_vars => TypeOK'
<1> SUFFICES ASSUME TypeOK, [Next]_vars PROVE TypeOK'
  OBVIOUS
<1> USE DEF queueVars, aiVars, outVars, outside, ghostVars
<1>1. ASSUME NEW e \in Events,
             Receive(e) \/ BackoffEnds(e) \/ GiveUp(e) \/ Recover(e)
      PROVE  TypeOK'
  <2>1. CASE Receive(e) \/ Recover(e)
    BY <2>1 DEF Receive, Recover, AddJob, TypeOK, Kinds
  <2>2. CASE BackoffEnds(e)
    <3>1. row' \in [Events -> EventRow]
      BY <2>2 DEF BackoffEnds, TypeOK, EventRow
    <3> QED
      BY <2>2, <3>1 DEF BackoffEnds, TypeOK, EventRow
  <2>3. CASE GiveUp(e)
    <3>1. row' \in [Events -> EventRow]
      <4>0. row[e] \in EventRow
        BY DEF TypeOK, EventRow
      <4>1. [row[e] EXCEPT !.status = "FAILED", !.owner = Nobody] \in EventRow
        BY <4>0, Zenon DEF EventRow, RowStatus
      <4>2. row' = [row EXCEPT ![e] = [row[e] EXCEPT !.status = "FAILED", !.owner = Nobody]]
        BY <2>3 DEF GiveUp
      <4> QED
        BY <4>1, <4>2 DEF TypeOK, EventRow
    <3> QED
      BY <2>3, <3>1 DEF GiveUp, TypeOK, EventRow
  <2> QED
    BY <1>1, <2>1, <2>2, <2>3
<1>2. ASSUME NEW e \in Events, LeaseLapses(e) PROVE TypeOK'
  <2>1. row' \in [Events -> EventRow]
    BY <1>2 DEF LeaseLapses, TypeOK, EventRow
  <2>2. overrun' \subseteq Events /\ faults' \in 0..MaxFaults
    BY <1>2, BoundsAssumption DEF LeaseLapses, Fault, TypeOK
  <2> QED
    BY <1>2, <2>1, <2>2 DEF LeaseLapses, TypeOK, EventRow
<1>3. ASSUME NEW j \in Kinds \X Events, ForgetJob(j) PROVE TypeOK'
  BY <1>3 DEF ForgetJob, TypeOK
<1>4. ASSUME NEW j \in Kinds \X Events, NEW p \in Processes, Take(p, j) PROVE TypeOK'
  <2>1. [Idle EXCEPT !.pc = "gate", !.kind = j[1], !.event = j[2]] \in WorkerRow
    BY IdleTypes, Zenon DEF WorkerRow, PC
  <2>2. worker' \in [Processes -> WorkerRow]
    BY <1>4, <2>1, MoveTypes DEF Take
  <2> QED
    BY <1>4, <2>2 DEF Take, TypeOK, WorkerRow
<1>5. ASSUME NEW p \in Processes,
             \/ GateDrops(p) \/ GatePasses(p) \/ ClaimSkipped(p) \/ FindDelivery(p)
             \/ LookUpInbound(p) \/ Deliver(p) \/ SaveReplyRefused(p) \/ AnswerPending(p)
             \/ ReplayAnswer(p) \/ (\E text \in BOOLEAN : RespondWithoutAI(p, text))
      PROVE  TypeOK'
  <2>1. worker' \in [Processes -> WorkerRow]
    BY <1>5, MoveTypes DEF GateDrops, GatePasses, ClaimSkipped, FindDelivery, LookUpInbound,
       Deliver, SaveReplyRefused, AnswerPending, ReplayAnswer, RespondWithoutAI, PC, NextAfterFind
  <2> QED
    BY <1>5, <2>1 DEF GateDrops, GatePasses, ClaimSkipped, FindDelivery, LookUpInbound,
       Deliver, SaveReplyRefused, AnswerPending, ReplayAnswer, RespondWithoutAI, TypeOK, WorkerRow
<1>6. ASSUME NEW p \in Processes, CreateRow(p) \/ Claim(p) \/ InsertInbound(p) PROVE TypeOK'
  <2>1. worker' \in [Processes -> WorkerRow]
    BY <1>6, MoveTypes DEF CreateRow, Claim, InsertInbound, PC
  <2>2. row' \in [Events -> EventRow]
    <3>1. CASE CreateRow(p)
      <4>1. row \in [Events -> EventRow] /\ Event(p) \in Events /\ "RETRY" \in RowStatus
        BY LocalTypes DEF TypeOK, EventRow, RowStatus
      <4>2. [row EXCEPT ![Event(p)].status = "RETRY"] \in [Events -> EventRow]
        BY <4>1 DEF EventRow
      <4> QED
        BY <3>1, <4>1, <4>2 DEF CreateRow
    <3>2. CASE Claim(p)
      <4>1. row[Event(p)].attempts + 1 \in 0..MaxClaims
        BY <3>2, LocalTypes, BoundsAssumption DEF Claim, Claimable, TypeOK
      <4>2. row \in [Events -> EventRow] /\ Event(p) \in Events /\ "PROCESSING" \in RowStatus
        BY LocalTypes DEF TypeOK, EventRow, RowStatus
      <4>3. [row[Event(p)] EXCEPT !.status = "PROCESSING", !.owner = p, !.expired = FALSE,
                                  !.attempts = @ + 1] \in EventRow
        BY <4>1, <4>2, Zenon DEF EventRow
      <4>4. row' = [row EXCEPT ![Event(p)] =
                      [row[Event(p)] EXCEPT !.status = "PROCESSING", !.owner = p, !.expired = FALSE,
                                            !.attempts = @ + 1]]
        BY <3>2 DEF Claim
      <4> QED
        BY <4>2, <4>3, <4>4
    <3>3. CASE InsertInbound(p)
      BY <3>3 DEF InsertInbound, TypeOK, EventRow
    <3> QED
      BY <1>6, <3>1, <3>2, <3>3
  <2>3. inbound' \in [Events -> Nat]
    BY <1>6, LocalTypes DEF CreateRow, Claim, InsertInbound, TypeOK
  <2>4. banned' \in BOOLEAN /\ ahead' \in [Events -> 0..BatchSize]
    <3>1. CASE CreateRow(p) \/ InsertInbound(p)
      BY <3>1 DEF CreateRow, InsertInbound, TypeOK
    <3>2. CASE Claim(p)
      <4>1. ahead' = [ahead EXCEPT ![Event(p)] = 0] /\ banned' = banned
        BY <3>2 DEF Claim
      <4>2. ahead \in [Events -> 0..BatchSize] /\ 0 \in 0..BatchSize /\ banned \in BOOLEAN
        BY BoundsAssumption DEF TypeOK
      <4> QED
        BY <4>1, <4>2
    <3> QED
      BY <1>6, <3>1, <3>2
  <2> QED
    BY <1>6, <2>1, <2>2, <2>3, <2>4 DEF CreateRow, Claim, InsertInbound, TypeOK, WorkerRow, EventRow
<1>7. ASSUME NEW p \in Processes, NEW q \in Prompts, LoadContext(p, q) PROVE TypeOK'
  <2>1. [worker[p] EXCEPT !.pc = "respond", !.prompt = q] \in WorkerRow
    BY LocalTypes, WriteTypes DEF TypeOK, PC
  <2>2. worker' \in [Processes -> WorkerRow]
    BY <1>7, <2>1, MoveTypes DEF LoadContext
  <2> QED
    BY <1>7, <2>2 DEF LoadContext, TypeOK, WorkerRow
<1>8. ASSUME NEW p \in Processes,
             \/ ReserveCall(p) \/ SettleCall(p) \/ CallFallsBack(p)
             \/ (\E err \in {"transient", "other"} : CallFails(p, err))
      PROVE  TypeOK'
  <2>1. worker' \in [Processes -> WorkerRow]
    BY <1>8, MoveTypes DEF ReserveCall, SettleCall, CallFallsBack, CallFails, PC
  <2>2. held' \subseteq Events \X Prompts /\ settled' \subseteq Events \X Prompts
    <3>1. Key(p) \in Events \X Prompts
      BY LocalTypes
    <3> QED
      BY <1>8, <3>1 DEF ReserveCall, SettleCall, CallFallsBack, CallFails, TypeOK
  <2> QED
    BY <1>8, <2>1, <2>2 DEF ReserveCall, SettleCall, CallFallsBack, CallFails, TypeOK, WorkerRow
<1>9. ASSUME NEW p \in Processes, SaveReply(p) PROVE TypeOK'
  <2>1. [worker[p] EXCEPT !.pc = IF worker[p].text THEN "deliver" ELSE "finish", !.text = FALSE]
          \in WorkerRow
    BY LocalTypes, WriteTypes DEF PC
  <2>2. worker' \in [Processes -> WorkerRow]
    BY <1>9, <2>1, MoveTypes DEF SaveReply
  <2>3. row' \in [Events -> EventRow]
    BY <1>9, LocalTypes DEF SaveReply, TypeOK, EventRow
  <2>4. delivery' \subseteq Events /\ silent' \subseteq Events
    BY <1>9, LocalTypes DEF SaveReply, TypeOK
  <2> QED
    BY <1>9, <2>2, <2>3, <2>4 DEF SaveReply, TypeOK, WorkerRow, EventRow
<1>10. ASSUME NEW p \in Processes, Finish(p) PROVE TypeOK'
  <2>1. worker' \in [Processes -> WorkerRow]
    BY <1>10, MoveTypes DEF Finish
  <2>2. row' \in [Events -> EventRow]
    <3>1. FinalStatus(p) \in RowStatus
      BY DEF FinalStatus, RowStatus
    <3>2. CASE Fenced(p)
      <4>1. row \in [Events -> EventRow] /\ Event(p) \in Events
        BY LocalTypes DEF TypeOK, EventRow
      <4>2. [row[Event(p)] EXCEPT !.status = FinalStatus(p), !.owner = Nobody, !.expired = FALSE]
              \in EventRow
        BY <3>1, <4>1, Zenon DEF EventRow
      <4>3. row' = [row EXCEPT ![Event(p)] =
                      [row[Event(p)] EXCEPT !.status = FinalStatus(p), !.owner = Nobody,
                                            !.expired = FALSE]]
        BY <1>10, <3>2 DEF Finish
      <4> QED
        BY <4>1, <4>2, <4>3
    <3>3. CASE ~Fenced(p)
      BY <1>10, <3>3 DEF Finish, TypeOK, EventRow
    <3> QED
      BY <3>2, <3>3
  <2>3. jobs' \subseteq Kinds \X Events /\ kept' \subseteq Kinds \X Events
    BY <1>10, LocalTypes DEF Finish, AddJob, TypeOK, Kinds
  <2> QED
    BY <1>10, <2>1, <2>2, <2>3 DEF Finish, TypeOK, WorkerRow, EventRow
<1>11. ASSUME NEW p \in Processes, LocalError(p) \/ Crash(p) PROVE TypeOK'
  <2>1. worker' \in [Processes -> WorkerRow]
    BY <1>11, MoveTypes DEF LocalError, Crash
  <2>2. jobs' \subseteq Kinds \X Events /\ faults' \in 0..MaxFaults
    BY <1>11, LocalTypes, BoundsAssumption DEF LocalError, Crash, Fault, TypeOK
  <2> QED
    BY <1>11, <2>1, <2>2 DEF LocalError, Crash, TypeOK, WorkerRow
<1>12. ASSUME NEW p \in Processes, RenewLease(p) PROVE TypeOK'
  BY <1>12, LocalTypes DEF RenewLease, TypeOK
<1>13. ASSUME Surroundings PROVE TypeOK'
  <2>1. CASE BanChanges
    BY <2>1 DEF BanChanges, TypeOK
  <2>2. ASSUME NEW e \in Events, NEW n \in 0..BatchSize, CrowdChanges(e, n) PROVE TypeOK'
    BY <2>2 DEF CrowdChanges, TypeOK
  <2> QED
    BY <1>13, <2>1, <2>2 DEF Surroundings
<1>14. ASSUME UNCHANGED vars PROVE TypeOK'
  BY <1>14 DEF vars, TypeOK
<1> QED
  BY <1>1, <1>2, <1>3, <1>4, <1>5, <1>6, <1>7, <1>8, <1>9, <1>10, <1>11, <1>12, <1>13, <1>14
     DEF Next, Work

-----------------------------------------------------------------------------
(* The lease.                                                               *)

\* A worker past its claim owns the row under a running lease, as long as no
\* lease of the event lapsed under a live worker.
HoldersOwn == \A p \in Processes : Holding(p) /\ Event(p) \notin overrun =>
  Owns(p) /\ ~row[Event(p)].expired

\* What the steps do to the workers: all but one keep theirs, and that one goes
\* on with its event, starts anew, or stops.
LEMMA OthersKeep ==
  ASSUME TypeOK, NEW p \in Processes, NEW q \in Processes,
         Work(p) \/ LocalError(p) \/ Crash(p) \/ RenewLease(p) \/ \E j \in Kinds \X Events : Take(p, j),
         q # p
  PROVE  worker'[q] = worker[q]
BY DEF TypeOK, Work, Take, LocalError, Crash, RenewLease, GateDrops, GatePasses, CreateRow, Claim,
       ClaimSkipped, FindDelivery, LookUpInbound, InsertInbound, LoadContext, RespondWithoutAI,
       ReplayAnswer, AnswerPending, ReserveCall, SettleCall, CallFallsBack, CallFails, SaveReply,
       SaveReplyRefused, Deliver, Finish, Goto, Done, Throw, Answer

\* What a move does to the program point and the event of its worker.
LEMMA Moves ==
  ASSUME TypeOK, NEW p \in Processes
  PROVE  /\ \A pc \in PC : Goto(p, pc) => worker'[p].pc = pc /\ Event(p)' = Event(p)
                                          /\ worker'[p].err = worker[p].err
         /\ \A err \in {"transient", "other"} : Throw(p, err) =>
              worker'[p].pc = "finish" /\ Event(p)' = Event(p) /\ worker'[p].err = err
         /\ \A text \in BOOLEAN : Answer(p, text) =>
              worker'[p].pc = "persist" /\ Event(p)' = Event(p) /\ worker'[p].err = worker[p].err
         /\ Done(p) => worker'[p].pc = "idle"
<1>1. worker \in [Processes -> WorkerRow] /\ worker[p] \in WorkerRow
  BY DEF TypeOK, WorkerRow
<1>2. ASSUME NEW w, worker' = [worker EXCEPT ![p] = w] PROVE worker'[p] = w
  BY <1>1, <1>2
<1>3. ASSUME NEW pc \in PC, Goto(p, pc)
      PROVE  /\ worker'[p].pc = pc /\ Event(p)' = Event(p)
             /\ worker'[p].err = worker[p].err
  BY <1>1, <1>3 DEF Goto, Event, WorkerRow
<1>4. ASSUME NEW err \in {"transient", "other"}, Throw(p, err)
      PROVE  worker'[p].pc = "finish" /\ Event(p)' = Event(p) /\ worker'[p].err = err
  <2> DEFINE w == [worker[p] EXCEPT !.pc = "finish", !.err = err, !.prompt = Idle.prompt,
                                    !.text = FALSE]
  <2>1. worker'[p] = w
    BY <1>2, <1>4 DEF Throw
  <2>2. w.pc = "finish" /\ w.event = worker[p].event /\ w.err = err
    BY <1>1, Zenon DEF WorkerRow
  <2> QED
    BY <2>1, <2>2 DEF Event
<1>5. ASSUME NEW text \in BOOLEAN, Answer(p, text)
      PROVE  worker'[p].pc = "persist" /\ Event(p)' = Event(p) /\ worker'[p].err = worker[p].err
  <2> DEFINE w == [worker[p] EXCEPT !.pc = "persist", !.text = text, !.prompt = Idle.prompt]
  <2>1. worker'[p] = w
    BY <1>2, <1>5 DEF Answer
  <2>2. w.pc = "persist" /\ w.event = worker[p].event /\ w.err = worker[p].err
    BY <1>1, Zenon DEF WorkerRow
  <2> QED
    BY <2>1, <2>2 DEF Event
<1>6. ASSUME Done(p) PROVE worker'[p].pc = "idle"
  BY <1>2, <1>6 DEF Done, Idle
<1> QED
  BY <1>3, <1>4, <1>5, <1>6

\* A worker past its claim got there by the claim, or was there before with the same event.
LEMMA HoldersStay ==
  ASSUME TypeOK, NEW p \in Processes, Work(p) \/ LocalError(p), Holding(p)'
  PROVE  Event(p)' = Event(p) /\ (Holding(p) \/ Claim(p))
<1>1. CASE LocalError(p) \/ AnswerPending(p) \/ SaveReplyRefused(p)
  BY <1>1, Moves DEF LocalError, AnswerPending, SaveReplyRefused, Holding, At
<1>2. CASE \E err \in {"transient", "other"} : CallFails(p, err)
  BY <1>2, Moves DEF CallFails, Holding, At
<1>3. CASE GateDrops(p) \/ GatePasses(p) \/ CreateRow(p) \/ ClaimSkipped(p) \/ Finish(p)
  BY <1>3, Moves DEF GateDrops, GatePasses, CreateRow, ClaimSkipped, Finish, Holding, PC
<1>4. CASE \/ Claim(p) \/ FindDelivery(p) \/ LookUpInbound(p) \/ InsertInbound(p)
           \/ ReserveCall(p) \/ Deliver(p)
  BY <1>4, Moves DEF Claim, FindDelivery, LookUpInbound, InsertInbound, ReserveCall,
     Deliver, NextAfterFind, Holding, At, PC
<1>5. CASE \/ (\E text \in BOOLEAN : RespondWithoutAI(p, text)) \/ ReplayAnswer(p)
           \/ SettleCall(p) \/ CallFallsBack(p)
  BY <1>5, Moves DEF RespondWithoutAI, ReplayAnswer, SettleCall, CallFallsBack, Holding, At
<1>6. CASE (\E q \in Prompts : LoadContext(p, q)) \/ SaveReply(p)
  <2>1. worker[p] \in WorkerRow /\ worker \in [Processes -> WorkerRow]
    BY DEF TypeOK, WorkerRow
  <2>2. Event(p)' = Event(p)
    BY <1>6, <2>1 DEF LoadContext, SaveReply, Event, WorkerRow
  <2> QED
    BY <1>6, <2>2 DEF LoadContext, SaveReply, Holding, At
<1> QED
  BY <1>1, <1>2, <1>3, <1>4, <1>5, <1>6 DEF Work

\* Only the claim, the reply and the end of an event write its row.
LEMMA RowKept ==
  ASSUME TypeOK, NEW p \in Processes, Work(p) \/ LocalError(p),
         ~(CreateRow(p) \/ Claim(p) \/ SaveReply(p) \/ Finish(p))
  PROVE  row' = row
BY DEF Work, LocalError, GateDrops, GatePasses, 
       ClaimSkipped, FindDelivery, LookUpInbound, InsertInbound, LoadContext, RespondWithoutAI,
       ReplayAnswer, AnswerPending, ReserveCall, SettleCall, CallFallsBack, CallFails,
       SaveReplyRefused, Deliver

LEMMA OverrunKept ==
  ASSUME NEW p \in Processes, Work(p) \/ LocalError(p) \/ Crash(p)
  PROVE  overrun' = overrun
<1> USE DEF outside, ghostVars
<1>1. CASE LocalError(p) \/ Crash(p)
  BY <1>1 DEF LocalError, Crash
<1>2. CASE Work(p)
  BY <1>2 DEF Work, GateDrops, GatePasses, CreateRow, Claim,
       ClaimSkipped, FindDelivery, LookUpInbound, InsertInbound, LoadContext, RespondWithoutAI,
       ReplayAnswer, AnswerPending, ReserveCall, SettleCall, CallFallsBack, CallFails, SaveReply,
       SaveReplyRefused, Deliver, Finish
<1> QED
  BY <1>1, <1>2

LEMMA HoldersOwnStep == TypeOK /\ HoldersOwn /\ [Next]_vars => HoldersOwn'
<1> SUFFICES ASSUME TypeOK, HoldersOwn, [Next]_vars,
                    NEW q \in Processes, Holding(q)', Event(q)' \notin overrun'
             PROVE  Owns(q)' /\ ~row'[Event(q)'].expired
  BY DEF HoldersOwn
<1> DEFINE f == Event(q)
<1>0. f \in Events /\ row[f] \in EventRow
  BY LocalTypes DEF TypeOK, EventRow
\* A worker that keeps its place, and whose row is kept or only renewed, keeps its lease.
<1>1. ASSUME Holding(q), Event(q)' = f, f \notin overrun,
             row'[f] = row[f] \/ row'[f] = [row[f] EXCEPT !.expired = FALSE]
      PROVE  Owns(q)' /\ ~row'[Event(q)'].expired
  <2>1. Owns(q) /\ ~row[f].expired
    BY <1>1 DEF HoldersOwn
  <2> QED
    BY <1>0, <1>1, <2>1 DEF Owns, EventRow
<1>2. ASSUME NEW p \in Processes, Work(p) \/ LocalError(p)
      PROVE  Owns(q)' /\ ~row'[Event(q)'].expired
  <2>1. overrun' = overrun
    BY <1>2, OverrunKept
  <2>2. Event(q)' = f /\ (Holding(q) \/ (q = p /\ Claim(p)))
    <3>1. CASE q = p
      BY <1>2, <3>1, HoldersStay
    <3>2. CASE q # p
      BY <1>2, <3>2, OthersKeep DEF Holding, Event
    <3> QED
      BY <3>1, <3>2
  <2>3. CASE Claim(p)
    <3>1. CASE q = p
      BY <1>0, <2>2, <2>3, <3>1 DEF Claim, Owns, TypeOK
    <3>2. CASE q # p
      <4>1. Holding(q) /\ f \notin overrun
        BY <2>1, <2>2, <3>2
      <4>2. f # Event(p)
        BY <2>3, <4>1 DEF HoldersOwn, Claim, Claimable
      <4> QED
        BY <1>1, <2>2, <2>3, <4>1, <4>2, <1>0 DEF Claim, TypeOK
    <3> QED
      BY <3>1, <3>2
  <2>4. CASE ~Claim(p)
    <3>1. Holding(q) /\ f \notin overrun /\ Owns(q)
      BY <2>1, <2>2, <2>4 DEF HoldersOwn
    <3>2. row'[f] = row[f] \/ row'[f] = [row[f] EXCEPT !.expired = FALSE]
      <4>1. CASE CreateRow(p)
        BY <1>0, <3>1, <4>1 DEF CreateRow, Exists, Owns, TypeOK
      <4>2. CASE SaveReply(p)
        BY <1>0, <4>2, LocalTypes DEF SaveReply, TypeOK
      <4>3. CASE Finish(p)
        <5>1. q # p
          BY <4>3 DEF Finish, Done, Idle, Holding, TypeOK
        <5>2. ~Owns(p) \/ Event(p) # f
          BY <3>1, <5>1 DEF Owns
        <5> QED
          BY <1>0, <4>3, <5>2 DEF Finish, Fenced, TypeOK
      <4> QED
        BY <1>2, <2>4, <4>1, <4>2, <4>3, RowKept
    <3> QED
      BY <1>1, <2>2, <3>1, <3>2
  <2> QED
    BY <2>3, <2>4
<1>3. ASSUME NEW p \in Processes, Crash(p) \/ RenewLease(p) \/ \E j \in Kinds \X Events : Take(p, j)
      PROVE  Owns(q)' /\ ~row'[Event(q)'].expired
  <2>1. overrun' = overrun
    BY <1>3 DEF Crash, RenewLease, Take, ghostVars
  <2>2. worker'[q] = worker[q]
    <3>1. CASE q = p
      <4>1. CASE RenewLease(p)
        BY <4>1 DEF RenewLease
      <4>2. ~Crash(p)
        BY <3>1, Moves DEF Crash, Holding
      <4>3. ASSUME NEW j \in Kinds \X Events PROVE ~Take(p, j)
        <5>1. Take(p, j) => worker'[p].pc = "gate"
          BY DEF Take, TypeOK, Idle
        <5> QED
          BY <3>1, <5>1 DEF Holding
      <4> QED
        BY <1>3, <4>1, <4>2, <4>3
    <3>2. CASE q # p
      BY <1>3, <3>2, OthersKeep
    <3> QED
      BY <3>1, <3>2
  <2>3. row'[f] = row[f] \/ row'[f] = [row[f] EXCEPT !.expired = FALSE]
    BY <1>0, <1>3, LocalTypes DEF Crash, RenewLease, Take, TypeOK
  <2> QED
    BY <1>1, <2>1, <2>2, <2>3 DEF Holding, Event
<1>4. ASSUME NEW e \in Events, LeaseLapses(e) PROVE Owns(q)' /\ ~row'[Event(q)'].expired
  <2>1. worker' = worker /\ Holding(q) /\ Event(q)' = f
    BY <1>4 DEF LeaseLapses, Holding, Event
  <2>2. f \notin overrun
    BY <1>4, <2>1 DEF LeaseLapses, ghostVars
  <2>3. Owns(q)
    BY <2>1, <2>2 DEF HoldersOwn
  <2>4. e # f
    BY <1>4, <2>1, <2>3 DEF LeaseLapses
  <2> QED
    BY <1>0, <1>1, <1>4, <2>1, <2>2, <2>4 DEF LeaseLapses, TypeOK
<1>5. ASSUME NEW e \in Events, BackoffEnds(e) \/ GiveUp(e)
      PROVE  Owns(q)' /\ ~row'[Event(q)'].expired
  <2>1. worker' = worker /\ overrun' = overrun
    BY <1>5 DEF BackoffEnds, GiveUp, ghostVars
  <2>2. Holding(q) /\ Event(q)' = f /\ Owns(q) /\ ~row[f].expired
    BY <2>1 DEF Holding, Event, HoldersOwn
  <2>3. e # f
    BY <1>5, <2>2 DEF BackoffEnds, GiveUp, Recoverable, Owns
  <2> QED
    BY <1>0, <1>1, <1>5, <2>1, <2>2, <2>3 DEF BackoffEnds, GiveUp, TypeOK
<1>6. ASSUME row' = row, worker' = worker, overrun' = overrun
      PROVE  Owns(q)' /\ ~row'[Event(q)'].expired
  BY <1>1, <1>6 DEF Holding, Event
<1>7. ASSUME \/ \E e \in Events : Receive(e) \/ Recover(e)
             \/ \E j \in Kinds \X Events : ForgetJob(j)
             \/ Surroundings \/ UNCHANGED vars
      PROVE  row' = row /\ worker' = worker /\ overrun' = overrun
  BY <1>7 DEF Receive, Recover, ForgetJob, Surroundings, BanChanges, CrowdChanges, vars, ghostVars
<1> QED
  BY <1>2, <1>3, <1>4, <1>5, <1>6, <1>7 DEF Next

-----------------------------------------------------------------------------
(* Replies.                                                                 *)

Asks(p) == worker[p].pc \in {"lookup", "insert", "load", "respond", "calling", "persist"}

\* A worker that is still on its way to a reply works for an event without one,
\* as long as no lease of the event lapsed under a live worker.
AskedIsUnanswered == \A p \in Processes :
  Asks(p) /\ Event(p) \notin overrun => Event(p) \notin delivery

\* Nothing that was saved is taken back, and a lapsed lease is remembered.
LEMMA Kept ==
  ASSUME TypeOK, [Next]_vars
  PROVE  /\ delivery \subseteq delivery' /\ silent \subseteq silent' /\ overrun \subseteq overrun'
         /\ \A e \in Events : inbound[e] > 0 => inbound'[e] > 0
<1> USE DEF outVars, outside, ghostVars
<1>1. ASSUME NEW p \in Processes, InsertInbound(p) PROVE \A e \in Events : inbound[e] > 0 => inbound'[e] > 0
  BY <1>1, LocalTypes DEF InsertInbound, TypeOK
<1>2. ASSUME NEW p \in Processes, Work(p), ~InsertInbound(p) PROVE UNCHANGED inbound
  BY <1>2 DEF Work, GateDrops, GatePasses, CreateRow, Claim,
       ClaimSkipped, FindDelivery, LookUpInbound, LoadContext, RespondWithoutAI,
       ReplayAnswer, AnswerPending, ReserveCall, SettleCall, CallFallsBack, CallFails, SaveReply,
       SaveReplyRefused, Deliver, Finish
<1>3. ASSUME NEW p \in Processes, SaveReply(p)
      PROVE  delivery \subseteq delivery' /\ silent \subseteq silent'
  BY <1>3 DEF SaveReply
<1>4. ASSUME NEW p \in Processes, Work(p), ~SaveReply(p) PROVE UNCHANGED outVars
  BY <1>4 DEF Work, GateDrops, GatePasses, CreateRow, Claim,
       ClaimSkipped, FindDelivery, LookUpInbound, InsertInbound, LoadContext, RespondWithoutAI,
       ReplayAnswer, AnswerPending, ReserveCall, SettleCall, CallFallsBack, CallFails,
       SaveReplyRefused, Deliver, Finish
<1>5. ASSUME NEW p \in Processes, Work(p)
      PROVE  /\ delivery \subseteq delivery' /\ silent \subseteq silent' /\ overrun \subseteq overrun'
             /\ \A e \in Events : inbound[e] > 0 => inbound'[e] > 0
  BY <1>1, <1>2, <1>3, <1>4, <1>5, OverrunKept
<1>6. ASSUME NEW p \in Processes, LocalError(p) \/ Crash(p) \/ RenewLease(p)
      PROVE  UNCHANGED <<inbound, delivery, silent, overrun>>
  BY <1>6 DEF LocalError, Crash, RenewLease
<1>7. ASSUME NEW e \in Events, LeaseLapses(e)
      PROVE  UNCHANGED <<inbound, delivery, silent>> /\ overrun \subseteq overrun'
  BY <1>7 DEF LeaseLapses
<1>8. ASSUME \/ \E e \in Events : Receive(e) \/ BackoffEnds(e) \/ GiveUp(e) \/ Recover(e)
             \/ \E j \in Kinds \X Events : ForgetJob(j) \/ \E p \in Processes : Take(p, j)
             \/ Surroundings \/ UNCHANGED vars
      PROVE  UNCHANGED <<inbound, delivery, silent, overrun>>
  BY <1>8 DEF Receive, BackoffEnds, GiveUp, Recover, ForgetJob, Take, Surroundings, BanChanges, CrowdChanges, vars
<1> QED
  BY <1>5, <1>6, <1>7, <1>8 DEF Next

\* What a process knows of a worker it is not: a step of another one leaves its locals alone,
\* and a step of none of them all locals.
LEMMA WorkerSteps ==
  ASSUME TypeOK, [Next]_vars, NEW q \in Processes
  PROVE  \/ worker'[q] = worker[q]
         \/ worker'[q].pc \in {"idle", "gate"}
         \/ Work(q) \/ LocalError(q)
<1>1. ASSUME NEW p \in Processes, q # p,
             \/ Work(p) \/ LocalError(p) \/ Crash(p) \/ RenewLease(p)
             \/ \E j \in Kinds \X Events : Take(p, j)
      PROVE  worker'[q] = worker[q]
  BY <1>1, OthersKeep
<1>2. RenewLease(q) => worker'[q] = worker[q]
  BY DEF RenewLease
<1>3. Crash(q) => worker'[q].pc = "idle"
  BY Moves DEF Crash
<1>4. ASSUME NEW j \in Kinds \X Events, Take(q, j) PROVE worker'[q].pc = "gate"
  BY <1>4 DEF Take, TypeOK, Idle
<1>5. ASSUME \/ \E e \in Events : \/ Receive(e) \/ LeaseLapses(e) \/ BackoffEnds(e)
                                  \/ GiveUp(e) \/ Recover(e)
             \/ \E j \in Kinds \X Events : ForgetJob(j)
             \/ Surroundings \/ UNCHANGED vars
      PROVE  worker' = worker
  BY <1>5 DEF Receive, LeaseLapses, BackoffEnds, GiveUp, Recover, ForgetJob, Surroundings, BanChanges, CrowdChanges, vars
<1> QED
  BY <1>1, <1>2, <1>3, <1>4, <1>5 DEF Next

\* Where the steps of process lead that Moves does not tell of.
LEMMA MoreMoves ==
  ASSUME TypeOK, NEW p \in Processes
  PROVE  /\ \A q \in Prompts : LoadContext(p, q) => worker'[p].pc = "respond" /\ Event(p)' = Event(p)
         /\ SaveReply(p) => /\ worker'[p].pc = IF worker[p].text THEN "deliver" ELSE "finish"
                            /\ Event(p)' = Event(p) /\ worker'[p].err = worker[p].err
<1>1. worker \in [Processes -> WorkerRow] /\ worker[p] \in WorkerRow
  BY DEF TypeOK, WorkerRow
<1>2. ASSUME NEW w, worker' = [worker EXCEPT ![p] = w] PROVE worker'[p] = w
  BY <1>1, <1>2
<1>3. ASSUME NEW q \in Prompts, LoadContext(p, q)
      PROVE  worker'[p].pc = "respond" /\ Event(p)' = Event(p)
  <2> DEFINE w == [worker[p] EXCEPT !.pc = "respond", !.prompt = q]
  <2>1. worker'[p] = w
    BY <1>2, <1>3 DEF LoadContext
  <2>2. w.pc = "respond" /\ w.event = worker[p].event
    BY <1>1, Zenon DEF WorkerRow
  <2> QED
    BY <2>1, <2>2 DEF Event
<1>4. ASSUME SaveReply(p)
      PROVE  /\ worker'[p].pc = IF worker[p].text THEN "deliver" ELSE "finish"
             /\ Event(p)' = Event(p) /\ worker'[p].err = worker[p].err
  <2> DEFINE pc == IF worker[p].text THEN "deliver" ELSE "finish"
  <2> DEFINE w == [worker[p] EXCEPT !.pc = pc, !.text = FALSE]
  <2>1. worker'[p] = w
    BY <1>2, <1>4 DEF SaveReply
  <2>2. w.pc = pc /\ w.event = worker[p].event /\ w.err = worker[p].err
    BY <1>1, Zenon DEF WorkerRow
  <2> QED
    BY <2>1, <2>2 DEF Event
<1> QED
  BY <1>3, <1>4

LEMMA AskedStep ==
  TypeOK /\ HoldersOwn /\ AskedIsUnanswered /\ [Next]_vars => AskedIsUnanswered'
<1> SUFFICES ASSUME TypeOK, HoldersOwn, AskedIsUnanswered, [Next]_vars,
                    NEW q \in Processes, Asks(q)', Event(q)' \notin overrun'
             PROVE  Event(q)' \notin delivery'
  BY DEF AskedIsUnanswered
<1>0. overrun \subseteq overrun'
  BY Kept
\* The reply of another event, or of nobody, is no reply of this one.
<1>1. ASSUME Asks(q), Event(q)' = Event(q), ~SaveReply(q)
      PROVE  Event(q)' \notin delivery'
  <2>1. Event(q) \notin overrun /\ Event(q) \notin delivery
    BY <1>0, <1>1 DEF AskedIsUnanswered
  <2>2. ASSUME NEW p \in Processes, SaveReply(p) PROVE Event(p) # Event(q)
    <3>1. p # q /\ Owns(p)
      BY <1>1, <2>2 DEF SaveReply
    <3>2. Owns(q)
      BY <1>1, <2>1 DEF HoldersOwn, Asks, Holding
    <3> QED
      BY <3>1, <3>2 DEF Owns
  <2>3. ASSUME NEW p \in Processes, SaveReply(p) PROVE Event(q) \notin delivery'
    BY <2>1, <2>2, <2>3 DEF SaveReply
  <2>4. ASSUME ~ \E p \in Processes : SaveReply(p) PROVE delivery' = delivery
    <3> USE DEF outVars, outside
    <3>1. ASSUME NEW p \in Processes, Work(p) PROVE delivery' = delivery
      BY <2>4, <3>1 DEF Work, GateDrops, GatePasses, CreateRow, Claim,
         ClaimSkipped, FindDelivery, LookUpInbound, InsertInbound, LoadContext, RespondWithoutAI,
         ReplayAnswer, AnswerPending, ReserveCall, SettleCall, CallFallsBack, CallFails,
         SaveReplyRefused, Deliver, Finish
    <3>2. ASSUME ~ \E p \in Processes : Work(p) PROVE delivery' = delivery
      BY <3>2 DEF Next, Receive, LeaseLapses, BackoffEnds, GiveUp, Recover, ForgetJob, Take,
         LocalError, Crash, RenewLease, Surroundings, BanChanges, CrowdChanges, vars
    <3> QED
      BY <3>1, <3>2
  <2> QED
    BY <1>1, <2>1, <2>3, <2>4
<1>2. ASSUME Work(q) \/ LocalError(q), worker'[q] # worker[q]
      PROVE  Event(q)' \notin delivery'
  <2>1. CASE LocalError(q) \/ AnswerPending(q) \/ SaveReplyRefused(q)
              \/ \E err \in {"transient", "other"} : CallFails(q, err)
    BY <2>1, Moves DEF LocalError, AnswerPending, SaveReplyRefused, CallFails, Asks
  <2>2. CASE GateDrops(q) \/ GatePasses(q) \/ CreateRow(q) \/ Claim(q) \/ ClaimSkipped(q)
              \/ Finish(q) \/ Deliver(q)
    BY <2>2, Moves DEF GateDrops, GatePasses, CreateRow, Claim, ClaimSkipped, Finish, Deliver,
       Asks, PC
  <2>3. CASE FindDelivery(q)
    BY <2>3, Moves DEF FindDelivery, NextAfterFind, Asks, PC, outVars
  <2>4. CASE SaveReply(q)
    BY <2>4, MoreMoves DEF Asks
  <2>5. CASE LookUpInbound(q) \/ InsertInbound(q) \/ ReserveCall(q)
    <3>1. Asks(q) /\ Event(q)' = Event(q) /\ ~SaveReply(q)
      BY <2>5, Moves DEF LookUpInbound, InsertInbound, ReserveCall, SaveReply, Asks, At, PC
    <3> QED
      BY <1>1, <3>1
  <2>6. CASE \/ (\E text \in BOOLEAN : RespondWithoutAI(q, text)) \/ ReplayAnswer(q)
             \/ SettleCall(q) \/ CallFallsBack(q)
    <3>1. Asks(q) /\ Event(q)' = Event(q) /\ ~SaveReply(q)
      BY <2>6, Moves DEF RespondWithoutAI, ReplayAnswer, SettleCall, CallFallsBack, SaveReply, Asks, At
    <3> QED
      BY <1>1, <3>1
  <2>7. CASE \E c \in Prompts : LoadContext(q, c)
    <3>1. Asks(q) /\ Event(q)' = Event(q) /\ ~SaveReply(q)
      BY <2>7, MoreMoves DEF LoadContext, SaveReply, Asks, At
    <3> QED
      BY <1>1, <3>1
  <2> QED
    BY <1>2, <2>1, <2>2, <2>3, <2>4, <2>5, <2>6, <2>7 DEF Work
<1>3. ASSUME worker'[q] = worker[q] PROVE Event(q)' \notin delivery'
  <2>1. SaveReply(q) => ~Asks(q)'
    BY MoreMoves DEF Asks
  <2>2. Asks(q) /\ Event(q)' = Event(q)
    BY <1>3 DEF Asks, Event
  <2> QED
    BY <1>1, <2>1, <2>2
<1> QED
  BY <1>2, <1>3, WorkerSteps DEF Asks

\* How far a worker has come tells what was saved of its event.
SavedSoFar ==
  /\ \A p \in Processes :
       /\ worker[p].pc \in {"load", "respond", "calling", "persist", "deliver"} => inbound[Event(p)] > 0
       /\ worker[p].pc = "deliver" => Event(p) \in delivery
       /\ worker[p].pc = "finish" /\ worker[p].err = "none" =>
            inbound[Event(p)] > 0 /\ Event(p) \in delivery \cup silent
  /\ \A e \in delivery : inbound[e] > 0

\* A process that is past the insert was so before, or its message is there.
LEMMA SavedStep == TypeOK /\ SavedSoFar /\ [Next]_vars => SavedSoFar'
<1> SUFFICES ASSUME TypeOK, SavedSoFar, [Next]_vars PROVE SavedSoFar'
  OBVIOUS
<1>0. /\ delivery \subseteq delivery' /\ silent \subseteq silent'
      /\ \A e \in Events : inbound[e] > 0 => inbound'[e] > 0
  BY Kept
<1>1. \A e \in delivery' : inbound'[e] > 0
  <2>1. ASSUME NEW p \in Processes, SaveReply(p) PROVE \A e \in delivery' : inbound'[e] > 0
    <3>1. inbound[Event(p)] > 0 /\ inbound' = inbound
      BY <2>1 DEF SaveReply, At, SavedSoFar
    <3> QED
      BY <2>1, <3>1 DEF SaveReply, SavedSoFar
  <2>2. ASSUME ~ \E p \in Processes : SaveReply(p) PROVE delivery' = delivery
    <3> USE DEF outVars, outside
    <3>1. ASSUME NEW p \in Processes, Work(p) PROVE delivery' = delivery
      BY <2>2, <3>1 DEF Work, GateDrops, GatePasses, CreateRow, Claim,
         ClaimSkipped, FindDelivery, LookUpInbound, InsertInbound, LoadContext, RespondWithoutAI,
         ReplayAnswer, AnswerPending, ReserveCall, SettleCall, CallFallsBack, CallFails,
         SaveReplyRefused, Deliver, Finish
    <3>2. ASSUME ~ \E p \in Processes : Work(p) PROVE delivery' = delivery
      BY <3>2 DEF Next, Receive, LeaseLapses, BackoffEnds, GiveUp, Recover, ForgetJob, Take,
         LocalError, Crash, RenewLease, Surroundings, BanChanges, CrowdChanges, vars
    <3> QED
      BY <3>1, <3>2
  <2> QED
    BY <1>0, <2>1, <2>2 DEF SavedSoFar, TypeOK
<1>2. ASSUME NEW q \in Processes
      PROVE  /\ worker'[q].pc \in {"load", "respond", "calling", "persist", "deliver"} =>
                  inbound'[Event(q)'] > 0
             /\ worker'[q].pc = "deliver" => Event(q)' \in delivery'
             /\ worker'[q].pc = "finish" /\ worker'[q].err = "none" =>
                  inbound'[Event(q)'] > 0 /\ Event(q)' \in delivery' \cup silent'
  <2>0. Event(q) \in Events
    BY LocalTypes
  \* The worker was as far before and works for the same event.
  <2>1. ASSUME Event(q)' = Event(q),
               worker[q].pc \in {"load", "respond", "calling", "persist"},
               worker'[q].pc \in {"load", "respond", "calling", "persist"}
                 \/ (worker'[q].pc = "finish" /\ worker'[q].err # "none")
        PROVE  <1>2!2
    BY <1>0, <2>0, <2>1 DEF SavedSoFar
  <2>2. CASE worker'[q] = worker[q]
    BY <1>0, <2>0, <2>2 DEF SavedSoFar, Event
  <2>3. CASE LocalError(q) \/ AnswerPending(q) \/ SaveReplyRefused(q)
             \/ \E err \in {"transient", "other"} : CallFails(q, err)
    <3>1. worker'[q].pc = "finish" /\ worker'[q].err # "none"
      BY <2>3, Moves DEF LocalError, AnswerPending, SaveReplyRefused, CallFails
    <3> QED
      BY <3>1
  <2>4. CASE worker'[q].pc \in {"idle", "gate"}
    BY <2>4
  <2>5. CASE GateDrops(q) \/ GatePasses(q) \/ CreateRow(q) \/ Claim(q) \/ ClaimSkipped(q) \/ Finish(q)
    <3>1. worker'[q].pc \in {"idle", "create", "claim", "find"}
      BY <2>5, Moves DEF GateDrops, GatePasses, CreateRow, Claim, ClaimSkipped, Finish, PC
    <3> QED
      BY <3>1
  <2>6. CASE FindDelivery(q)
    <3>1. Event(q)' = Event(q) /\ worker'[q].pc = NextAfterFind(Event(q))
      BY <2>6, Moves DEF FindDelivery, NextAfterFind, PC
    <3> QED
      BY <1>0, <2>0, <3>1 DEF NextAfterFind, SavedSoFar
  <2>7. CASE LookUpInbound(q)
    <3>1. Event(q)' = Event(q) /\ \/ worker'[q].pc = "insert"
                                  \/ worker'[q].pc = "load" /\ inbound[Event(q)] > 0
      BY <2>7, Moves DEF LookUpInbound, PC
    <3> QED
      BY <1>0, <2>0, <3>1
  <2>8. CASE InsertInbound(q)
    <3>1. Event(q)' = Event(q) /\ worker'[q].pc = "load"
      BY <2>8, Moves DEF InsertInbound, PC
    <3>2. inbound'[Event(q)] > 0
      BY <2>0, <2>8 DEF InsertInbound, Unique, TypeOK
    <3> QED
      BY <3>1, <3>2
  <2>9. CASE \/ (\E text \in BOOLEAN : RespondWithoutAI(q, text)) \/ ReplayAnswer(q)
             \/ SettleCall(q) \/ CallFallsBack(q) \/ ReserveCall(q)
    <3>1. /\ Event(q)' = Event(q) /\ worker[q].pc \in {"respond", "calling"}
          /\ worker'[q].pc \in {"persist", "calling"}
      BY <2>9, Moves DEF RespondWithoutAI, ReplayAnswer, SettleCall, CallFallsBack, ReserveCall, At, PC
    <3> QED
      BY <2>1, <3>1
  <2>10. CASE \E c \in Prompts : LoadContext(q, c)
    <3>1. Event(q)' = Event(q) /\ worker[q].pc = "load" /\ worker'[q].pc = "respond"
      BY <2>10, MoreMoves DEF LoadContext, At
    <3> QED
      BY <2>1, <3>1
  <2>11. CASE SaveReply(q)
    <3>1. Event(q)' = Event(q) /\ inbound[Event(q)] > 0
      BY <2>11, MoreMoves DEF SaveReply, At, SavedSoFar
    <3>2. \/ worker'[q].pc = "deliver" /\ Event(q) \in delivery'
          \/ worker'[q].pc = "finish" /\ Event(q) \in delivery' \cup silent'
      BY <2>11, MoreMoves DEF SaveReply
    <3> QED
      BY <1>0, <2>0, <3>1, <3>2
  <2>12. CASE Deliver(q)
    <3>1. Event(q)' = Event(q) /\ worker'[q].pc = "finish" /\ worker[q].pc = "deliver"
      BY <2>12, Moves DEF Deliver, At, PC
    <3> QED
      BY <1>0, <2>0, <3>1 DEF SavedSoFar
  <2> QED
    BY <2>2, <2>3, <2>4, <2>5, <2>6, <2>7, <2>8, <2>9, <2>10, <2>11, <2>12, WorkerSteps DEF Work
<1> QED
  BY <1>1, <1>2 DEF SavedSoFar

\* Only the end of an event without an error completes it.
LEMMA CompletedStep ==
  TypeOK /\ SavedSoFar /\ CompletedIsAnswered /\ [Next]_vars => CompletedIsAnswered'
<1> SUFFICES ASSUME TypeOK, SavedSoFar, CompletedIsAnswered, [Next]_vars,
                    NEW e \in Events, row'[e].status = "COMPLETED"
             PROVE  inbound'[e] > 0 /\ e \in delivery' \cup silent'
  BY DEF CompletedIsAnswered
<1>0. /\ delivery \subseteq delivery' /\ silent \subseteq silent'
      /\ inbound[e] > 0 => inbound'[e] > 0
  BY Kept
<1>1. CASE row[e].status = "COMPLETED"
  BY <1>0, <1>1 DEF CompletedIsAnswered
<1>2. ASSUME NEW p \in Processes, Finish(p), row[e].status # "COMPLETED"
      PROVE  inbound[e] > 0 /\ e \in delivery \cup silent
  <2>1. e = Event(p) /\ FinalStatus(p) = "COMPLETED"
    BY <1>2, LocalTypes DEF Finish, TypeOK
  <2> QED
    BY <1>2, <2>1 DEF Finish, At, FinalStatus, SavedSoFar
<1>3. ASSUME NEW p \in Processes, CreateRow(p) \/ Claim(p) \/ SaveReply(p)
      PROVE  row[e].status = "COMPLETED"
  <2> USE LocalTypes
  <2>1. CASE CreateRow(p)
    BY <2>1 DEF CreateRow, TypeOK
  <2>2. CASE Claim(p)
    BY <2>2 DEF Claim, TypeOK
  <2>3. CASE SaveReply(p)
    BY <2>3 DEF SaveReply, TypeOK
  <2> QED
    BY <1>3, <2>1, <2>2, <2>3
<1>4. ASSUME NEW p \in Processes, RenewLease(p) PROVE row[e].status = "COMPLETED"
  BY <1>4, LocalTypes DEF RenewLease, TypeOK
<1>5. ASSUME NEW f \in Events, LeaseLapses(f) \/ BackoffEnds(f) \/ GiveUp(f)
      PROVE  row[e].status = "COMPLETED"
  <2>1. row \in [Events -> EventRow]
    BY DEF TypeOK, EventRow
  <2> QED
    BY <1>5, <2>1 DEF LeaseLapses, BackoffEnds, GiveUp, EventRow
<1>6. ASSUME \/ \E p \in Processes : Crash(p)
             \/ \E f \in Events : Receive(f) \/ Recover(f)
             \/ \E j \in Kinds \X Events : ForgetJob(j) \/ \E p \in Processes : Take(p, j)
             \/ Surroundings \/ UNCHANGED vars
      PROVE  row[e].status = "COMPLETED"
  BY <1>6 DEF Crash, Receive, Recover, ForgetJob, Take, Surroundings, BanChanges, CrowdChanges, vars
<1>7. ASSUME NEW p \in Processes, Work(p) \/ LocalError(p), ~Finish(p)
      PROVE  row[e].status = "COMPLETED"
  BY <1>3, <1>7, RowKept
<1> QED
  BY <1>0, <1>1, <1>2, <1>4, <1>5, <1>6, <1>7 DEF Next

-----------------------------------------------------------------------------
(* The theorems.                                                            *)

IInv == TypeOK /\ HoldersOwn /\ AskedIsUnanswered /\ SavedSoFar /\ CompletedIsAnswered

LEMMA InitInv == Init => IInv
<1> SUFFICES ASSUME Init PROVE IInv
  OBVIOUS
<1>1. Idle \in WorkerRow /\ Idle.pc = "idle"
  BY IdleTypes DEF Idle
<1>2. \A p \in Processes : worker[p].pc = "idle"
  BY <1>1 DEF Init
<1>3. worker \in [Processes -> WorkerRow]
  BY <1>1 DEF Init
<1>4. row \in [Events -> EventRow]
  <2>1. NoRow \in EventRow
    BY BoundsAssumption DEF NoRow, EventRow, RowStatus
  <2> QED
    BY <2>1 DEF Init
<1>5. TypeOK
  <2>1. /\ inbound \in [Events -> Nat] /\ banned \in BOOLEAN /\ faults \in 0..MaxFaults
        /\ ahead \in [Events -> 0..BatchSize]
    <3>1. inbound = [e \in Events |-> 0] /\ ahead = [e \in Events |-> 0] /\ banned = FALSE /\ faults = 0
      BY Zenon DEF Init
    <3>2. inbound \in [Events -> Nat] /\ ahead \in [Events -> 0..BatchSize]
      BY <3>1, BoundsAssumption
    <3>3. banned \in BOOLEAN
      BY <3>1, Zenon
    <3>4. faults \in 0..MaxFaults
      BY <3>1, BoundsAssumption
    <3> QED
      BY <3>2, <3>3, <3>4
  <2>2. /\ jobs = {} /\ kept = {} /\ held = {} /\ settled = {}
        /\ delivery = {} /\ silent = {} /\ overrun = {}
    BY DEF Init
  <2> QED
    BY <1>3, <1>4, <2>1, <2>2, Zenon DEF TypeOK, WorkerRow, EventRow
<1>6. HoldersOwn /\ AskedIsUnanswered /\ SavedSoFar
  BY <1>2 DEF HoldersOwn, AskedIsUnanswered, SavedSoFar, Holding, Asks, Init
<1>7. CompletedIsAnswered
  BY DEF CompletedIsAnswered, Init, NoRow
<1> QED
  BY <1>5, <1>6, <1>7 DEF IInv

LEMMA InvStep == IInv /\ [Next]_vars => IInv'
BY TypeStep, HoldersOwnStep, AskedStep, SavedStep, CompletedStep DEF IInv

\* Rows, jobs and the locals of the workers keep their types, and no event is claimed
\* more often than MaxClaims (claimWebhookEvent).
THEOREM TypeCorrect == Spec => []TypeOK
<1>1. IInv => TypeOK
  BY DEF IInv
<1> QED
  BY <1>1, InitInv, InvStep, PTL DEF Spec

\* Two workers never handle the same event, whatever is redelivered, recovered or
\* crashes, unless the lease lapsed under a live worker (claimWebhookEvent).
THEOREM ClaimsExcludeAlways == Spec => []ClaimsExclude
<1>1. TypeOK /\ HoldersOwn => ClaimsExclude
  <2> SUFFICES ASSUME TypeOK, HoldersOwn, NEW e \in Events, e \notin overrun
               PROVE  Cardinality({p \in Processes : Holding(p) /\ Event(p) = e}) <= 1
    BY DEF ClaimsExclude
  <2> DEFINE S == {p \in Processes : Holding(p) /\ Event(p) = e}
  <2>1. S \subseteq {row[e].owner}
    BY DEF HoldersOwn, Owns
  <2>2. IsFiniteSet({row[e].owner}) /\ Cardinality({row[e].owner}) = 1
    BY FS_Singleton
  <2>3. Cardinality(S) <= Cardinality({row[e].owner})
    BY <2>1, <2>2, FS_Subset
  <2> QED
    BY <2>2, <2>3
<1>2. IInv => ClaimsExclude
  BY <1>1 DEF IInv
<1> QED
  BY <1>2, InitInv, InvStep, PTL DEF Spec

\* A completed event is saved and answered: by a delivery, or on purpose not at all
\* (finishWebhookEvent).
THEOREM CompletedIsAnsweredAlways == Spec => []CompletedIsAnswered
<1>1. IInv => CompletedIsAnswered
  BY DEF IInv
<1> QED
  BY <1>1, InitInv, InvStep, PTL DEF Spec

\* The AI is not called for an event whose reply is persisted, unless its lease
\* lapsed under a live worker (MessageProcessorService.process).
THEOREM NoCallAfterReplyAlways == Spec => NoCallAfterReply
<1> DEFINE Quiet == \A e \in Events \ overrun : e \in delivery =>
  \A q \in Prompts : <<e, q>> \in held' \cup settled' => <<e, q>> \in held \cup settled
<1>1. IInv /\ [Next]_vars => [Quiet]_vars
  <2> SUFFICES ASSUME IInv, [Next]_vars, NEW e \in Events \ overrun, e \in delivery,
                      NEW q \in Prompts, <<e, q>> \in held' \cup settled'
               PROVE  <<e, q>> \in held \cup settled
    OBVIOUS
  <2>1. TypeOK /\ AskedIsUnanswered
    BY DEF IInv
  <2>2. ASSUME NEW p \in Processes, ReserveCall(p) \/ SettleCall(p)
        PROVE  <<e, q>> \in held \cup settled
    <3>1. Event(p) # e
      BY <2>1, <2>2 DEF ReserveCall, SettleCall, At, AskedIsUnanswered, Asks
    <3>2. Key(p) # <<e, q>>
      BY <3>1 DEF Key
    <3>3. held' \subseteq held \cup {Key(p)} /\ settled' \subseteq settled \cup {Key(p)}
      BY <2>2 DEF ReserveCall, SettleCall
    <3> QED
      BY <3>2, <3>3, Zenon
  <2>3. ASSUME NEW p \in Processes,
               CallFallsBack(p) \/ \E err \in {"transient", "other"} : CallFails(p, err)
        PROVE  held' \subseteq held /\ settled' = settled
    BY <2>3 DEF CallFallsBack, CallFails
  <2>4. ASSUME NEW p \in Processes, Work(p), ~ReserveCall(p), ~SettleCall(p), ~CallFallsBack(p),
               ~ \E err \in {"transient", "other"} : CallFails(p, err)
        PROVE  held' = held /\ settled' = settled
    BY <2>4 DEF aiVars, Work, GateDrops, GatePasses, CreateRow, Claim,
         ClaimSkipped, FindDelivery, LookUpInbound, InsertInbound, LoadContext, RespondWithoutAI,
         ReplayAnswer, AnswerPending, SaveReply, SaveReplyRefused, Deliver, Finish
  <2>5. ASSUME ~ \E p \in Processes : Work(p) PROVE held' = held /\ settled' = settled
    BY <2>5 DEF aiVars, Next, Receive, LeaseLapses, BackoffEnds, GiveUp, Recover, ForgetJob, Take,
         LocalError, Crash, RenewLease, Surroundings, BanChanges, CrowdChanges, vars
  <2> QED
    BY <2>2, <2>3, <2>4, <2>5
<1> QED
  BY <1>1, InitInv, InvStep, PTL DEF Spec, NoCallAfterReply
=============================================================================
