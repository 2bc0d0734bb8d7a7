---------------------------- MODULE LineWebhook ----------------------------
(***************************************************************************)
(* Incoming LINE events: the BullMQ jobs that carry them, the               *)
(* processedLineWebhookEvent row under which one worker at a time handles   *)
(* an event, and MessageProcessorService.process, which saves the message,  *)
(* asks the chatbot and persists the reply.                                 *)
(*                                                                          *)
(* The events are those of one customer.  A process chains the jobs of a    *)
(* customer (userProcessingTails), so it works on one of them at a time;    *)
(* several processes share the queues.  Every awaited call is one action.   *)
(* The AI call is taken with its billing: a call is billed under a key made *)
(* of the event and of everything in the request (the recent turns, the     *)
(* instructions, the retrieved knowledge), here the prompt it was made of.  *)
(***************************************************************************)
EXTENDS Integers, FiniteSets

CONSTANTS
  Events,     \* webhook events of the customer
  Postbacks,  \* those that are postbacks: they have no LINE message id
  Processes,  \* processes that run the two queues
  Prompts,    \* what a request may be made of
  Nobody,     \* no lease owner
  MaxClaims,  \* claims after which an event is given up
  BatchSize,  \* events that one sweep of the recovery queues
  MaxFaults   \* bound: crashes, local errors and lapsed leases of a behaviour

ASSUME SetsAssumption ==
  /\ Postbacks \subseteq Events
  /\ Nobody \notin Processes
  /\ Events # {} /\ Prompts # {}
ASSUME BoundsAssumption ==
  MaxClaims \in Nat \ {0} /\ BatchSize \in Nat \ {0} /\ MaxFaults \in Nat

VARIABLES
  row,      \* processedLineWebhookEvent rows
  jobs,     \* waiting jobs, <<kind, event>>
  kept,     \* job ids BullMQ still knows: another job of that id is not added
  worker,   \* what each process is doing
  inbound,  \* lineChatHistory rows of the customer, per event
  held,     \* keys of AI calls reserved and not settled
  settled,  \* keys of AI calls billed
  delivery, \* events with a lineDelivery row
  silent,   \* events answered with an empty text (history variable)
  banned,   \* the customer is banned
  ahead,    \* per event that waits for recovery, the older rows a sweep finds before it
  overrun,  \* events whose lease lapsed under a live worker (history variable)
  faults    \* faults so far

queueVars == <<jobs, kept>>
aiVars    == <<held, settled>>
outVars   == <<delivery, silent>>
outside   == <<banned, ahead>>
ghostVars == <<overrun, faults>>
vars == <<row, queueVars, worker, inbound, aiVars, outVars, outside, ghostVars>>

RowStatus == {"NONE", "RETRY", "PROCESSING", "COMPLETED", "FAILED"}
Kinds     == {"main", "retry", "recover"}
PC == {"idle", "gate", "create", "claim", "find", "lookup", "insert", "load", "respond",
       "calling", "persist", "deliver", "finish"}

NoRow == [status |-> "NONE", owner |-> Nobody, expired |-> TRUE, attempts |-> 0]
Idle  == [pc |-> "idle", kind |-> "main", event |-> CHOOSE e \in Events : TRUE,
          prompt |-> CHOOSE q \in Prompts : TRUE, text |-> FALSE, err |-> "none"]

Init ==
  /\ row = [e \in Events |-> NoRow]
  /\ jobs = {} /\ kept = {}
  /\ worker = [p \in Processes |-> Idle]
  /\ inbound = [e \in Events |-> 0]
  /\ held = {} /\ settled = {}
  /\ delivery = {} /\ silent = {}
  /\ banned = FALSE /\ ahead = [e \in Events |-> 0]
  /\ overrun = {} /\ faults = 0

Exists(e)   == row[e].status # "NONE"
At(p, pc)   == worker[p].pc = pc
Event(p)    == worker[p].event
Job(p)      == <<worker[p].kind, Event(p)>>
Goto(p, pc) == worker' = [worker EXCEPT ![p].pc = pc]
Done(p)     == worker' = [worker EXCEPT ![p] = Idle]
\* The request is over: what it was made of is no longer read.
Throw(p, err) == worker' = [worker EXCEPT ![p] = [@ EXCEPT !.pc = "finish", !.err = err,
                              !.prompt = Idle.prompt, !.text = FALSE]]
Fault       == faults < MaxFaults /\ faults' = faults + 1
Owns(p)     == row[Event(p)].status = "PROCESSING" /\ row[Event(p)].owner = p
\* Past the claim: the worker believes that the event is its own.
Holding(p)  == worker[p].pc \notin {"idle", "gate", "create", "claim"}
Active(j)   == \E p \in Processes : ~At(p, "idle") /\ Job(p) = j

-----------------------------------------------------------------------------
(* The queues.                                                              *)

\* BullMQ ignores a job whose id it still knows.
AddJob(j) == IF j \in kept THEN UNCHANGED queueVars
             ELSE jobs' = jobs \cup {j} /\ kept' = kept \cup {j}

\* LINE delivers the event, for the first time or again.
Receive(e) ==
  /\ <<"main", e>> \notin kept
  /\ AddJob(<<"main", e>>)
  /\ UNCHANGED <<row, worker, inbound, aiVars, outVars, outside, ghostVars>>

\* The record of a finished job is removed after its retention.
ForgetJob(j) ==
  /\ j \in kept \ jobs /\ ~Active(j)
  /\ kept' = kept \ {j}
  /\ UNCHANGED <<row, jobs, worker, inbound, aiVars, outVars, outside, ghostVars>>

Take(p, j) ==
  /\ At(p, "idle") /\ j \in jobs
  /\ jobs' = jobs \ {j}
  /\ worker' = [worker EXCEPT ![p] = [Idle EXCEPT !.pc = "gate", !.kind = j[1], !.event = j[2]]]
  /\ UNCHANGED <<row, kept, inbound, aiVars, outVars, outside, ghostVars>>

-----------------------------------------------------------------------------
(* processInOrder.                                                          *)

\* A ban, or for a first run the rate limits and the spam check, drop the event.
GateDrops(p) ==
  /\ At(p, "gate") /\ (banned \/ worker[p].kind = "main")
  /\ Done(p)
  /\ UNCHANGED <<row, queueVars, inbound, aiVars, outVars, outside, ghostVars>>

GatePasses(p) ==
  /\ At(p, "gate") /\ ~banned
  /\ Goto(p, "create")
  /\ UNCHANGED <<row, queueVars, inbound, aiVars, outVars, outside, ghostVars>>

\* claimWebhookEvent inserts the row, unless there is one ...
CreateRow(p) ==
  LET e == Event(p) IN
  /\ At(p, "create")
  /\ row' = IF Exists(e) THEN row ELSE [row EXCEPT ![e].status = "RETRY"]
  /\ Goto(p, "claim")
  /\ UNCHANGED <<queueVars, inbound, aiVars, outVars, outside, ghostVars>>

\* (Mutant) a running lease does not keep others out.
ClaimableAnyTime(e) == row[e].status \in {"RETRY", "PROCESSING"} /\ row[e].attempts < MaxClaims

\* ... and takes it if its lease is over and attempts are left.
Claimable(e) == /\ row[e].status \in {"RETRY", "PROCESSING"}
                /\ row[e].expired /\ row[e].attempts < MaxClaims

Claim(p) ==
  LET e == Event(p) IN
  /\ At(p, "claim") /\ Claimable(e)
  /\ row' = [row EXCEPT ![e].status = "PROCESSING", ![e].owner = p, ![e].expired = FALSE,
                        ![e].attempts = @ + 1]
  /\ Goto(p, "find")
  /\ ahead' = [ahead EXCEPT ![e] = 0]
  /\ UNCHANGED <<queueVars, inbound, aiVars, outVars, banned, ghostVars>>

ClaimSkipped(p) ==
  /\ At(p, "claim") /\ ~Claimable(Event(p))
  /\ Done(p)
  /\ UNCHANGED <<row, queueVars, inbound, aiVars, outVars, outside, ghostVars>>

-----------------------------------------------------------------------------
(* MessageProcessorService.process.                                         *)

\* (Mutant) the persisted reply is not looked for.
NextAfterFindAlwaysAsk(e) == "lookup"
NextAfterFind(e) == IF e \in delivery THEN "deliver" ELSE "lookup"

\* A reply that was persisted is delivered, and the chatbot not asked again.
FindDelivery(p) ==
  /\ At(p, "find")
  /\ Goto(p, NextAfterFind(Event(p)))
  /\ UNCHANGED <<row, queueVars, inbound, aiVars, outVars, outside, ghostVars>>

\* saveIncomingEvent looks a message up by its LINE id ...
LookUpInbound(p) ==
  LET e == Event(p) IN
  /\ At(p, "lookup")
  /\ Goto(p, IF e \notin Postbacks /\ inbound[e] > 0 THEN "load" ELSE "insert")
  /\ UNCHANGED <<row, queueVars, inbound, aiVars, outVars, outside, ghostVars>>

\* The unique index on lineMessageId refuses a second row of a message.
Unique(e) == e \notin Postbacks /\ inbound[e] > 0

\* ... and inserts it otherwise, unless another worker has meanwhile.
InsertInbound(p) ==
  LET e == Event(p) IN
  /\ At(p, "insert")
  /\ inbound' = IF Unique(e) THEN inbound ELSE [inbound EXCEPT ![e] = @ + 1]
  /\ Goto(p, "load")
  /\ UNCHANGED <<row, queueVars, aiVars, outVars, outside, ghostVars>>

\* The request is made of what is there now: turns are appended or expire between
\* two attempts, instructions and knowledge are edited.
LoadContext(p, q) ==
  /\ At(p, "load")
  /\ worker' = [worker EXCEPT ![p] = [@ EXCEPT !.pc = "respond", !.prompt = q]]
  /\ UNCHANGED <<row, queueVars, inbound, aiVars, outVars, outside, ghostVars>>

Answer(p, text) == worker' = [worker EXCEPT ![p] =
  [@ EXCEPT !.pc = "persist", !.text = text, !.prompt = Idle.prompt]]
Key(p) == <<Event(p), worker[p].prompt>>

\* A muted customer or an empty wallet gets an empty text, a rule a text without AI.
RespondWithoutAI(p, text) ==
  /\ At(p, "respond")
  /\ Answer(p, text)
  /\ UNCHANGED <<row, queueVars, inbound, aiVars, outVars, outside, ghostVars>>

\* runBilled: the call was billed before, and its result is replayed ...
ReplayAnswer(p) ==
  /\ At(p, "respond") /\ Key(p) \in settled
  /\ Answer(p, TRUE)
  /\ UNCHANGED <<row, queueVars, inbound, aiVars, outVars, outside, ghostVars>>

\* ... or its hold is unresolved: PendingAiUsageError ...
AnswerPending(p) ==
  /\ At(p, "respond") /\ Key(p) \in held
  /\ Throw(p, "other")
  /\ UNCHANGED <<row, queueVars, inbound, aiVars, outVars, outside, ghostVars>>

\* ... or it is reserved and made.
ReserveCall(p) ==
  /\ At(p, "respond") /\ Key(p) \notin held \cup settled
  /\ held' = held \cup {Key(p)}
  /\ Goto(p, "calling")
  /\ UNCHANGED <<row, queueVars, inbound, settled, outVars, outside, ghostVars>>

SettleCall(p) ==
  /\ At(p, "calling")
  /\ held' = held \ {Key(p)} /\ settled' = settled \cup {Key(p)}
  /\ Answer(p, TRUE)
  /\ UNCHANGED <<row, queueVars, inbound, outVars, outside, ghostVars>>

\* A failed call is recorded and its hold released.  It is answered with the fallback ...
CallFallsBack(p) ==
  /\ At(p, "calling")
  /\ held' = held \ {Key(p)}
  /\ Answer(p, TRUE)
  /\ UNCHANGED <<row, queueVars, inbound, settled, outVars, outside, ghostVars>>

\* ... or, where nothing catches it, fails the event; err tells whether it is transient.
CallFails(p, err) ==
  /\ At(p, "calling") /\ err \in {"transient", "other"}
  /\ held' = held \ {Key(p)}
  /\ Throw(p, err)
  /\ UNCHANGED <<row, queueVars, inbound, settled, outVars, outside, ghostVars>>

\* saveReply, in one transaction with the check of the lease, which it renews.
SaveReply(p) ==
  LET e == Event(p) IN
  /\ At(p, "persist") /\ Owns(p)
  /\ row' = [row EXCEPT ![e].expired = FALSE]
  /\ worker' = [worker EXCEPT ![p] = [@ EXCEPT
                  !.pc = IF worker[p].text THEN "deliver" ELSE "finish", !.text = FALSE]]
  /\ IF worker[p].text THEN delivery' = delivery \cup {e} /\ UNCHANGED silent
                       ELSE silent' = silent \cup {e} /\ UNCHANGED delivery
  /\ UNCHANGED <<queueVars, inbound, aiVars, outside, ghostVars>>

\* "Webhook lease lost"
SaveReplyRefused(p) ==
  /\ At(p, "persist") /\ ~Owns(p)
  /\ Throw(p, "other")
  /\ UNCHANGED <<row, queueVars, inbound, aiVars, outVars, outside, ghostVars>>

\* LineDeliveryService.deliver, of which module LineDelivery tells more.
Deliver(p) ==
  /\ At(p, "deliver")
  /\ Goto(p, "finish")
  /\ UNCHANGED <<row, queueVars, inbound, aiVars, outVars, outside, ghostVars>>

\* (Mutant) the error is not passed on.
FinalStatusIgnoringError(p) == "COMPLETED"
FinalStatus(p) == IF worker[p].err = "none" THEN "COMPLETED" ELSE "RETRY"

Fenced(p) == Owns(p)

\* finishWebhookEvent; a transient failure moves a main job to the retry queue and
\* makes BullMQ run a job of that queue again, while it has attempts left.
Finish(p) ==
  LET e == Event(p) IN
  /\ At(p, "finish")
  /\ row' = IF Fenced(p)
            THEN [row EXCEPT ![e].status = FinalStatus(p), ![e].owner = Nobody,
                             ![e].expired = FALSE]
            ELSE row
  /\ \/ worker[p].err = "transient" /\ worker[p].kind = "main" /\ AddJob(<<"retry", e>>)
     \/ /\ worker[p].err = "transient" /\ worker[p].kind # "main"
        /\ jobs' = jobs \cup {Job(p)} /\ UNCHANGED kept
     \/ ~(worker[p].err = "transient" /\ worker[p].kind = "main") /\ UNCHANGED queueVars
  /\ Done(p)
  /\ UNCHANGED <<inbound, aiVars, outVars, outside, ghostVars>>

-----------------------------------------------------------------------------
(* Failures and recovery.                                                   *)

\* An error of Redis, the database or LINE's profile service in process.
LocalError(p) ==
  /\ worker[p].pc \in {"find", "lookup", "insert", "load", "respond", "persist", "deliver"}
  /\ Fault /\ Throw(p, "other")
  /\ UNCHANGED <<row, queueVars, inbound, aiVars, outVars, outside, overrun>>

\* The process stops, or an error leaves processInOrder: BullMQ runs a stalled job
\* again, or counts it as failed.
Crash(p) ==
  /\ ~At(p, "idle") /\ Fault
  /\ jobs' \in {jobs, jobs \cup {Job(p)}}
  /\ Done(p)
  /\ UNCHANGED <<row, kept, inbound, aiVars, outVars, outside, overrun>>

\* Two minutes without a renewal.  Under a live worker, whose heartbeat renews the
\* lease every thirty seconds, that is a fault.
LeaseLapses(e) ==
  /\ row[e].status = "PROCESSING" /\ ~row[e].expired
  /\ row' = [row EXCEPT ![e].expired = TRUE]
  /\ IF \E p \in Processes : Event(p) = e /\ Holding(p) /\ Owns(p)
     THEN Fault /\ overrun' = overrun \cup {e}
     ELSE UNCHANGED ghostVars
  /\ UNCHANGED <<queueVars, worker, inbound, aiVars, outVars, outside>>

\* Ten seconds after a failed attempt.
BackoffEnds(e) ==
  /\ row[e].status = "RETRY" /\ ~row[e].expired
  /\ row' = [row EXCEPT ![e].expired = TRUE]
  /\ UNCHANGED <<queueVars, worker, inbound, aiVars, outVars, outside, ghostVars>>

\* The heartbeat; a failed renewal is only logged.
RenewLease(p) ==
  /\ Holding(p) /\ Owns(p) /\ row[Event(p)].expired
  /\ row' = [row EXCEPT ![Event(p)].expired = FALSE]
  /\ UNCHANGED <<queueVars, worker, inbound, aiVars, outVars, outside, ghostVars>>

\* (Mutant) recovery looks at failed attempts only.
RecoverableRetryOnly(e) == row[e].status = "RETRY" /\ row[e].expired
Recoverable(e) == row[e].status \in {"RETRY", "PROCESSING"} /\ row[e].expired

\* recoverableWebhookEvents gives up the events whose claims are used up ...
GiveUp(e) ==
  /\ Recoverable(e) /\ row[e].attempts >= MaxClaims
  /\ row' = [row EXCEPT ![e].status = "FAILED", ![e].owner = Nobody]
  /\ UNCHANGED <<queueVars, worker, inbound, aiVars, outVars, outside, ghostVars>>

\* The sweep takes the oldest rows that wait for it, and no more than a batch of them.
Waits(e)   == Recoverable(e) /\ row[e].attempts < MaxClaims
Crowded(e) == ahead[e] >= BatchSize

\* ... and recover queues the others that it finds, each under a job id of its own.
Recover(e) ==
  /\ Waits(e) /\ ~Crowded(e) /\ <<"recover", e>> \notin jobs
  /\ jobs' = jobs \cup {<<"recover", e>>}
  /\ UNCHANGED <<row, kept, worker, inbound, aiVars, outVars, outside, ghostVars>>

-----------------------------------------------------------------------------
(* The surroundings: bans come and go ...                                   *)

BanChanges ==
  /\ banned' = ~banned
  /\ UNCHANGED <<row, queueVars, worker, inbound, aiVars, outVars, ahead, ghostVars>>

\* ... and so do the older rows that wait for recovery.  Those of banned customers stay:
\* passesAbuseChecks drops their jobs before a claim is counted.
CrowdChanges(e, n) ==
  /\ Waits(e) /\ n # ahead[e]
  /\ ahead' = [ahead EXCEPT ![e] = n]
  /\ UNCHANGED <<row, queueVars, worker, inbound, aiVars, outVars, banned, ghostVars>>

Surroundings == BanChanges \/ \E e \in Events, n \in 0..BatchSize : CrowdChanges(e, n)

-----------------------------------------------------------------------------
Work(p) ==
  \/ GateDrops(p) \/ GatePasses(p) \/ CreateRow(p) \/ Claim(p) \/ ClaimSkipped(p)
  \/ FindDelivery(p) \/ LookUpInbound(p) \/ InsertInbound(p)
  \/ \E q \in Prompts : LoadContext(p, q)
  \/ \E text \in BOOLEAN : RespondWithoutAI(p, text)
  \/ ReplayAnswer(p) \/ AnswerPending(p) \/ ReserveCall(p) \/ SettleCall(p)
  \/ \E err \in {"transient", "other"} : CallFails(p, err)
  \/ CallFallsBack(p) \/ SaveReply(p) \/ SaveReplyRefused(p) \/ Deliver(p) \/ Finish(p)

Next ==
  \/ \E e \in Events : \/ Receive(e) \/ LeaseLapses(e) \/ BackoffEnds(e)
                       \/ GiveUp(e) \/ Recover(e)
  \/ \E j \in Kinds \X Events : ForgetJob(j) \/ \E p \in Processes : Take(p, j)
  \/ \E p \in Processes : Work(p) \/ LocalError(p) \/ Crash(p) \/ RenewLease(p)
  \/ Surroundings

Spec == Init /\ [][Next]_vars

\* Calls return, the queues are served in order (a waiting job gets its turn), time
\* passes, and the recovery timer fires: an event that stays within the sweep's batch
\* is queued, one that older rows keep out of it need not be.
Fairness ==
  /\ \A p \in Processes : WF_vars(Work(p))
  /\ \A e \in Events :
       /\ \A k \in Kinds : SF_vars(\E p \in Processes : Take(p, <<k, e>>))
       /\ WF_vars(LeaseLapses(e)) /\ WF_vars(BackoffEnds(e))
       /\ WF_vars(GiveUp(e)) /\ WF_vars(Recover(e))

FairSpec == Spec /\ Fairness

-----------------------------------------------------------------------------
(* Properties.                                                              *)

\* Rows, jobs and locals have their types, and no event is claimed more often
\* than five times (MaxClaims).
TypeOK ==
  /\ row \in [Events -> [status : RowStatus, owner : Processes \cup {Nobody},
                         expired : BOOLEAN, attempts : 0..MaxClaims]]
  /\ jobs \subseteq Kinds \X Events /\ kept \subseteq Kinds \X Events
  /\ worker \in [Processes -> [pc : PC, kind : Kinds, event : Events, prompt : Prompts,
                               text : BOOLEAN, err : {"none", "transient", "other"}]]
  /\ inbound \in [Events -> Nat]
  /\ held \subseteq Events \X Prompts /\ settled \subseteq Events \X Prompts
  /\ delivery \subseteq Events /\ silent \subseteq Events
  /\ banned \in BOOLEAN /\ ahead \in [Events -> 0..BatchSize]
  /\ overrun \subseteq Events /\ faults \in 0..MaxFaults

\* Two workers never handle the same event, across queues, processes, redelivery
\* and recovery, unless a lease lapsed under the first (claimWebhookEvent).
ClaimsExclude == \A e \in Events : e \notin overrun =>
  Cardinality({p \in Processes : Holding(p) /\ Event(p) = e}) <= 1

\* A completed event is saved and answered, by a delivery or on purpose not at
\* all: a worker that lost its lease completes nothing in another's name.
CompletedIsAnswered == \A e \in Events :
  row[e].status = "COMPLETED" => inbound[e] > 0 /\ e \in delivery \cup silent

\* Once a reply is persisted the AI is not called again for the event, unless a
\* lease lapsed under a live worker (message-processor.service.ts:28-33).
NoCallAfterReply == [][\A e \in Events \ overrun : e \in delivery =>
  \A q \in Prompts : <<e, q>> \in held' \cup settled' => <<e, q>> \in held \cup settled]_vars

Ended(e) == row[e].status \in {"COMPLETED", "FAILED"}

\* Every event is completed or given up, or its customer is banned at some point:
\* recovery finds the events of stopped workers and counts their claims.  The sweep
\* finds an event only if older rows leave it room in a batch; a backlog that passes
\* does no harm, one that never does (the rows of twenty banned customers) may.
EveryEventEnds == \A e \in Events :
  []<>Crowded(e) \/ (Exists(e) ~> Ended(e) \/ banned)

=============================================================================
