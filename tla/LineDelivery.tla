---------------------------- MODULE LineDelivery ----------------------------
(***************************************************************************)
(* Delivery of outgoing LINE messages.  A lineDelivery row is the outbox    *)
(* entry of one message: the chatbot's answer to a webhook event, or what   *)
(* an administrator typed.  LineDeliveryService.deliver is run by whoever   *)
(* created the row and, every five seconds, by recover; each run claims the *)
(* row under a lease, sends it by the event's reply token or by a push with *)
(* a retry key, and records what LINE said.                                 *)
(*                                                                          *)
(* One conversation is modelled.  LINE is external: it honours a reply      *)
(* token once, answers 409 to a retry key it has accepted, and forgets the  *)
(* key after a day.  Every awaited call of deliver is one action; between   *)
(* two of them another worker, the administrator, the customer or the clock *)
(* may step, and the worker may stop.                                       *)
(***************************************************************************)
EXTENDS Integers

CONSTANTS
  Deliveries,      \* outgoing messages
  AdminDeliveries, \* those an administrator wrote; the others are answers
  Included,        \* answers whose contextPolicy is INCLUDE
  Callers,         \* request and queue handlers that call deliver
  Sweeper,         \* the process's recovery loop
  Nobody,          \* no lease owner
  MaxAttempts,     \* attempts after which a push is given up
  MaxFaults,       \* bound: stops, slow workers and local errors of a behaviour
  MaxMessages,     \* bound: customer messages that change the preview
  MaxResumes,      \* bound: resumeBot requests
  KeyDays          \* bound: days that pass after a first push, 0 or 1

Workers == Callers \cup {Sweeper}

ASSUME SetsAssumption ==
  /\ Deliveries # {} /\ AdminDeliveries \subseteq Deliveries
  /\ Included \subseteq Deliveries \ AdminDeliveries
  /\ Nobody \notin Workers
ASSUME BoundsAssumption ==
  /\ MaxAttempts \in Nat /\ MaxFaults \in Nat /\ MaxMessages \in Nat
  /\ MaxResumes \in Nat /\ KeyDays \in {0, 1}

VARIABLES
  row,        \* lineDelivery rows
  live,       \* answers whose replyUntil has not passed
  worker,     \* deliver's locals
  usedTokens, \* LINE: reply tokens spent
  keys,       \* LINE: retry keys it remembers having accepted
  shown,      \* LINE: how often each message reached the customer
  muted,      \* the customer's mute key in Redis
  status,     \* lineConversation.status
  preview,    \* lineConversation.lastMessageAt
  history,    \* deliveries with a lineChatHistory row
  context,    \* answers in the chat context
  resume,     \* how far a resumeBot request has got
  clock,      \* time, as far as messages are dated
  inbox,      \* customer messages saved so far
  resumes,    \* resumeBot requests so far
  faults      \* faults so far

lineVars   == <<usedTokens, keys, shown>>
gateVars   == <<muted, status>>
logVars    == <<preview, history, context>>
resumeVars == <<resume, resumes>>
timeVars   == <<clock, inbox>>
roomVars   == <<gateVars, logVars, resumeVars, timeVars>>
vars == <<row, live, worker, lineVars, roomVars, faults>>

RowStatus == {"NONE", "PENDING", "SENDING", "ACCEPTED", "FAILED", "UNKNOWN"}
PC == {"idle", "claim", "check", "reply", "toPush", "mute", "push", "accept",
       "drop", "fail", "history", "append", "mark"}

NoRow == [status |-> "NONE", method |-> "REPLY", owner |-> Nobody, lapsed |-> FALSE,
          attempts |-> 0, due |-> TRUE, age |-> "none", at |-> 0, done |-> FALSE]
Idle == [pc |-> "idle", id |-> CHOOSE id \in Deliveries : TRUE, seen |-> "other",
         token |-> FALSE, pushing |-> FALSE, err |-> "none", quiet |-> FALSE]

Init ==
  /\ row = [id \in Deliveries |-> NoRow]
  /\ live = {}
  /\ worker = [w \in Workers |-> Idle]
  /\ usedTokens = {} /\ keys = {} /\ shown = [id \in Deliveries |-> 0]
  /\ muted = FALSE /\ status = "open" /\ preview = 0
  /\ history = {} /\ context = {} /\ resume = "none"
  /\ clock = 0 /\ inbox = 0 /\ resumes = 0 /\ faults = 0

Exists(id) == row[id].status # "NONE"
At(w, pc)  == worker[w].pc = pc
Id(w)      == worker[w].id
Goto(w, pc) == worker' = [worker EXCEPT ![w].pc = pc]
Done(w)    == worker' = [worker EXCEPT ![w] = Idle]
TryPush(w) == worker' = [worker EXCEPT ![w].pc = "toPush", ![w].pushing = TRUE]
Drop(w, err)  == worker' = [worker EXCEPT ![w].pc = "drop", ![w].err = err]
Throw(w, err) == worker' = [worker EXCEPT ![w].pc = "fail", ![w].err = err]
Fault      == faults < MaxFaults /\ faults' = faults + 1

\* The fence of every write of an attempt: the row is still this worker's.
Owns(w) == row[Id(w)].status = "SENDING" /\ row[Id(w)].owner = w

-----------------------------------------------------------------------------
(* Rows are created: an answer by saveReply, an admin's message on request. *)

\* fresh: the event is younger than LINE_EVENT_MAX_AGE_MS, so its token may be used.
SaveReply(id, fresh) ==
  /\ id \notin AdminDeliveries /\ ~Exists(id)
  /\ row' = [row EXCEPT ![id].status = "PENDING"]
  /\ live' = IF fresh THEN live \cup {id} ELSE live
  /\ UNCHANGED <<worker, lineVars, roomVars, faults>>

SendAdminMessage(id) ==
  /\ id \in AdminDeliveries /\ ~Exists(id)
  /\ row' = [row EXCEPT ![id].status = "PENDING", ![id].method = "PUSH"]
  /\ UNCHANGED <<live, worker, lineVars, roomVars, faults>>

-----------------------------------------------------------------------------
(* deliver.                                                                 *)

\* The first read: an accepted row is only finalized.
Begin(w, id) ==
  /\ At(w, "idle") /\ Exists(id)
  /\ worker' = [worker EXCEPT ![w] = [Idle EXCEPT
       !.id = id,
       !.pc = IF row[id].status = "ACCEPTED" THEN "history" ELSE "claim",
       !.seen = CASE row[id].status = "PENDING" -> "pending"
                  [] row[id].status = "SENDING" -> row[id].method
                  [] OTHER -> "other"]]
  /\ UNCHANGED <<row, live, lineVars, roomVars, faults>>

\* The creator of the row, or a retried webhook or request that finds it.
Deliver(w, id) == w \in Callers /\ Begin(w, id)

\* (Mutant) recover forgets the sends that were interrupted.
RecoverableIgnoringSending(id) ==
  \/ row[id].status = "PENDING" /\ row[id].due
  \/ row[id].status = "ACCEPTED" /\ ~row[id].done

Recoverable(id) ==
  \/ row[id].status = "PENDING" /\ row[id].due
  \/ row[id].status = "SENDING" /\ row[id].lapsed
  \/ row[id].status = "ACCEPTED" /\ ~row[id].done

Recover(id) == Recoverable(id) /\ Begin(Sweeper, id)

Claimable(id) ==
  \/ row[id].status = "PENDING" /\ row[id].due
  \/ row[id].status = "SENDING" /\ row[id].lapsed

ClaimLost(w) ==
  /\ At(w, "claim") /\ ~Claimable(Id(w))
  /\ Done(w)
  /\ UNCHANGED <<row, live, lineVars, roomVars, faults>>

\* A send that was interrupted while replying may have been accepted.
AfterClaim(w) == IF worker[w].seen = "REPLY" THEN [pc |-> "fail", err |-> "unknown"]
                                             ELSE [pc |-> "check", err |-> "none"]

\* quiet (history variable): the customer has been muted ever since this claim.
Claim(w) ==
  LET id == Id(w) IN
  /\ At(w, "claim") /\ Claimable(id)
  /\ row' = [row EXCEPT ![id].status = "SENDING", ![id].owner = w, ![id].lapsed = FALSE,
                        ![id].attempts = @ + 1]
  /\ worker' = [worker EXCEPT ![w].pc = AfterClaim(w).pc, ![w].err = AfterClaim(w).err,
                  ![w].token = row[id].method = "REPLY" /\ id \in live,
                  ![w].pushing = row[id].method = "PUSH", ![w].quiet = muted]
  /\ UNCHANGED <<live, lineVars, roomVars, faults>>

\* (Mutant) the answer is not suppressed here.
SuppressedNever(w) == FALSE

\* An answer queued before an administrator took over is dropped.
Suppressed(w) == Id(w) \notin AdminDeliveries /\ muted

Check(w) ==
  /\ At(w, "check")
  /\ \/ Suppressed(w) /\ Drop(w, "reject")
     \/ ~Suppressed(w) /\ worker[w].token /\ Goto(w, "reply")
     \/ ~Suppressed(w) /\ ~worker[w].token /\ TryPush(w)
  /\ UNCHANGED <<row, live, lineVars, roomVars, faults>>

\* LINE takes the reply and the answer comes back.
ReplyAccepted(w) ==
  /\ At(w, "reply") /\ Id(w) \notin usedTokens
  /\ usedTokens' = usedTokens \cup {Id(w)}
  /\ shown' = [shown EXCEPT ![Id(w)] = @ + 1]
  /\ Goto(w, "accept")
  /\ UNCHANGED <<row, live, keys, roomVars, faults>>

\* Our own rate limit, or LINE saying that the token is invalid: fall back to a push.
ReplyFallsBack(w) ==
  /\ At(w, "reply")
  /\ TryPush(w)
  /\ UNCHANGED <<row, live, lineVars, roomVars, faults>>

\* No access token, or any other 4xx.
ReplyRejected(w) ==
  /\ At(w, "reply")
  /\ Throw(w, "reject")
  /\ UNCHANGED <<row, live, lineVars, roomVars, faults>>

\* A timeout or a 5xx; the reply may have gone out.
ReplyUnanswered(w) ==
  /\ At(w, "reply")
  /\ \/ /\ Id(w) \notin usedTokens
        /\ usedTokens' = usedTokens \cup {Id(w)}
        /\ shown' = [shown EXCEPT ![Id(w)] = @ + 1]
     \/ UNCHANGED <<usedTokens, shown>>
  /\ Throw(w, "unknown")
  /\ UNCHANGED <<row, live, keys, roomVars, faults>>

\* The row becomes a push, unless its retry key is about to be forgotten.
SwitchToPush(w) ==
  LET id == Id(w) IN
  /\ At(w, "toPush")
  /\ \/ row[id].age \notin {"none", "fresh"} /\ Drop(w, "unknown") /\ UNCHANGED row
     \/ /\ row[id].age \in {"none", "fresh"} /\ Owns(w)
        /\ row' = [row EXCEPT ![id].method = "PUSH", ![id].age = "fresh"]
        /\ Goto(w, "mute")
     \/ row[id].age \in {"none", "fresh"} /\ ~Owns(w) /\ Done(w) /\ UNCHANGED row
  /\ UNCHANGED <<live, lineVars, roomVars, faults>>

\* (Mutant) the conversation leaves the queue before anything was sent.
MuteAndOpen(w) ==
  /\ At(w, "mute") /\ Id(w) \in AdminDeliveries
  /\ muted' = TRUE /\ status' = "open"
  /\ Goto(w, "push")
  /\ UNCHANGED <<row, live, lineVars, logVars, resumeVars, timeVars, faults>>

\* An administrator's message silences the bot before it is sent.
Mute(w) ==
  /\ At(w, "mute") /\ Id(w) \in AdminDeliveries
  /\ muted' = TRUE
  /\ Goto(w, "push")
  /\ UNCHANGED <<row, live, lineVars, status, logVars, resumeVars, timeVars, faults>>

\* An answer looks at the mute again before it is pushed.
CheckAgain(w) ==
  /\ At(w, "mute") /\ Id(w) \notin AdminDeliveries
  /\ \/ muted /\ Drop(w, "reject")
     \/ ~muted /\ Goto(w, "push")
  /\ UNCHANGED <<row, live, lineVars, roomVars, faults>>

\* LINE shows a message once per retry key it remembers.
TakePush(id) ==
  /\ keys' = keys \cup {id}
  /\ shown' = IF id \in keys THEN shown ELSE [shown EXCEPT ![id] = @ + 1]
  /\ UNCHANGED usedTokens

\* LINE takes the push, or answers 409 because it already has.
PushAccepted(w) ==
  /\ At(w, "push")
  /\ TakePush(Id(w))
  /\ Goto(w, "accept")
  /\ UNCHANGED <<row, live, roomVars, faults>>

\* Any other 4xx.
PushRejected(w) ==
  /\ At(w, "push")
  /\ Throw(w, "reject")
  /\ UNCHANGED <<row, live, lineVars, roomVars, faults>>

\* A timeout, a 5xx or no access token: the push may or may not have gone out.
PushUnanswered(w) ==
  /\ At(w, "push")
  /\ TakePush(Id(w)) \/ UNCHANGED lineVars
  /\ Throw(w, "retry")
  /\ UNCHANGED <<row, live, roomVars, faults>>

MarkAccepted(id) ==
  row' = [row EXCEPT ![id].status = "ACCEPTED", ![id].owner = Nobody, ![id].lapsed = FALSE,
                     ![id].at = clock + 1]

\* The transaction of accept: the row, and for an administrator's message the
\* conversation, which leaves the queue of those waiting for one.
AcceptWrites(w) ==
  LET id == Id(w) IN
  /\ MarkAccepted(id)
  /\ status' = IF id \in AdminDeliveries THEN "open" ELSE status
  /\ clock' = clock + 1
  /\ UNCHANGED <<live, lineVars, muted, logVars, resumeVars, inbox>>

Accept(w) ==
  /\ At(w, "accept") /\ Owns(w)
  /\ AcceptWrites(w)
  /\ Goto(w, "history")
  /\ UNCHANGED faults

AcceptLost(w) ==
  /\ At(w, "accept") /\ ~Owns(w)
  /\ Done(w)
  /\ UNCHANGED <<row, live, lineVars, roomVars, faults>>

\* accept is inside deliver's try: what it throws is handled as a failed send.
ThrowLocal(w) == Throw(w, IF worker[w].pushing THEN "retry" ELSE "unknown")

AcceptUnacknowledged(w) ==
  /\ At(w, "accept") /\ Owns(w) /\ Fault
  /\ AcceptWrites(w)
  /\ ThrowLocal(w)

\* Redis or the database fails during an attempt.
LocalError(w) ==
  /\ worker[w].pc \in {"check", "toPush", "mute", "accept", "drop"} /\ Fault
  /\ ThrowLocal(w)
  /\ UNCHANGED <<row, live, lineVars, roomVars>>

\* (Mutant) the attempt that failed last decides, whoever holds the row.
FencedNever(w) == row[Id(w)].status # "NONE"
Fenced(w) == Owns(w)

MayRetry(w) == worker[w].err = "retry" /\ row[Id(w)].attempts < MaxAttempts

NextStatus(w) == IF MayRetry(w) THEN "PENDING"
              ELSE IF worker[w].err = "reject" THEN "FAILED" ELSE "UNKNOWN"

\* finishAttempt of the catch branch and of the early exits.
FinishAttempt(w) ==
  LET id == Id(w) IN
  /\ worker[w].pc \in {"drop", "fail"}
  /\ row' = IF Fenced(w)
            THEN [row EXCEPT ![id].status = NextStatus(w), ![id].owner = Nobody,
                    ![id].lapsed = FALSE, ![id].due = FALSE,
                    ![id].method = IF worker[w].err = "retry" THEN "PUSH" ELSE @]
            ELSE row
  /\ Done(w)
  /\ UNCHANGED <<live, lineVars, roomVars, faults>>

-----------------------------------------------------------------------------
(* finalize.                                                                *)

\* A repair leaves a newer preview alone.
ShownPreview(id) == IF preview <= row[id].at THEN row[id].at ELSE preview

SaveHistory(w) ==
  LET id == Id(w) IN
  /\ At(w, "history")
  /\ history' = history \cup {id}
  /\ preview' = ShownPreview(id)
  /\ Goto(w, IF id \in Included THEN "append" ELSE "mark")
  /\ UNCHANGED <<row, live, lineVars, gateVars, context, resumeVars, timeVars, faults>>

\* appendTurn swallows its errors.
AppendTurn(w) ==
  /\ At(w, "append")
  /\ context' \in {context, context \cup {Id(w)}}
  /\ Goto(w, "mark")
  /\ UNCHANGED <<row, live, lineVars, gateVars, preview, history, resumeVars, timeVars, faults>>

MarkFinalized(w) ==
  /\ At(w, "mark")
  /\ row' = [row EXCEPT ![Id(w)].done = TRUE]
  /\ Done(w)
  /\ UNCHANGED <<live, lineVars, roomVars, faults>>

\* The process stops, or an error leaves deliver.
Abandon(w) ==
  /\ ~At(w, "idle") /\ Fault
  /\ Done(w)
  /\ UNCHANGED <<row, live, lineVars, roomVars>>

-----------------------------------------------------------------------------
(* Time.                                                                    *)

\* A worker sends its claim within a lease of reading the row.
ReadIsRecent(id) == \A w \in Workers :
  At(w, "claim") /\ Id(w) = id => worker[w].seen # "pending"
Working(id) == \E w \in Workers :
  row[id].owner = w /\ Id(w) = id /\ worker[w].pc \notin {"idle", "claim"}

\* Two minutes after the claim; a reply token lives less than one.  That the
\* worker is still at it is a fault: all its calls have shorter timeouts.
LeaseLapses(id) ==
  /\ row[id].status = "SENDING" /\ ~row[id].lapsed /\ ReadIsRecent(id)
  /\ row' = [row EXCEPT ![id].lapsed = TRUE]
  /\ live' = live \ {id}
  /\ IF Working(id) THEN Fault ELSE UNCHANGED faults
  /\ UNCHANGED <<worker, lineVars, roomVars>>

BecomesDue(id) ==
  /\ row[id].status = "PENDING" /\ ~row[id].due
  /\ row' = [row EXCEPT ![id].due = TRUE]
  /\ UNCHANGED <<live, worker, lineVars, roomVars, faults>>

TokenExpires(id) ==
  /\ id \in live
  /\ live' = live \ {id}
  /\ UNCHANGED <<row, worker, lineVars, roomVars, faults>>

\* 23 hours after the first push the row is not pushed again; 24 hours after,
\* LINE forgets the key.  Nobody takes an hour between the check and the push.
KeyNearsExpiry(id) ==
  /\ row[id].age = "fresh" /\ KeyDays = 1
  /\ row' = [row EXCEPT ![id].age = "old"]
  /\ UNCHANGED <<live, worker, lineVars, roomVars, faults>>

KeyForgotten(id) ==
  /\ row[id].age = "old"
  /\ \A w \in Workers : Id(w) = id => worker[w].pc \notin {"mute", "push"}
  /\ row' = [row EXCEPT ![id].age = "gone"]
  /\ keys' = keys \ {id}
  /\ UNCHANGED <<live, worker, usedTokens, shown, roomVars, faults>>

\* The mute ends, by its TTL or by resumeBot.
Unmute ==
  /\ muted' = FALSE
  /\ worker' = [w \in Workers |-> [worker[w] EXCEPT !.quiet = FALSE]]

MuteExpires ==
  /\ muted /\ Unmute
  /\ UNCHANGED <<row, live, lineVars, status, logVars, resumeVars, timeVars, faults>>

-----------------------------------------------------------------------------
(* The conversation.                                                        *)

RequestAdmin ==
  /\ status = "open"
  /\ status' = "waiting_admin"
  /\ UNCHANGED <<row, live, worker, lineVars, muted, logVars, resumeVars, timeVars, faults>>

\* resumeBot: three calls one after the other, each of which may be the last.
ResumeUnmutes ==
  /\ resume = "none" /\ resumes < MaxResumes /\ Unmute
  /\ resume' = "open" /\ resumes' = resumes + 1
  /\ UNCHANGED <<row, live, lineVars, status, logVars, timeVars, faults>>
ResumeOpens ==
  /\ resume = "open"
  /\ status' = "open"
  /\ resume' = "clear"
  /\ UNCHANGED <<row, live, worker, lineVars, muted, logVars, resumes, timeVars, faults>>
ResumeClears ==
  /\ resume = "clear"
  /\ context' = {}
  /\ resume' = "none"
  /\ UNCHANGED <<row, live, worker, lineVars, gateVars, preview, history, resumes, timeVars,
                 faults>>
ResumeFails ==
  /\ resume # "none" /\ Fault
  /\ resume' = "none"
  /\ UNCHANGED <<row, live, worker, lineVars, gateVars, logVars, resumes, timeVars>>

\* saveIncomingEvent dates the preview by the event, however late it comes.
CustomerMessage(t) ==
  /\ inbox < MaxMessages
  /\ inbox' = inbox + 1
  /\ preview' = t
  /\ clock' = IF t > clock THEN t ELSE clock
  /\ UNCHANGED <<row, live, worker, lineVars, gateVars, history, context, resumeVars, faults>>

-----------------------------------------------------------------------------
Attempt(w) ==
  \/ ClaimLost(w) \/ Claim(w) \/ Check(w)
  \/ ReplyAccepted(w) \/ ReplyFallsBack(w) \/ ReplyRejected(w) \/ ReplyUnanswered(w)
  \/ SwitchToPush(w) \/ Mute(w) \/ CheckAgain(w)
  \/ PushAccepted(w) \/ PushRejected(w) \/ PushUnanswered(w)
  \/ Accept(w) \/ AcceptLost(w) \/ AcceptUnacknowledged(w) \/ LocalError(w)
  \/ FinishAttempt(w)
  \/ SaveHistory(w) \/ AppendTurn(w) \/ MarkFinalized(w)

Time(id) == \/ LeaseLapses(id) \/ BecomesDue(id) \/ TokenExpires(id)
            \/ KeyNearsExpiry(id) \/ KeyForgotten(id)

Next ==
  \/ \E id \in Deliveries, fresh \in BOOLEAN : SaveReply(id, fresh)
  \/ \E id \in Deliveries : SendAdminMessage(id) \/ Recover(id) \/ Time(id)
  \/ \E w \in Workers, id \in Deliveries : Deliver(w, id)
  \/ \E w \in Workers : Attempt(w) \/ Abandon(w)
  \/ MuteExpires \/ RequestAdmin
  \/ ResumeUnmutes \/ ResumeOpens \/ ResumeClears \/ ResumeFails
  \/ \E t \in 0..clock + 1 : CustomerMessage(t)

Spec == Init /\ [][Next]_vars

\* Calls return (each has a timeout), the recovery timer fires, and time passes.
Fairness ==
  /\ \A w \in Workers : WF_vars(Attempt(w))
  /\ \A id \in Deliveries :
       WF_vars(Recover(id)) /\ WF_vars(LeaseLapses(id)) /\ WF_vars(BecomesDue(id))

FairSpec == Spec /\ Fairness

-----------------------------------------------------------------------------
(* Properties.                                                              *)

\* Rows, locals and counters have their types.
TypeOK ==
  /\ row \in [Deliveries -> [status : RowStatus, method : {"REPLY", "PUSH"},
                owner : Workers \cup {Nobody}, lapsed : BOOLEAN,
                attempts : Nat, due : BOOLEAN,
                age : {"none", "fresh", "old", "gone"}, at : Nat, done : BOOLEAN]]
  /\ worker \in [Workers -> [pc : PC, id : Deliveries,
                   seen : {"pending", "REPLY", "PUSH", "other"}, token : BOOLEAN,
                   pushing : BOOLEAN, err : {"none", "reject", "unknown", "retry"},
                   quiet : BOOLEAN]]
  /\ live \subseteq Deliveries /\ usedTokens \subseteq Deliveries /\ keys \subseteq Deliveries
  /\ shown \in [Deliveries -> Nat]
  /\ history \subseteq Deliveries /\ context \subseteq Deliveries
  /\ muted \in BOOLEAN /\ status \in {"open", "waiting_admin"}
  /\ resume \in {"none", "open", "clear"}
  /\ preview \in Nat /\ clock \in Nat
  /\ inbox \in 0..MaxMessages /\ resumes \in 0..MaxResumes /\ faults \in 0..MaxFaults

Outcome(id) == IF row[id].status \in {"ACCEPTED", "FAILED", "UNKNOWN"}
               THEN row[id].status ELSE "open"
Outbox == INSTANCE MessageOutbox WITH Messages <- Deliveries,
                                      outcome <- [id \in Deliveries |-> Outcome(id)]

\* deliver implements the outbox: the customer sees a message at most once, however
\* often it is interrupted, retried or claimed again (an interrupted reply is not
\* tried by any method, every push of a row carries the same retry key), and its
\* outcome is told once, ACCEPTED only of a shown message.  A worker whose lease
\* lapsed, or whose accept committed without an answer, changes nothing when it
\* comes back (deliver, accept, finishAttempt's fence).
OutboxSpec == Outbox!Spec

\* An answer claimed after an administrator silenced the bot is not sent while
\* the mute lasts, by reply or by push (deliver's two checks).
MutedAnswersStayUnsent == \A w \in Workers :
  worker[w].pc \in {"reply", "push"} /\ Id(w) \notin AdminDeliveries => ~worker[w].quiet

\* A conversation leaves the queue of those waiting for an administrator only by
\* resumeBot or in the step that records an administrator's message the customer
\* has been shown (accept).
OnlyAnswersLeaveQueue == [][
  status = "waiting_admin" /\ status' = "open" =>
    \/ resume = "open"
    \/ \E id \in AdminDeliveries : /\ row[id].status = "SENDING"
                                   /\ row'[id].status = "ACCEPTED"
                                   /\ shown[id] = 1]_vars

Ended(id) == \/ row[id].status \in {"FAILED", "UNKNOWN"}
             \/ row[id].status = "ACCEPTED" /\ row[id].done

\* Every row comes to an end: its attempts run out, or it is accepted and its
\* history is repaired, through every stop of the worker that holds it (recover).
EveryDeliveryEnds == \A id \in Deliveries : Exists(id) ~> Ended(id)

=============================================================================
