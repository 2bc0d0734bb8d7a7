----------------------------- MODULE AppMessage -----------------------------
(***************************************************************************)
(* App messages: one guest's room, the HTTP requests that send messages     *)
(* into it (AppMessageService.send, MessageProcessorService.process,        *)
(* AppChannelAdapter), and the administrators who answer, pause and resume  *)
(* (AppInboxService), with the hourly purge.                                *)
(*                                                                          *)
(* A request makes one attempt.  The id of an inbound row is made by the    *)
(* attempt that inserts it, so that attempt stands for it: request r, when  *)
(* it finds no row for its client message, works under the id r, and a      *)
(* retry works under the id it found.  The id is also the owner of the room *)
(* lock and, as app:<id>, the turn of its AI calls: a call is billed under  *)
(* a key made of the turn and of everything in the request (the recent      *)
(* turns, the instructions, the retrieved knowledge), here its prompt.      *)
(***************************************************************************)
EXTENDS Integers, FiniteSets

CONSTANTS
  Requests,  \* attempts to send a message
  Messages,  \* client message ids
  Texts,     \* texts a message may have
  Prompts,   \* what a request to the model may be made of
  Nobody,    \* no lock holder, no id
  MaxFaults  \* bound: crashes, errors and slow turns of a behaviour

ASSUME SetsAssumption == 
  Nobody \notin Requests /\ Messages # {} /\ Texts # {} /\ Prompts # {}
ASSUME BoundsAssumption == MaxFaults \in Nat

VARIABLES
  turn,     \* activeTurnId of the room
  lapsed,   \* activeUntil has passed
  waiting,  \* the room is waiting_admin
  status,   \* inbound rows, per client message
  id,       \* their ids
  text,     \* their texts
  replies,  \* ids that have a reply row (replyToId is unique)
  context,  \* turns in the chat context
  held,     \* keys of AI calls reserved and not settled
  settled,  \* keys of AI calls billed
  mute,     \* the guest's mute key
  admin,    \* what the administrator is doing
  request,  \* what each attempt is doing
  overrun,  \* ids whose lock lapsed under a live attempt
  purged,   \* messages deleted by the purge
  faults    \* faults so far
\* overrun, purged and faults only record history.

roomVars  == <<turn, lapsed>>
rowVars   == <<status, id, text, replies>>
aiVars    == <<held, settled>>
adminVars == <<mute, admin>>
ghostVars == <<overrun, purged>>
vars == <<roomVars, waiting, rowVars, context, aiVars, adminVars, request,
          ghostVars, faults>>

Final     == {"ANSWERED", "NO_REPLY"}
Answers   == {"text", "silent", "clear"}
TurnPC    == {"insert", "winner", "delivery", "respond", "calling", "policy", "muted", "save",
              "deliver", "report", "release"}
PC        == {"idle", "find", "lock", "result", "end"} \cup TurnPC

NewRequest == [pc |-> "idle", message |-> CHOOSE m \in Messages : TRUE,
               text |-> CHOOSE t \in Texts : TRUE, id |-> Nobody,
               prompt |-> CHOOSE q \in Prompts : TRUE, answer |-> "silent",
               muted |-> FALSE, out |-> "none", told |-> Nobody]

Init ==
  /\ turn = Nobody /\ lapsed = TRUE /\ waiting = FALSE
  /\ status = [m \in Messages |-> "NONE"]
  /\ id = [m \in Messages |-> Nobody]
  /\ text \in [Messages -> {CHOOSE t \in Texts : TRUE}]
  /\ replies = {} /\ context = {} /\ held = {} /\ settled = {}
  /\ mute = "none" /\ admin = "idle"
  /\ request = [r \in Requests |-> NewRequest]
  /\ overrun = {} /\ purged = {} /\ faults = 0

At(r, pc)   == request[r].pc = pc
Message(r)  == request[r].message
Id(r)       == request[r].id
InTurn(r)   == request[r].pc \in TurnPC
Muted       == mute \in {"ADMIN", "PAUSE"}
Fault       == faults < MaxFaults /\ faults' = faults + 1
Goto(r, pc) == request' = [request EXCEPT ![r].pc = pc]
\* The attempt is over; what it remembers no longer matters, but for what it was told.
End(r, i, out) ==
  request' = [request EXCEPT ![r] = [NewRequest EXCEPT !.pc = "end", !.message = Message(r),
                                       !.text = request[r].text, !.told = i, !.out = out]]
Refuse(r)   == End(r, Nobody, "refused")
\* result: the caller is told how message i stands.
Tell(r, i, pc) ==
  request' = [request EXCEPT ![r].pc = pc, ![r].told = i, ![r].out = status[Message(r)]]
Throw(r)    == request' = [request EXCEPT ![r].pc = "release", ![r].out = "refused",
                                          ![r].prompt = NewRequest.prompt]

-----------------------------------------------------------------------------
(* send, up to the lock.                                                    *)

\* The abuse checks let a message through; the room exists or is created.
Send(r, m, t) ==
  /\ At(r, "idle")
  /\ request' = [request EXCEPT ![r] = [NewRequest EXCEPT !.pc = "find", !.message = m, !.text = t]]
  /\ UNCHANGED <<roomVars, waiting, rowVars, context, aiVars, adminVars, ghostVars, faults>>

Finished(m) == status[m] \in Final

Find(r) ==
  LET m == Message(r) IN
  /\ At(r, "find")
  /\ \/ status[m] = "NONE"
        /\ request' = [request EXCEPT ![r].pc = "lock", ![r].id = r]
     \/ status[m] # "NONE" /\ text[m] # request[r].text  \* the id was used for another text
        /\ Refuse(r)
     \/ status[m] # "NONE" /\ text[m] = request[r].text
        /\ request' = [request EXCEPT ![r].pc = IF Finished(m) THEN "result" ELSE "lock",
                                      ![r].id = id[m]]
  /\ UNCHANGED <<roomVars, waiting, rowVars, context, aiVars, adminVars, ghostVars, faults>>

\* (Mutant) a message that is being answered may be taken over by its retry.
RoomFreeFor(r) == turn \in {Nobody, Id(r)} \/ lapsed

RoomFree(r) == turn = Nobody \/ lapsed

Lock(r) ==
  /\ At(r, "lock") /\ RoomFree(r)
  /\ turn' = Id(r) /\ lapsed' = FALSE
  /\ request' = [request EXCEPT ![r].pc = IF Id(r) = r THEN "insert" ELSE "delivery"]
  /\ UNCHANGED <<waiting, rowVars, context, aiVars, adminVars, ghostVars, faults>>

Busy(r) ==
  /\ At(r, "lock") /\ ~RoomFree(r)
  /\ Refuse(r)
  /\ UNCHANGED <<roomVars, waiting, rowVars, context, aiVars, adminVars, ghostVars, faults>>

-----------------------------------------------------------------------------
(* The turn: send inside the lock, and MessageProcessorService.process.     *)

\* (Mutant) no unique index over room and client message id.
UniqueNever(m) == TRUE

Unique(m) == status[m] = "NONE"

Insert(r) ==
  LET m == Message(r) IN
  /\ At(r, "insert")
  /\ IF Unique(m)
       THEN /\ status' = [status EXCEPT ![m] = "PROCESSING"]
            /\ id' = [id EXCEPT ![m] = r]
            /\ text' = [text EXCEPT ![m] = request[r].text]
            /\ Goto(r, "delivery")
       ELSE Goto(r, "winner") /\ UNCHANGED <<status, id, text>>
  /\ UNCHANGED <<roomVars, waiting, replies, context, aiVars, adminVars, ghostVars, faults>>

\* An identical request finished between the read and the lock: its result, or 409.
Winner(r) ==
  LET m == Message(r) IN
  /\ At(r, "winner")
  /\ IF status[m] # "NONE" /\ text[m] = request[r].text /\ Finished(m)
       THEN Tell(r, id[m], "release")
       ELSE Throw(r)
  /\ UNCHANGED <<roomVars, waiting, rowVars, context, aiVars, adminVars, ghostVars, faults>>

\* (Mutant) the reply of an earlier attempt is not looked for.
NextAfterFindAlwaysAsk(r) == "respond"

\* A reply that is stored already is delivered, not asked for again.
NextAfterFind(r) == IF Id(r) \in replies THEN "deliver" ELSE "respond"

FindDelivery(r) ==
  /\ At(r, "delivery")
  /\ Goto(r, NextAfterFind(r))
  /\ UNCHANGED <<roomVars, waiting, rowVars, context, aiVars, adminVars, ghostVars, faults>>

\* The chatbot may hand the guest over to an administrator while it answers.
RequestAdmin(r) ==
  /\ At(r, "respond") /\ ~waiting
  /\ waiting' = TRUE
  /\ UNCHANGED <<roomVars, rowVars, context, aiVars, adminVars, request, ghostVars, faults>>

\* What the request was made of is no longer read.
Respond(r, answer) ==
  request' = [request EXCEPT ![r].pc = "policy", ![r].answer = answer,
                             ![r].prompt = NewRequest.prompt]

RespondWithoutAI(r, answer) ==
  /\ At(r, "respond")
  /\ Respond(r, answer)
  /\ UNCHANGED <<roomVars, waiting, rowVars, context, aiVars, adminVars, ghostVars, faults>>

\* The request to the model is made of what is there now (q), which may have changed since an
\* earlier attempt.  The same call was billed by that attempt: its answer is used again ...
ReplayAnswer(r, q) ==
  /\ At(r, "respond") /\ <<Id(r), q>> \in settled
  /\ Respond(r, "text")
  /\ UNCHANGED <<roomVars, waiting, rowVars, context, aiVars, adminVars, ghostVars, faults>>

\* ... or it is reserved by an attempt that runs or crashed ...
AnswerPending(r, q) ==
  /\ At(r, "respond") /\ <<Id(r), q>> \in held
  /\ Throw(r)
  /\ UNCHANGED <<roomVars, waiting, rowVars, context, aiVars, adminVars, ghostVars, faults>>

\* ... or it is a new call.
ReserveCall(r, q) ==
  /\ At(r, "respond") /\ <<Id(r), q>> \notin held \cup settled
  /\ held' = held \cup {<<Id(r), q>>}
  /\ request' = [request EXCEPT ![r].pc = "calling", ![r].prompt = q]
  /\ UNCHANGED <<roomVars, waiting, rowVars, context, settled, adminVars, ghostVars, faults>>

Key(r) == <<Id(r), request[r].prompt>>

HeldAfter(r) == held \ {Key(r)}

SettleCall(r) ==
  /\ At(r, "calling")
  /\ held' = HeldAfter(r) /\ settled' = settled \cup {Key(r)}
  /\ Respond(r, "text")
  /\ UNCHANGED <<roomVars, waiting, rowVars, context, adminVars, ghostVars, faults>>

\* A failed call ends in the fallback message and a hand-over, or, where its error is not
\* caught, in the failure of the turn.
CallFallsBack(r) ==
  /\ At(r, "calling")
  /\ held' = held \ {Key(r)} /\ waiting' = TRUE
  /\ Respond(r, "clear")
  /\ UNCHANGED <<roomVars, rowVars, context, settled, adminVars, ghostVars, faults>>

CallFails(r) ==
  /\ At(r, "calling")
  /\ held' = held \ {Key(r)}
  /\ Throw(r)
  /\ UNCHANGED <<roomVars, waiting, rowVars, context, settled, adminVars, ghostVars, faults>>

\* An answer of policy CLEAR empties the context before it is stored.
ApplyPolicy(r) ==
  /\ At(r, "policy")
  /\ context' = IF request[r].answer = "clear" THEN {} ELSE context
  /\ Goto(r, "muted")
  /\ UNCHANGED <<roomVars, waiting, rowVars, aiVars, adminVars, ghostVars, faults>>

Suppressed == Muted

\* saveReply reads the mute flag before its transaction ...
ReadMute(r) ==
  /\ At(r, "muted")
  /\ request' = [request EXCEPT ![r].pc = "save", ![r].muted = Suppressed]
  /\ UNCHANGED <<roomVars, waiting, rowVars, context, aiVars, adminVars, ghostVars, faults>>

Silent(r) == request[r].muted \/ request[r].answer = "silent"

Closed(r) == IF Silent(r) THEN "NO_REPLY" ELSE "ANSWERED"

\* ... which takes the lock again if this turn still has it, and stores.
CanSave(r) ==
  LET m == Message(r) IN
  /\ turn = Id(r)
  /\ status[m] # "NONE" /\ id[m] = Id(r)
  /\ Silent(r) \/ Id(r) \notin replies

SaveReply(r) ==
  /\ At(r, "save") /\ CanSave(r)
  /\ lapsed' = FALSE
  /\ status' = [status EXCEPT ![Message(r)] = Closed(r)]
  /\ replies' = IF Silent(r) THEN replies ELSE replies \cup {Id(r)}
  /\ Goto(r, IF Silent(r) THEN "report" ELSE "deliver")
  /\ UNCHANGED <<turn, waiting, id, text, context, aiVars, adminVars, ghostVars, faults>>

\* The lock or the row is gone, or another attempt stored the reply.
SaveReplyFails(r) ==
  /\ At(r, "save") /\ ~CanSave(r)
  /\ Throw(r)
  /\ UNCHANGED <<roomVars, waiting, rowVars, context, aiVars, adminVars, ghostVars, faults>>

\* deliver appends the turn to the context; an answer of policy CLEAR is not appended.
\* appendTurn never throws.
Deliver(r) ==
  /\ At(r, "deliver")
  /\ \/ context' = context \cup {Id(r)}
     \/ UNCHANGED context
  /\ Goto(r, "report")
  /\ UNCHANGED <<roomVars, waiting, rowVars, aiVars, adminVars, ghostVars, faults>>

\* finally frees the room only if this turn's id still holds it.
Holds(r) == turn = Id(r)

\* The result of a turn is read before the room is released; the row may be gone by then.
Report(r) ==
  LET m == Message(r) IN
  /\ At(r, "report")
  /\ IF id[m] = Id(r) /\ Finished(m) THEN Tell(r, Id(r), "release") ELSE Throw(r)
  /\ UNCHANGED <<roomVars, waiting, rowVars, context, aiVars, adminVars, ghostVars, faults>>

Release(r) ==
  /\ At(r, "release")
  /\ IF Holds(r) THEN turn' = Nobody /\ lapsed' = TRUE ELSE UNCHANGED roomVars
  /\ End(r, request[r].told, request[r].out)
  /\ UNCHANGED <<waiting, rowVars, context, aiVars, adminVars, ghostVars, faults>>

\* A retry of a finished message.
Repeat(r) ==
  LET m == Message(r) IN
  /\ At(r, "result")
  /\ IF id[m] = Id(r) /\ Finished(m) THEN End(r, Id(r), status[m]) ELSE Refuse(r)
  /\ UNCHANGED <<roomVars, waiting, rowVars, context, aiVars, adminVars, ghostVars, faults>>

-----------------------------------------------------------------------------
(* Failures and time.                                                       *)

LocalError(r) ==
  /\ Fault
  /\ \/ request[r].pc \in TurnPC \ {"release"} /\ Throw(r)
     \/ request[r].pc \in {"find", "lock", "result"} /\ Refuse(r)
  /\ UNCHANGED <<roomVars, waiting, rowVars, context, aiVars, adminVars, ghostVars>>

\* The process dies, or the release of the room fails.
Crash(r) ==
  /\ request[r].pc \notin {"idle", "end"} /\ Fault
  /\ Refuse(r)
  /\ UNCHANGED <<roomVars, waiting, rowVars, context, aiVars, adminVars, ghostVars>>

\* The 120 seconds of the lock pass.  They are meant to outlast a turn: if an attempt is
\* still in it, that is a fault.
LockLapses ==
  LET slow == {r \in Requests : InTurn(r) /\ Holds(r)} IN
  /\ turn # Nobody /\ ~lapsed
  /\ lapsed' = TRUE
  /\ IF slow = {} THEN UNCHANGED <<overrun, faults>>
                  ELSE overrun' = overrun \cup {turn} /\ Fault
  /\ UNCHANGED <<turn, waiting, rowVars, context, aiVars, adminVars, request, purged>>

\* A mute key expires: after 10 minutes that of a reply, after 7 days that of a pause.
MuteExpires ==
  /\ Muted /\ mute' = "none"
  /\ UNCHANGED <<roomVars, waiting, rowVars, context, aiVars, admin, request, ghostVars, faults>>

ContextExpires ==
  /\ context # {} /\ context' = {}
  /\ UNCHANGED <<roomVars, waiting, rowVars, aiVars, adminVars, request, ghostVars, faults>>

\* Inbound rows past the retention go, with their replies if those are as old.
PurgeMessage(m) ==
  /\ status[m] # "NONE" /\ ~InTurn(id[m])
  /\ status' = [status EXCEPT ![m] = "NONE"]
  /\ id' = [id EXCEPT ![m] = Nobody]
  /\ replies' \in {replies, replies \ {id[m]}}
  /\ purged' = purged \cup {m}
  /\ UNCHANGED <<roomVars, waiting, text, context, aiVars, adminVars, request, overrun, faults>>

-----------------------------------------------------------------------------
(* Administrators.                                                          *)

\* sendAdminMessage stores the message (once per clientRequestId) ...
SendAdminMessage ==
  /\ admin = "idle"
  /\ waiting' = FALSE
  /\ admin' = "mute"
  /\ UNCHANGED <<roomVars, rowVars, context, aiVars, mute, request, ghostVars, faults>>

\* ... and then mutes the bot, which may fail unnoticed.
MuteAfterReply ==
  /\ admin = "mute"
  /\ admin' = "idle"
  /\ mute' \in {"ADMIN", mute}
  /\ UNCHANGED <<roomVars, waiting, rowVars, context, aiVars, request, ghostVars, faults>>

PauseBot ==
  /\ admin = "idle"
  /\ mute' = "PAUSE"
  /\ UNCHANGED <<roomVars, waiting, rowVars, context, aiVars, admin, request, ghostVars, faults>>

\* resumeBot unmutes, opens the room and clears the context; it may fail in between.
ResumeUnmutes ==
  /\ admin = "idle"
  /\ mute' = "none" /\ admin' \in {"open", "idle"}
  /\ UNCHANGED <<roomVars, waiting, rowVars, context, aiVars, request, ghostVars, faults>>

ResumeOpens ==
  /\ admin = "open"
  /\ waiting' = FALSE
  /\ admin' \in {"clear", "idle"}
  /\ UNCHANGED <<roomVars, rowVars, context, aiVars, mute, request, ghostVars, faults>>

ResumeClears ==
  /\ admin = "clear"
  /\ context' \in {{}, context}
  /\ admin' = "idle"
  /\ UNCHANGED <<roomVars, waiting, rowVars, aiVars, mute, request, ghostVars, faults>>

-----------------------------------------------------------------------------
Request(r) ==
  \/ \E m \in Messages, t \in Texts : Send(r, m, t)
  \/ Find(r) \/ Lock(r) \/ Busy(r) \/ Insert(r) \/ Winner(r) \/ FindDelivery(r)
  \/ RequestAdmin(r) \/ \E a \in Answers : RespondWithoutAI(r, a)
  \/ \E q \in Prompts : ReplayAnswer(r, q) \/ AnswerPending(r, q) \/ ReserveCall(r, q)
  \/ SettleCall(r) \/ CallFallsBack(r)
  \/ CallFails(r)
  \/ ApplyPolicy(r) \/ ReadMute(r) \/ SaveReply(r) \/ SaveReplyFails(r) \/ Deliver(r)
  \/ Report(r) \/ Release(r) \/ Repeat(r) \/ LocalError(r) \/ Crash(r)

Environment ==
  \/ LockLapses \/ MuteExpires \/ ContextExpires \/ \E m \in Messages : PurgeMessage(m)
  \/ SendAdminMessage \/ MuteAfterReply \/ PauseBot
  \/ ResumeUnmutes \/ ResumeOpens \/ ResumeClears

Next == Environment \/ \E r \in Requests : Request(r)

Spec == Init /\ [][Next]_vars

-----------------------------------------------------------------------------
(* What must hold.                                                          *)

\* The rows, the lock and the locals of send and saveReply keep their types.
TypeOK ==
  /\ turn \in Requests \cup {Nobody} /\ lapsed \in BOOLEAN /\ waiting \in BOOLEAN
  /\ (turn = Nobody) => lapsed
  /\ status \in [Messages -> {"NONE", "PROCESSING"} \cup Final]
  /\ id \in [Messages -> Requests \cup {Nobody}]
  /\ text \in [Messages -> Texts]
  /\ replies \subseteq Requests /\ context \subseteq Requests
  /\ held \subseteq Requests \X Prompts /\ settled \subseteq Requests \X Prompts
  /\ held \cap settled = {}
  /\ mute \in {"none", "ADMIN", "PAUSE"} /\ admin \in {"idle", "mute", "open", "clear"}
  /\ request \in [Requests -> [pc : PC, message : Messages, text : Texts,
                               id : Requests \cup {Nobody}, prompt : Prompts,
                               answer : Answers, muted : BOOLEAN,
                               out : {"none", "refused"} \cup Final,
                               told : Requests \cup {Nobody}]]
  /\ overrun \subseteq Requests /\ purged \subseteq Messages /\ faults \in 0..MaxFaults

\* One turn per room at a time, across instances (the lock of send): while no attempt
\* outlasts its lock, no two are in a turn, whatever crashes, retries and releases.
OneTurnAtATime ==
  overrun = {} => \A r, s \in Requests : InTurn(r) /\ InTurn(s) => r = s

\* Sending a message again returns its answer (send, result): attempts that are told a
\* result of one message are told of the same row and text, and an answer that was told
\* stands, unless the row is purged or its attempts overlap.
AnswersStand ==
  \A r, s \in Requests :
    LET m == Message(r) IN
    m \notin purged /\ request[r].out \in Final =>
      /\ request[r].out = "ANSWERED" /\ request[r].told \notin overrun => status[m] = "ANSWERED"
      /\ request[s].out \in Final /\ Message(s) = m =>
           request[r].told = request[s].told /\ request[r].text = request[s].text

\* ... and the model is not called again for it, not even with another context than the one
\* the answer was made in: an AI call starts only for a row without an answer, unless its
\* attempts overlap.
NoCallAfterAnswer ==
  [][\A k \in held' \ held :
       \A m \in Messages : id[m] = k[1] => status[m] # "ANSWERED" \/ k[1] \in overrun]_vars

=============================================================================
