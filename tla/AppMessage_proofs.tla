-------------------------- MODULE AppMessage_proofs --------------------------
(* Machine-checked facts about AppMessage, for any number of messages, texts,  *)
(* attempts and faults.                                                        *)
EXTENDS AppMessage, TLAPS

Attempt == [pc : PC, message : Messages, text : Texts, id : Requests \cup {Nobody},
            prompt : Prompts, answer : Answers, muted : BOOLEAN, out : {"none", "refused"} \cup Final,
            told : Requests \cup {Nobody}]

\* The request to the model, whatever it is made of.
Replays(r)  == \E q \in Prompts : ReplayAnswer(r, q)
Pends(r)    == \E q \in Prompts : AnswerPending(r, q)
Reserves(r) == \E q \in Prompts : ReserveCall(r, q)

-----------------------------------------------------------------------------
(* The inductive invariant.                                                    *)

\* An attempt that may still insert a row under its own id.
Fresh(r) == \/ request[r].pc \in {"idle", "find"}
            \/ request[r].pc \in {"lock", "insert"} /\ Id(r) = r

\* A row belongs to the attempt that made it, and an answered one has its reply.
RowInv(m) ==
    /\ status[m] = "NONE" <=> id[m] = Nobody
    /\ id[m] \in Requests => Message(id[m]) = m /\ ~Fresh(id[m])
    /\ status[m] = "ANSWERED" => id[m] \in replies

\* From the lock on an attempt has an id: its own, or that of a row it found.
IdKnown(r) ==
    /\ request[r].pc \in {"lock", "result"} \cup TurnPC => Id(r) \in Requests
    /\ request[r].pc \in {"insert", "winner"} => Id(r) = r
Borrowed(r) == Id(r) \in Requests \ {r} => ~Fresh(Id(r)) /\ Message(Id(r)) = Message(r)
TextKept(r) == Id(r) \in Requests /\ id[Message(r)] = Id(r) => text[Message(r)] = request[r].text

\* An attempt in a turn has the lock, unless it outlasted it.
Holding(r) == InTurn(r) /\ Id(r) \notin overrun => turn = Id(r) /\ ~lapsed

\* While it works towards a reply, the message has none.
Unanswered(r) ==
    request[r].pc \in {"respond", "calling", "policy", "muted", "save"} /\ Id(r) \notin overrun =>
      Id(r) \notin replies

\* What an attempt was told of its message is how the message stands.
ToldStands(r) ==
    request[r].out \in Final /\ Message(r) \notin purged =>
      /\ request[r].told \in Requests /\ request[r].told = id[Message(r)]
      /\ text[Message(r)] = request[r].text
      /\ request[r].out = "ANSWERED" /\ request[r].told \notin overrun =>
           status[Message(r)] = "ANSWERED"

AttemptInv(r) == /\ IdKnown(r) /\ Borrowed(r) /\ TextKept(r) /\ Holding(r)
                 /\ Unanswered(r) /\ ToldStands(r)

\* Two attempts of one message are not in a turn together, unless one outlasted its lock.
Alone(r, s) == InTurn(r) /\ InTurn(s) /\ Id(r) = Id(s) /\ Id(r) \notin overrun => r = s

IInv == /\ TypeOK
        /\ \A m \in Messages : RowInv(m)
        /\ \A r \in Requests : AttemptInv(r)
        /\ \A r, s \in Requests : Alone(r, s)
-----------------------------------------------------------------------------
(* Types.                                                                      *)

LEMMA NewTypes == NewRequest \in Attempt
BY SetsAssumption DEF NewRequest, Attempt, PC, Answers, Final

\* What an attempt may do to its locals.
LEMMA AttemptTypes ==
  ASSUME request \in [Requests -> Attempt],
         status \in [Messages -> {"NONE", "PROCESSING"} \cup Final],
         NEW r \in Requests
  PROVE  /\ \A pc \in PC : Goto(r, pc) => request' \in [Requests -> Attempt]
         /\ \A i \in Requests \cup {Nobody}, out \in {"none", "refused"} \cup Final :
              End(r, i, out) => request' \in [Requests -> Attempt]
         /\ Refuse(r) => request' \in [Requests -> Attempt]
         /\ Throw(r) => request' \in [Requests -> Attempt]
         /\ \A i \in Requests \cup {Nobody} :
              Finished(Message(r)) /\ Tell(r, i, "release") => request' \in [Requests -> Attempt]
         /\ \A a \in Answers : Respond(r, a) => request' \in [Requests -> Attempt]
<1>1. request[r] \in Attempt
  OBVIOUS
<1>2. \A pc \in PC : Goto(r, pc) => request' \in [Requests -> Attempt]
  BY <1>1 DEF Goto, Attempt
<1>3. \A i \in Requests \cup {Nobody}, out \in {"none", "refused"} \cup Final :
         End(r, i, out) => request' \in [Requests -> Attempt]
  <2> SUFFICES ASSUME NEW i \in Requests \cup {Nobody}, NEW out \in {"none", "refused"} \cup Final,
                      End(r, i, out)
               PROVE  request' \in [Requests -> Attempt]
    OBVIOUS
  <2> DEFINE x == [NewRequest EXCEPT !.pc = "end", !.message = Message(r), !.text = request[r].text,
                                     !.told = i, !.out = out]
  <2>1. Message(r) \in Messages /\ request[r].text \in Texts /\ "end" \in PC
    BY <1>1 DEF Attempt, Message, PC
  <2>2. x \in Attempt
    BY <2>1, NewTypes, Zenon DEF Attempt
  <2> QED
    BY <2>2 DEF End
<1>4. Refuse(r) => request' \in [Requests -> Attempt]
  BY <1>3 DEF Refuse
<1>5. Throw(r) => request' \in [Requests -> Attempt]
  <2>0. NewRequest.prompt \in Prompts
    BY NewTypes DEF Attempt
  <2>1. [request[r] EXCEPT !.pc = "release", !.out = "refused", !.prompt = NewRequest.prompt] \in Attempt
    BY <1>1, <2>0, Zenon DEF Attempt, PC, TurnPC
  <2>2. Throw(r) =>
          request' = [request EXCEPT ![r] = [request[r] EXCEPT !.pc = "release", !.out = "refused",
                                               !.prompt = NewRequest.prompt]]
    BY <1>1 DEF Throw
  <2> QED
    BY <2>1, <2>2
<1>6. \A i \in Requests \cup {Nobody} :
        Finished(Message(r)) /\ Tell(r, i, "release") => request' \in [Requests -> Attempt]
  <2> SUFFICES ASSUME NEW i \in Requests \cup {Nobody}, Finished(Message(r)), Tell(r, i, "release")
               PROVE  request' \in [Requests -> Attempt]
    OBVIOUS
  <2>1. "release" \in PC /\ status[Message(r)] \in {"none", "refused"} \cup Final
    BY DEF PC, TurnPC, Finished
  <2>2. [request[r] EXCEPT !.pc = "release", !.told = i, !.out = status[Message(r)]] \in Attempt
    BY <1>1, <2>1, Zenon DEF Attempt
  <2>3. request' = [request EXCEPT ![r] = [request[r] EXCEPT !.pc = "release", !.told = i,
                                             !.out = status[Message(r)]]]
    BY <1>1 DEF Tell
  <2> QED
    BY <2>2, <2>3
<1>7. \A a \in Answers : Respond(r, a) => request' \in [Requests -> Attempt]
  <2> SUFFICES ASSUME NEW a \in Answers, Respond(r, a) PROVE request' \in [Requests -> Attempt]
    OBVIOUS
  <2>0. NewRequest.prompt \in Prompts
    BY NewTypes DEF Attempt
  <2>1. [request[r] EXCEPT !.pc = "policy", !.answer = a, !.prompt = NewRequest.prompt] \in Attempt
    BY <1>1, <2>0, Zenon DEF Attempt, PC, TurnPC
  <2>2. request' = [request EXCEPT ![r] = [request[r] EXCEPT !.pc = "policy", !.answer = a,
                                             !.prompt = NewRequest.prompt]]
    BY <1>1 DEF Respond
  <2> QED
    BY <2>1, <2>2
<1> QED
  BY <1>2, <1>3, <1>4, <1>5, <1>6, <1>7

LEMMA RequestTypes ==
  ASSUME TypeOK, \A m \in Messages : RowInv(m), NEW r \in Requests, Request(r)
  PROVE  request' \in [Requests -> Attempt]
<1>1. /\ request \in [Requests -> Attempt] /\ request[r] \in Attempt
      /\ status \in [Messages -> {"NONE", "PROCESSING"} \cup Final]
      /\ Message(r) \in Messages /\ Id(r) \in Requests \cup {Nobody}
      /\ id \in [Messages -> Requests \cup {Nobody}]
  BY DEF TypeOK, Attempt, Message, Id
<1>2. ASSUME NEW m \in Messages, NEW t \in Texts, Send(r, m, t)
      PROVE  request' \in [Requests -> Attempt]
  <2>1. [NewRequest EXCEPT !.pc = "find", !.message = m, !.text = t] \in Attempt
    BY NewTypes, Zenon DEF Attempt, PC
  <2> QED
    BY <1>1, <1>2, <2>1 DEF Send
<1>3. CASE Find(r)
  <2>1. \A pc \in PC, i \in Requests \cup {Nobody} : [request[r] EXCEPT !.pc = pc, !.id = i] \in Attempt
    BY <1>1, Zenon DEF Attempt
  <2>2. \/ Refuse(r)
        \/ request' = [request EXCEPT ![r] = [request[r] EXCEPT !.pc = "lock", !.id = r]]
        \/ request' = [request EXCEPT ![r] = [request[r] EXCEPT !.pc = "result", !.id = id[Message(r)]]]
        \/ request' = [request EXCEPT ![r] = [request[r] EXCEPT !.pc = "lock", !.id = id[Message(r)]]]
    BY <1>1, <1>3 DEF Find
  <2>3. "lock" \in PC /\ "result" \in PC /\ id[Message(r)] \in Requests \cup {Nobody}
    BY <1>1 DEF PC
  <2>4. /\ [request[r] EXCEPT !.pc = "lock", !.id = r] \in Attempt
        /\ [request[r] EXCEPT !.pc = "lock", !.id = id[Message(r)]] \in Attempt
        /\ [request[r] EXCEPT !.pc = "result", !.id = id[Message(r)]] \in Attempt
    BY <2>1, <2>3, Zenon
  <2>5. Refuse(r) => request' \in [Requests -> Attempt]
    BY <1>1, AttemptTypes
  <2> QED
    BY <1>1, <2>2, <2>4, <2>5
<1>4. CASE Lock(r)
  <2>1. Goto(r, "insert") \/ Goto(r, "delivery")
    BY <1>4 DEF Lock, Goto
  <2> QED
    BY <1>1, <2>1, AttemptTypes DEF PC, TurnPC
<1>5. CASE ReadMute(r)
  <2>1. Suppressed \in BOOLEAN
    BY DEF Suppressed, Muted
  <2>2. [request[r] EXCEPT !.pc = "save", !.muted = Suppressed] \in Attempt
    BY <1>1, <2>1, Zenon DEF Attempt, PC, TurnPC
  <2>3. request' = [request EXCEPT ![r] = [request[r] EXCEPT !.pc = "save", !.muted = Suppressed]]
    BY <1>1, <1>5 DEF ReadMute
  <2> QED
    BY <1>1, <2>2, <2>3
<1>6. CASE Winner(r) \/ Report(r)
  <2>1. Throw(r) \/ \E i \in Requests \cup {Nobody} : Finished(Message(r)) /\ Tell(r, i, "release")
    BY <1>1, <1>6 DEF Winner, Report
  <2> QED
    BY <1>1, <2>1, AttemptTypes
<1>7. CASE Release(r) \/ Repeat(r)
  <2>1. Refuse(r) \/ \E i \in Requests \cup {Nobody}, out \in {"none", "refused"} \cup Final :
                       End(r, i, out)
    BY <1>1, <1>7 DEF Release, Repeat, Finished, Attempt
  <2> QED
    BY <1>1, <2>1, AttemptTypes
<1>8. CASE \/ Busy(r) \/ Insert(r) \/ FindDelivery(r) \/ RequestAdmin(r) \/ Pends(r)
           \/ CallFails(r) \/ ApplyPolicy(r) \/ SaveReply(r) \/ SaveReplyFails(r)
           \/ Deliver(r) \/ LocalError(r) \/ Crash(r)
  <2>1. UNCHANGED request \/ Refuse(r) \/ Throw(r) \/ \E pc \in PC : Goto(r, pc)
    BY <1>8 DEF Busy, Insert, FindDelivery, NextAfterFind, RequestAdmin, Pends, AnswerPending,
       CallFails, ApplyPolicy, SaveReply, SaveReplyFails, Deliver, LocalError, Crash, PC, TurnPC
  <2> QED
    BY <1>1, <2>1, AttemptTypes
<1>9. CASE \/ Replays(r) \/ SettleCall(r) \/ CallFallsBack(r)
           \/ \E a \in Answers : RespondWithoutAI(r, a)
  <2>1. \E a \in Answers : Respond(r, a)
    BY <1>9 DEF Replays, ReplayAnswer, SettleCall, CallFallsBack, RespondWithoutAI, Answers
  <2> QED
    BY <1>1, <2>1, AttemptTypes
<1>10. ASSUME NEW q \in Prompts, ReserveCall(r, q) PROVE request' \in [Requests -> Attempt]
  <2>1. [request[r] EXCEPT !.pc = "calling", !.prompt = q] \in Attempt
    BY <1>1, Zenon DEF Attempt, PC, TurnPC
  <2>2. request' = [request EXCEPT ![r] = [request[r] EXCEPT !.pc = "calling", !.prompt = q]]
    BY <1>1, <1>10 DEF ReserveCall
  <2> QED
    BY <1>1, <2>1, <2>2
<1> QED
  BY <1>2, <1>3, <1>4, <1>5, <1>6, <1>7, <1>8, <1>9, <1>10 DEF Request, Replays, Pends

RestOK ==
    /\ turn \in Requests \cup {Nobody} /\ lapsed \in BOOLEAN /\ waiting \in BOOLEAN
    /\ (turn = Nobody) => lapsed
    /\ status \in [Messages -> {"NONE", "PROCESSING"} \cup Final]
    /\ id \in [Messages -> Requests \cup {Nobody}]
    /\ text \in [Messages -> Texts]
    /\ replies \subseteq Requests /\ context \subseteq Requests
    /\ held \subseteq Requests \X Prompts /\ settled \subseteq Requests \X Prompts
    /\ held \cap settled = {}
    /\ mute \in {"none", "ADMIN", "PAUSE"} /\ admin \in {"idle", "mute", "open", "clear"}
    /\ overrun \subseteq Requests /\ purged \subseteq Messages /\ faults \in 0..MaxFaults

LEMMA RestTypes ==
  ASSUME TypeOK, \A r \in Requests : IdKnown(r), [Next]_vars
  PROVE  RestOK'
<1> USE DEF roomVars, rowVars, aiVars, adminVars, ghostVars, vars
<1>1. RestOK /\ \A r \in Requests : Message(r) \in Messages /\ request[r].text \in Texts
  BY DEF TypeOK, RestOK, Message
<1>2. Nobody \notin Requests
  BY SetsAssumption
<1>3. ASSUME NEW r \in Requests, Request(r) PROVE RestOK'
  <2>1. /\ At(r, "lock") => Id(r) \in Requests
        /\ InTurn(r) => Id(r) \in Requests
    BY DEF IdKnown, At, InTurn
  <2>2. CASE Lock(r)
    BY <1>1, <1>2, <2>1, <2>2 DEF Lock, RestOK
  <2>3. CASE Insert(r)
    BY <1>1, <2>3 DEF Insert, RestOK, Final
  <2>4. CASE Reserves(r) \/ SettleCall(r) \/ CallFallsBack(r) \/ CallFails(r)
    <3>1. Id(r) \in Requests
      BY <2>1, <2>4 DEF Reserves, ReserveCall, SettleCall, CallFallsBack, CallFails, At, InTurn, TurnPC
    <3>0. Key(r) \in Requests \X Prompts
      BY <3>1 DEF Key, TypeOK
    <3>2. ASSUME NEW q \in Prompts, ReserveCall(r, q) PROVE RestOK'
      <4>1. /\ held' = held \cup {<<Id(r), q>>} /\ <<Id(r), q>> \notin settled
            /\ <<Id(r), q>> \in Requests \X Prompts
        BY <3>1, <3>2 DEF ReserveCall
      <4> QED
        BY <1>1, <3>2, <4>1 DEF ReserveCall, RestOK
    <3>3. CASE SettleCall(r)
      BY <1>1, <3>0, <3>3 DEF SettleCall, HeldAfter, RestOK
    <3>4. CASE CallFallsBack(r) \/ CallFails(r)
      BY <1>1, <3>4 DEF CallFallsBack, CallFails, RestOK
    <3> QED
      BY <2>4, <3>2, <3>3, <3>4 DEF Reserves
  <2>5. CASE SaveReply(r)
    <3>1. Id(r) \in Requests
      BY <2>1, <2>5 DEF SaveReply, At, InTurn, TurnPC
    <3>2. Closed(r) \in {"NONE", "PROCESSING"} \cup Final /\ turn # Nobody
      BY <1>2, <2>5, <3>1 DEF Closed, Final, SaveReply, CanSave
    <3>3. status' \in [Messages -> {"NONE", "PROCESSING"} \cup Final] /\ replies' \subseteq Requests
      BY <1>1, <2>5, <3>1, <3>2 DEF SaveReply, RestOK
    <3> QED
      BY <1>1, <2>5, <3>2, <3>3 DEF SaveReply, RestOK
  <2>6. CASE Deliver(r) \/ ApplyPolicy(r)
    <3>1. Id(r) \in Requests
      BY <2>1, <2>6 DEF Deliver, ApplyPolicy, At, InTurn, TurnPC
    <3> QED
      BY <1>1, <2>6, <3>1 DEF Deliver, ApplyPolicy, RestOK
  <2>7. CASE Release(r) \/ RequestAdmin(r)
    BY <1>1, <2>7 DEF Release, RequestAdmin, RestOK
  <2>8. CASE LocalError(r) \/ Crash(r)
    <3>1. faults' \in 0..MaxFaults
      BY <1>1, <2>8, BoundsAssumption DEF LocalError, Crash, Fault, RestOK
    <3> QED
      BY <1>1, <2>8, <3>1 DEF LocalError, Crash, RestOK
  <2>9. CASE UNCHANGED <<roomVars, waiting, rowVars, context, aiVars, adminVars, ghostVars, faults>>
    BY <1>1, <2>9 DEF RestOK
  <2>10. ASSUME NEW q \in Prompts, ReplayAnswer(r, q) \/ AnswerPending(r, q) PROVE RestOK'
    BY <2>9, <2>10 DEF ReplayAnswer, AnswerPending
  <2>11. ASSUME \/ \E m \in Messages, t \in Texts : Send(r, m, t)
                \/ Find(r) \/ Busy(r) \/ Winner(r) \/ FindDelivery(r) \/ ReadMute(r)
                \/ SaveReplyFails(r) \/ Report(r) \/ Repeat(r)
                \/ \E a \in Answers : RespondWithoutAI(r, a)
         PROVE  RestOK'
    BY <2>9, <2>11 DEF Send, Find, Busy, Winner, FindDelivery, RespondWithoutAI, ReadMute, SaveReplyFails,
       Report, Repeat
  <2> QED
    BY <1>3, <2>2, <2>3, <2>4, <2>5, <2>6, <2>7, <2>8, <2>10, <2>11 DEF Request, Reserves
<1>4. CASE LockLapses
  <2>1. faults' \in 0..MaxFaults /\ overrun' \subseteq Requests
    BY <1>1, <1>4, BoundsAssumption DEF LockLapses, Fault, RestOK
  <2> QED
    BY <1>1, <1>4, <2>1 DEF LockLapses, RestOK
<1>5. ASSUME NEW m \in Messages, PurgeMessage(m) PROVE RestOK'
  BY <1>1, <1>5 DEF PurgeMessage, RestOK
<1>6. CASE MuteExpires \/ ContextExpires \/ SendAdminMessage \/ MuteAfterReply \/ PauseBot
           \/ ResumeUnmutes \/ ResumeOpens \/ ResumeClears
  BY <1>1, <1>6 DEF MuteExpires, ContextExpires, SendAdminMessage, MuteAfterReply, PauseBot,
     ResumeUnmutes, ResumeOpens, ResumeClears, RestOK
<1>7. CASE UNCHANGED vars
  BY <1>1, <1>7 DEF RestOK
<1> QED
  BY <1>3, <1>4, <1>5, <1>6, <1>7 DEF Next, Environment

LEMMA TypeStep == IInv /\ [Next]_vars => TypeOK'
<1> SUFFICES ASSUME IInv, [Next]_vars PROVE TypeOK'
  OBVIOUS
<1>1. TypeOK /\ (\A m \in Messages : RowInv(m)) /\ (\A r \in Requests : IdKnown(r))
  BY DEF IInv, AttemptInv
<1>2. RestOK'
  BY <1>1, RestTypes DEF IInv, AttemptInv
<1>3. request' \in [Requests -> Attempt]
  <2>1. UNCHANGED request \/ \E r \in Requests : Request(r)
    BY DEF Next, Environment, vars, LockLapses, MuteExpires, ContextExpires, PurgeMessage,
       SendAdminMessage, MuteAfterReply, PauseBot, ResumeUnmutes, ResumeOpens, ResumeClears
  <2>2. request \in [Requests -> Attempt]
    BY <1>1 DEF TypeOK, Attempt
  <2> QED
    BY <1>1, <2>1, <2>2, RequestTypes DEF IInv
<1> QED
  BY <1>2, <1>3 DEF TypeOK, RestOK, Attempt

-----------------------------------------------------------------------------
(* What a step leaves to the others.                                           *)

shared == <<turn, lapsed, status, id, text, replies, overrun, purged>>
rows   == <<status, id, text, replies, overrun, purged>>

\* The attempt takes up no row that another may still insert, and enters no turn.
Follows(r) ==
    /\ Fresh(r)' => Fresh(r)
    /\ Message(r)' = Message(r) \/ Fresh(r)
    /\ InTurn(r)' => InTurn(r) /\ Id(r)' = Id(r)

\* A step of one attempt that leaves the rows alone and no other attempt without its lock.
LEMMA OwnStep ==
  ASSUME IInv, TypeOK', NEW r \in Requests, UNCHANGED rows,
         \A s \in Requests \ {r} : request'[s] = request[s] /\ Holding(s)',
         AttemptInv(r)', Follows(r)
  PROVE  IInv'
<1>1. UNCHANGED <<status, id, text, replies, overrun, purged>>
  BY DEF rows
<1>2. ASSUME NEW u \in Requests, ~Fresh(u) PROVE ~(Fresh(u)') /\ Message(u)' = Message(u)
  <2>1. CASE u = r
    BY <1>2, <2>1 DEF Follows
  <2>2. CASE u # r
    BY <1>2, <2>2 DEF Fresh, Id, Message
  <2> QED
    BY <2>1, <2>2
<1>3. ASSUME NEW s \in Requests \ {r} PROVE AttemptInv(s)'
  <2>1. /\ AttemptInv(s) /\ request'[s] = request[s] /\ Id(s)' = Id(s) /\ Message(s)' = Message(s)
    BY DEF IInv, Id, Message
  <2>2. IdKnown(s)' /\ TextKept(s)' /\ Holding(s)' /\ Unanswered(s)' /\ ToldStands(s)'
    BY <1>1, <2>1 DEF AttemptInv, IdKnown, TextKept, Holding, Unanswered, ToldStands, InTurn
  <2>3. Borrowed(s)'
    <3> SUFFICES ASSUME NEW u \in Requests \ {s}, Id(s)' = u
                 PROVE  ~(Fresh(u)') /\ Message(u)' = Message(s)'
      BY DEF Borrowed, Fresh, Id, Message
    <3>1. ~Fresh(u) /\ Message(u) = Message(s)
      BY <2>1 DEF AttemptInv, Borrowed
    <3> QED
      BY <1>2, <2>1, <3>1
  <2> QED
    BY <2>2, <2>3 DEF AttemptInv
<1>4. ASSUME NEW m \in Messages PROVE RowInv(m)'
  <2>1. RowInv(m)
    BY DEF IInv
  <2>2. ASSUME NEW u \in Requests, id[m] = u PROVE Message(u)' = m /\ ~(Fresh(u)')
    BY <1>2, <2>1, <2>2 DEF RowInv
  <2> QED
    BY <1>1, <2>1, <2>2 DEF RowInv, Fresh, Message, Id
<1>5. ASSUME NEW s \in Requests, NEW t \in Requests PROVE Alone(s, t)'
  <2>1. Alone(s, t)
    BY DEF IInv
  <2>2. \A u \in Requests : InTurn(u)' => InTurn(u) /\ Id(u)' = Id(u)
    BY DEF Follows, InTurn, Id
  <2> QED
    BY <1>1, <2>1, <2>2 DEF Alone
<1> QED
  BY <1>3, <1>4, <1>5 DEF IInv

\* A step that only takes one attempt further.
LEMMA LocalStep ==
  ASSUME IInv, TypeOK', NEW r \in Requests, UNCHANGED shared,
         \A s \in Requests \ {r} : request'[s] = request[s],
         AttemptInv(r)', Follows(r)
  PROVE  IInv'
<1>1. UNCHANGED <<turn, lapsed, overrun>> /\ UNCHANGED rows
  BY DEF shared, rows
<1>2. ASSUME NEW s \in Requests \ {r} PROVE Holding(s)'
  BY <1>1 DEF IInv, AttemptInv, Holding, InTurn, Id
<1> QED
  BY <1>1, <1>2, OwnStep

\* The attempt is over, or was refused.
LEMMA EndKeeps ==
  ASSUME IInv, TypeOK', NEW r \in Requests, UNCHANGED shared, NEW i, NEW out, End(r, i, out),
         \/ out \notin Final
         \/ request[r].out = out /\ request[r].told = i
         \/ /\ i \in Requests /\ i = id[Message(r)] /\ text[Message(r)] = request[r].text
            /\ out = "ANSWERED" => status[Message(r)] = "ANSWERED"
  PROVE  IInv'
<1>1. /\ UNCHANGED <<turn, lapsed, status, id, text, replies, overrun, purged>> /\ AttemptInv(r)
  BY DEF shared, IInv
<1>2. /\ request'[r].pc = "end" /\ request'[r].out = out /\ request'[r].told = i
      /\ request'[r].text = request[r].text
      /\ Id(r)' = Nobody /\ Message(r)' = Message(r)
      /\ \A s \in Requests \ {r} : request'[s] = request[s]
  BY DEF End, NewRequest, Id, Message, IInv, TypeOK
<1>3. Nobody \notin Requests
  BY SetsAssumption
<1>4. IdKnown(r)' /\ Borrowed(r)' /\ TextKept(r)' /\ Holding(r)' /\ Unanswered(r)'
  BY <1>2, <1>3 DEF IdKnown, Borrowed, TextKept, Holding, Unanswered, InTurn, TurnPC
<1>5. ToldStands(r)'
  BY <1>1, <1>2 DEF AttemptInv, ToldStands
<1>6. Follows(r)
  BY <1>2 DEF Follows, Fresh, InTurn, TurnPC
<1> QED
  BY <1>1, <1>2, <1>4, <1>5, <1>6, LocalStep DEF AttemptInv

Working == {"respond", "calling", "policy", "muted", "save"}

\* The attempt is told how the message of row i stands.
Told(r, i, out) == /\ i \in Requests /\ i = id[Message(r)] /\ text[Message(r)] = request[r].text
                   /\ out = status[Message(r)]

\* The attempt goes on in its turn.
GoesOn(r) ==
    /\ InTurn(r) /\ request'[r].pc \in TurnPC \ {"insert"}
    /\ Id(r)' = Id(r) /\ Message(r)' = Message(r) /\ request'[r].text = request[r].text
    /\ request'[r].pc = "winner" => request[r].pc = "insert"
    /\ request'[r].pc \in Working => request[r].pc \in Working \/ Id(r) \notin replies
    /\ \/ request'[r].out \notin Final
       \/ request'[r].out = request[r].out /\ request'[r].told = request[r].told
       \/ Told(r, request'[r].told, request'[r].out)

LEMMA TurnStep ==
  ASSUME IInv, TypeOK', NEW r \in Requests, UNCHANGED shared,
         \A s \in Requests \ {r} : request'[s] = request[s], GoesOn(r)
  PROVE  IInv'
<1>1. UNCHANGED <<turn, lapsed, status, id, text, replies, overrun, purged>> /\ AttemptInv(r)
  BY DEF shared, IInv
<1>2. /\ InTurn(r) /\ InTurn(r)' /\ Id(r)' = Id(r) /\ Message(r)' = Message(r)
      /\ request'[r].text = request[r].text
  BY DEF GoesOn, InTurn
<1>3. Follows(r)
  BY <1>2 DEF Follows, Fresh, GoesOn, InTurn, TurnPC
<1>4. IdKnown(r)'
  BY <1>1, <1>2 DEF IdKnown, AttemptInv, GoesOn, InTurn, TurnPC
<1>5. Borrowed(r)'
  <2> SUFFICES ASSUME NEW u \in Requests \ {r}, Id(r)' = u
               PROVE  ~(Fresh(u)') /\ Message(u)' = Message(r)'
    BY DEF Borrowed, Fresh, Id, Message
  <2>1. ~Fresh(u) /\ Message(u) = Message(r)
    BY <1>1, <1>2 DEF AttemptInv, Borrowed
  <2> QED
    BY <1>2, <2>1 DEF Fresh, Id, Message
<1>6. TextKept(r)' /\ Holding(r)'
  BY <1>1, <1>2 DEF TextKept, Holding, AttemptInv
<1>7. Unanswered(r)'
  BY <1>1, <1>2 DEF Unanswered, AttemptInv, GoesOn, Working
<1>8. ToldStands(r)'
  BY <1>1, <1>2 DEF ToldStands, AttemptInv, GoesOn, Told
<1> QED
  BY <1>3, <1>4, <1>5, <1>6, <1>7, <1>8, LocalStep DEF AttemptInv

\* A step that touches none of it.
LEMMA StutterKeeps == ASSUME IInv, TypeOK', UNCHANGED <<shared, request>> PROVE IInv'
<1>1. UNCHANGED <<turn, lapsed, status, id, text, replies, overrun, purged, request>>
  BY DEF shared
<1>2. ASSUME NEW m \in Messages PROVE RowInv(m)'
  BY <1>1 DEF IInv, RowInv, Message, Fresh, Id
<1>3. ASSUME NEW s \in Requests PROVE AttemptInv(s)'
  BY <1>1 DEF IInv, AttemptInv, IdKnown, Borrowed, TextKept, Holding, Unanswered, ToldStands, InTurn,
     Message, Fresh, Id
<1>4. ASSUME NEW s \in Requests, NEW t \in Requests PROVE Alone(s, t)'
  BY <1>1 DEF IInv, Alone, InTurn, Id
<1> QED
  BY <1>2, <1>3, <1>4 DEF IInv

-----------------------------------------------------------------------------
(* The steps of an attempt.                                                    *)

\* The actions that only go on.
LEMMA GoesOnActions ==
  ASSUME IInv, TypeOK', NEW r \in Requests,
         \/ Winner(r) \/ FindDelivery(r) \/ Replays(r) \/ Pends(r) \/ Reserves(r)
         \/ SettleCall(r) \/ CallFallsBack(r) \/ CallFails(r) \/ ApplyPolicy(r) \/ ReadMute(r)
         \/ SaveReplyFails(r) \/ Deliver(r) \/ Report(r) \/ \E a \in Answers : RespondWithoutAI(r, a)
  PROVE  IInv'
<1> USE DEF roomVars, rowVars, aiVars, adminVars, ghostVars
<1>1. /\ request \in [Requests -> Attempt] /\ request[r] \in Attempt /\ AttemptInv(r)
      /\ Message(r) \in Messages /\ \A m \in Messages : RowInv(m) /\ id[m] \in Requests \cup {Nobody}
  BY DEF IInv, TypeOK, Attempt, Message
<1>2. UNCHANGED shared
  BY DEF shared, Winner, FindDelivery, Replays, ReplayAnswer, Pends, AnswerPending, Reserves, ReserveCall, SettleCall,
     CallFallsBack, CallFails, ApplyPolicy, ReadMute, SaveReplyFails, Deliver, Report, RespondWithoutAI
<1>3. \A s \in Requests \ {r} : request'[s] = request[s]
  BY <1>1 DEF Winner, FindDelivery, Replays, ReplayAnswer, Pends, AnswerPending, Reserves, ReserveCall, SettleCall, CallFallsBack,
     CallFails, ApplyPolicy, ReadMute, SaveReplyFails, Deliver, Report, RespondWithoutAI, Goto, Respond,
     Throw, Tell
<1>4. CASE Winner(r) \/ Report(r)
  <2>1. Throw(r) => GoesOn(r)
    BY <1>1, <1>4 DEF Throw, GoesOn, InTurn, Winner, Report, At, TurnPC, Id, Message, Attempt, Working, Final
  <2>2. ASSUME Finished(Message(r)), id[Message(r)] \in Requests, text[Message(r)] = request[r].text,
               Tell(r, id[Message(r)], "release")
        PROVE  GoesOn(r)
    <3>1. Told(r, request'[r].told, request'[r].out)
      BY <1>1, <2>2 DEF Tell, Told, Attempt
    <3> QED
      BY <1>1, <1>4, <2>2, <3>1 DEF Tell, GoesOn, InTurn, Winner, Report, At, TurnPC, Id, Message, Attempt,
         Working
  <2>3. Finished(Message(r)) => id[Message(r)] \in Requests
    BY <1>1 DEF Finished, Final, RowInv
  <2>4. Report(r) /\ id[Message(r)] = Id(r) => Id(r) \in Requests /\ (text[Message(r)] = request[r].text)
    BY <1>1 DEF Report, At, AttemptInv, IdKnown, TextKept, TurnPC
  <2>5. GoesOn(r)
    BY <1>4, <2>1, <2>2, <2>3, <2>4 DEF Winner, Report
  <2> QED
    BY <1>2, <1>3, <2>5, TurnStep
<1>5. CASE \/ FindDelivery(r) \/ ApplyPolicy(r) \/ Deliver(r)
  <2>1. PICK pc \in TurnPC \ {"insert", "winner"} :
          /\ Goto(r, pc) /\ InTurn(r)
          /\ pc \in Working => request[r].pc \in Working \/ Id(r) \notin replies
    BY <1>5 DEF FindDelivery, NextAfterFind, ApplyPolicy, Deliver, TurnPC, InTurn, At, Working
  <2>2. GoesOn(r)
    BY <1>1, <2>1 DEF Goto, GoesOn, InTurn, Id, Message, Attempt
  <2> QED
    BY <1>2, <1>3, <2>2, TurnStep
<1>6. CASE Pends(r) \/ CallFails(r) \/ SaveReplyFails(r)
  <2>1. Throw(r) /\ InTurn(r)
    BY <1>6 DEF Pends, AnswerPending, CallFails, SaveReplyFails, InTurn, At, TurnPC
  <2>2. GoesOn(r)
    BY <1>1, <2>1 DEF Throw, GoesOn, InTurn, Id, Message, Attempt, TurnPC, Working, Final
  <2> QED
    BY <1>2, <1>3, <2>2, TurnStep
<1>7. CASE Replays(r) \/ SettleCall(r) \/ CallFallsBack(r) \/ \E a \in Answers : RespondWithoutAI(r, a)
  <2>1. (\E a : Respond(r, a)) /\ InTurn(r) /\ request[r].pc \in Working
    BY <1>7 DEF Replays, ReplayAnswer, SettleCall, CallFallsBack, RespondWithoutAI, InTurn, At, TurnPC, Working
  <2>2. GoesOn(r)
    BY <1>1, <2>1 DEF Respond, GoesOn, InTurn, Id, Message, Attempt, TurnPC, Working
  <2> QED
    BY <1>2, <1>3, <2>2, TurnStep
<1>8. CASE ReadMute(r)
  <2>1. /\ InTurn(r) /\ request[r].pc \in Working
        /\ request' = [request EXCEPT ![r] = [request[r] EXCEPT !.pc = "save", !.muted = Suppressed]]
    BY <1>1, <1>8 DEF ReadMute, InTurn, At, TurnPC, Working
  <2>2. GoesOn(r)
    BY <1>1, <2>1 DEF GoesOn, InTurn, Id, Message, Attempt, TurnPC, Working
  <2> QED
    BY <1>2, <1>3, <2>2, TurnStep
<1>9. ASSUME NEW q \in Prompts, ReserveCall(r, q) PROVE IInv'
  <2>1. /\ InTurn(r) /\ request[r].pc \in Working
        /\ request' = [request EXCEPT ![r] = [request[r] EXCEPT !.pc = "calling", !.prompt = q]]
    BY <1>1, <1>9 DEF ReserveCall, InTurn, At, TurnPC, Working
  <2>2. GoesOn(r)
    BY <1>1, <2>1 DEF GoesOn, InTurn, Id, Message, Attempt, TurnPC, Working
  <2> QED
    BY <1>2, <1>3, <2>2, TurnStep
<1> QED
  BY <1>4, <1>5, <1>6, <1>7, <1>8, <1>9 DEF Reserves

\* The attempts that end, or fail.
LEMMA EndActions ==
  ASSUME IInv, TypeOK', NEW r \in Requests, Busy(r) \/ Repeat(r) \/ LocalError(r) \/ Crash(r)
  PROVE  IInv'
<1> USE DEF roomVars, rowVars, aiVars, adminVars, ghostVars
<1>1. /\ request \in [Requests -> Attempt] /\ request[r] \in Attempt /\ AttemptInv(r)
  BY DEF IInv, TypeOK, Attempt
<1>2. UNCHANGED shared
  BY DEF shared, Busy, Repeat, LocalError, Crash
<1>3. CASE Refuse(r)
  BY <1>2, <1>3, EndKeeps DEF Refuse, Final
<1>4. CASE Throw(r) /\ InTurn(r)
  <2>1. GoesOn(r) /\ \A s \in Requests \ {r} : request'[s] = request[s]
    BY <1>1, <1>4 DEF Throw, GoesOn, InTurn, Id, Message, Attempt, TurnPC, Working, Final
  <2> QED
    BY <1>2, <2>1, TurnStep
<1>5. CASE Repeat(r) /\ ~Refuse(r)
  <2>1. /\ End(r, Id(r), status[Message(r)]) /\ Id(r) \in Requests /\ Id(r) = id[Message(r)]
        /\ text[Message(r)] = request[r].text
    BY <1>1, <1>5 DEF Repeat, At, AttemptInv, IdKnown, TextKept
  <2> QED
    BY <1>2, <2>1, EndKeeps
<1> QED
  BY <1>3, <1>4, <1>5 DEF Busy, Repeat, LocalError, Crash, InTurn

LEMMA SendKeeps ==
  ASSUME IInv, TypeOK', NEW r \in Requests, NEW m \in Messages, NEW t \in Texts, Send(r, m, t)
  PROVE  IInv'
<1> USE DEF roomVars, rowVars, aiVars, adminVars, ghostVars
<1>1. request \in [Requests -> Attempt] /\ Nobody \notin Requests
  BY SetsAssumption DEF IInv, TypeOK, Attempt
<1>2. /\ UNCHANGED shared /\ Fresh(r) /\ \A s \in Requests \ {r} : request'[s] = request[s]
      /\ request'[r].pc = "find" /\ Id(r)' = Nobody /\ request'[r].out = "none"
  BY <1>1 DEF Send, shared, Fresh, At, Id, NewRequest
<1>3. AttemptInv(r)'
  BY <1>1, <1>2 DEF AttemptInv, IdKnown, Borrowed, TextKept, Holding, Unanswered, ToldStands, InTurn,
     TurnPC, Final
<1>4. Follows(r)
  BY <1>2 DEF Follows, InTurn, TurnPC
<1> QED
  BY <1>2, <1>3, <1>4, LocalStep

LEMMA FindKeeps == ASSUME IInv, TypeOK', NEW r \in Requests, Find(r) PROVE IInv'
<1> USE DEF roomVars, rowVars, aiVars, adminVars, ghostVars
<1>1. /\ request \in [Requests -> Attempt] /\ request[r] \in Attempt /\ Nobody \notin Requests
      /\ Message(r) \in Messages /\ RowInv(Message(r)) /\ AttemptInv(r)
      /\ id[Message(r)] \in Requests \cup {Nobody}
  BY SetsAssumption DEF IInv, TypeOK, Attempt, Message
<1>2. UNCHANGED shared /\ Fresh(r) /\ UNCHANGED <<status, id, text, purged, overrun>>
  BY DEF Find, shared, Fresh, At
<1>3. CASE Refuse(r)
  BY <1>2, <1>3, EndKeeps DEF Refuse, Final
<1>4. ASSUME NEW i \in Requests, NEW pc \in {"lock", "result"},
             request' = [request EXCEPT ![r] = [request[r] EXCEPT !.pc = pc, !.id = i]],
             \/ i = r /\ status[Message(r)] = "NONE" /\ pc = "lock"
             \/ i = id[Message(r)] /\ text[Message(r)] = request[r].text
      PROVE  IInv'
  <2>1. /\ request'[r].pc = pc /\ Id(r)' = i /\ Message(r)' = Message(r)
        /\ request'[r].text = request[r].text /\ request'[r].out = request[r].out
        /\ request'[r].told = request[r].told /\ \A s \in Requests \ {r} : request'[s] = request[s]
    BY <1>1, <1>4 DEF Id, Message, Attempt
  <2>2. i # r => ~Fresh(i) /\ Message(i) = Message(r)
    BY <1>1, <1>4 DEF RowInv
  <2>3. Borrowed(r)'
    <3> SUFFICES ASSUME NEW u \in Requests \ {r}, Id(r)' = u
                 PROVE  ~(Fresh(u)') /\ Message(u)' = Message(r)'
      BY DEF Borrowed, Fresh, Id, Message
    <3> QED
      BY <2>1, <2>2 DEF Fresh, Id, Message
  <2>4. IdKnown(r)' /\ Holding(r)' /\ Unanswered(r)'
    BY <1>4, <2>1 DEF IdKnown, Holding, Unanswered, InTurn, TurnPC
  <2>5. TextKept(r)'
    <3>1. i = r => id[Message(r)] # r
      BY <1>1, <1>2 DEF RowInv
    <3> QED
      BY <1>1, <1>2, <1>4, <2>1, <3>1 DEF TextKept
  <2>6. ToldStands(r)'
    BY <1>1, <1>2, <2>1 DEF ToldStands, AttemptInv
  <2>7. Follows(r)
    BY <1>2, <1>4, <2>1 DEF Follows, InTurn, TurnPC
  <2> QED
    BY <1>2, <2>1, <2>3, <2>4, <2>5, <2>6, <2>7, LocalStep DEF AttemptInv
<1>5. \/ Refuse(r)
      \/ /\ status[Message(r)] = "NONE"
         /\ request' = [request EXCEPT ![r] = [request[r] EXCEPT !.pc = "lock", !.id = r]]
      \/ /\ status[Message(r)] # "NONE" /\ text[Message(r)] = request[r].text
         /\ \/ request' = [request EXCEPT ![r] = [request[r] EXCEPT !.pc = "result", !.id = id[Message(r)]]]
            \/ request' = [request EXCEPT ![r] = [request[r] EXCEPT !.pc = "lock", !.id = id[Message(r)]]]
  BY <1>1 DEF Find
<1>6. status[Message(r)] # "NONE" => id[Message(r)] \in Requests
  BY <1>1 DEF RowInv
<1> QED
  BY <1>3, <1>4, <1>5, <1>6

LEMMA LockKeeps == ASSUME IInv, TypeOK', NEW r \in Requests, Lock(r) PROVE IInv'
<1> USE DEF roomVars, rowVars, aiVars, adminVars, ghostVars
<1>1. /\ request \in [Requests -> Attempt] /\ request[r] \in Attempt /\ Nobody \notin Requests
      /\ AttemptInv(r) /\ Id(r) \in Requests /\ TypeOK /\ Message(r) \in Messages
  BY SetsAssumption DEF IInv, TypeOK, Attempt, AttemptInv, IdKnown, Lock, At, Message
<1>2. /\ turn' = Id(r) /\ lapsed' = FALSE
      /\ UNCHANGED <<status, id, text, replies, overrun, purged>>
  BY DEF Lock
<1>3. /\ request[r].pc = "lock" /\ request'[r].pc = (IF Id(r) = r THEN "insert" ELSE "delivery")
      /\ Id(r)' = Id(r) /\ Message(r)' = Message(r) /\ request'[r].text = request[r].text
      /\ request'[r].out = request[r].out /\ request'[r].told = request[r].told
      /\ \A s \in Requests \ {r} : request'[s] = request[s]
  BY <1>1 DEF Lock, At, Id, Message, Attempt
\* The room was free: every attempt still in a turn has outlasted its lock.
<1>4. ASSUME NEW s \in Requests, InTurn(s) PROVE Id(s) \in overrun
  <2>1. Holding(s) /\ Id(s) \in Requests
    BY <1>4 DEF IInv, AttemptInv, IdKnown, InTurn
  <2> QED
    BY <1>1, <1>4, <2>1 DEF Holding, Lock, RoomFree
<1>5. \A s \in Requests : Fresh(s)' <=> Fresh(s)
  BY <1>3 DEF Fresh, Id
<1>6. \A s \in Requests : Message(s)' = Message(s) /\ Id(s)' = Id(s)
  BY <1>3 DEF Message, Id
<1>7. ASSUME NEW s \in Requests PROVE Borrowed(s)'
  <2> SUFFICES ASSUME NEW u \in Requests \ {s}, Id(s)' = u
               PROVE  ~(Fresh(u)') /\ Message(u)' = Message(s)'
    BY DEF Borrowed, Fresh, Id, Message
  <2>1. Borrowed(s)
    BY DEF IInv, AttemptInv
  <2> QED
    BY <1>5, <1>6, <2>1 DEF Borrowed
<1>8. ASSUME NEW m \in Messages PROVE RowInv(m)'
  <2>1. RowInv(m)
    BY DEF IInv
  <2>2. ASSUME NEW u \in Requests, id[m] = u PROVE Message(u)' = m /\ ~(Fresh(u)')
    BY <1>5, <1>6, <2>1, <2>2 DEF RowInv
  <2> QED
    BY <1>2, <2>1, <2>2 DEF RowInv, Fresh, Message, Id
<1>9. ASSUME NEW s \in Requests PROVE AttemptInv(s)'
  <2>1. CASE s = r
    <3>1. IdKnown(r)' /\ TextKept(r)' /\ Holding(r)' /\ Unanswered(r)' /\ ToldStands(r)'
      BY <1>1, <1>2, <1>3 DEF AttemptInv, IdKnown, TextKept, Holding, Unanswered, ToldStands
    <3> QED
      BY <1>7, <2>1, <3>1 DEF AttemptInv
  <2>2. CASE s # r
    <3>1. AttemptInv(s) /\ request'[s] = request[s] /\ Id(s)' = Id(s) /\ Message(s)' = Message(s)
      BY <1>3, <1>6, <2>2 DEF IInv
    <3>2. IdKnown(s)' /\ TextKept(s)' /\ Unanswered(s)' /\ ToldStands(s)'
      BY <1>2, <3>1 DEF AttemptInv, IdKnown, TextKept, Unanswered, ToldStands
    <3>3. Holding(s)'
      BY <1>2, <1>4, <3>1 DEF Holding, InTurn
    <3> QED
      BY <1>7, <3>2, <3>3 DEF AttemptInv
  <2> QED
    BY <2>1, <2>2
<1>10. ASSUME NEW s \in Requests, NEW t \in Requests PROVE Alone(s, t)'
  BY <1>2, <1>3, <1>4, <1>6 DEF Alone, InTurn
<1> QED
  BY <1>8, <1>9, <1>10 DEF IInv

LEMMA ReleaseKeeps == ASSUME IInv, TypeOK', NEW r \in Requests, Release(r) PROVE IInv'
<1> USE DEF roomVars, rowVars, aiVars, adminVars, ghostVars
<1>1. /\ UNCHANGED <<status, id, text, replies, overrun, purged>> /\ AttemptInv(r) /\ InTurn(r)
      /\ UNCHANGED rows
  BY DEF Release, rows, IInv, At, InTurn, TurnPC
<1>2. /\ request'[r].pc = "end" /\ request'[r].out = request[r].out /\ request'[r].told = request[r].told
      /\ request'[r].text = request[r].text
      /\ Id(r)' = Nobody /\ Message(r)' = Message(r)
      /\ \A s \in Requests \ {r} : request'[s] = request[s]
  BY DEF Release, End, NewRequest, Id, Message, IInv, TypeOK
<1>3. Nobody \notin Requests
  BY SetsAssumption
<1>4. AttemptInv(r)'
  BY <1>1, <1>2, <1>3 DEF AttemptInv, IdKnown, Borrowed, TextKept, Holding, Unanswered, ToldStands,
     InTurn, TurnPC
<1>5. Follows(r)
  BY <1>2 DEF Follows, Fresh, InTurn, TurnPC
\* Only its own lock is freed.
<1>6. ASSUME NEW s \in Requests \ {r} PROVE Holding(s)'
  <2>1. /\ Holding(s) /\ Alone(r, s) /\ request'[s] = request[s] /\ Id(s)' = Id(s)
        /\ InTurn(s)' = InTurn(s)
    BY <1>2 DEF IInv, AttemptInv, InTurn, Id
  <2>2. CASE Holds(r)
    <3>1. ~(InTurn(s) /\ Id(s) \notin overrun)
      BY <1>1, <2>1, <2>2 DEF Holds, Holding, Alone
    <3> QED
      BY <1>1, <2>1, <3>1 DEF Holding
  <2>3. CASE ~Holds(r)
    BY <1>1, <2>1, <2>3 DEF Release, Holding
  <2> QED
    BY <2>2, <2>3
<1> QED
  BY <1>1, <1>2, <1>4, <1>5, <1>6, OwnStep

LEMMA InsertKeeps == ASSUME IInv, TypeOK', NEW r \in Requests, Insert(r) PROVE IInv'
<1> USE DEF roomVars, rowVars, aiVars, adminVars, ghostVars
<1> DEFINE m == Message(r)
<1>1. /\ request \in [Requests -> Attempt] /\ request[r] \in Attempt /\ Nobody \notin Requests
      /\ m \in Messages /\ RowInv(m) /\ AttemptInv(r) /\ At(r, "insert") /\ Id(r) = r /\ Fresh(r)
  BY SetsAssumption DEF IInv, TypeOK, Attempt, Message, Insert, At, AttemptInv, IdKnown, Fresh
<1>2. CASE ~Unique(m)
  <2>1. UNCHANGED shared /\ Goto(r, "winner") /\ \A s \in Requests \ {r} : request'[s] = request[s]
    BY <1>1, <1>2 DEF Insert, shared, Goto
  <2>2. GoesOn(r)
    BY <1>1, <2>1 DEF Goto, GoesOn, InTurn, At, Id, Message, Attempt, TurnPC, Working
  <2> QED
    BY <2>1, <2>2, TurnStep
<1>3. CASE Unique(m)
  <2>1. /\ status[m] = "NONE" /\ id[m] = Nobody
        /\ status' = [status EXCEPT ![m] = "PROCESSING"] /\ id' = [id EXCEPT ![m] = r]
        /\ text' = [text EXCEPT ![m] = request[r].text] /\ Goto(r, "delivery")
        /\ UNCHANGED <<turn, lapsed, replies, overrun, purged>>
    BY <1>1, <1>3 DEF Insert, Unique, RowInv
  <2>2. /\ request'[r].pc = "delivery" /\ Id(r)' = r /\ Message(r)' = m
        /\ request'[r].text = request[r].text
        /\ request'[r].out = request[r].out /\ request'[r].told = request[r].told
        /\ \A s \in Requests \ {r} : request'[s] = request[s]
    BY <1>1, <2>1 DEF Goto, Id, Message, Attempt
  <2>3. /\ status'[m] = "PROCESSING" /\ id'[m] = r /\ text'[m] = request[r].text
        /\ \A n \in Messages \ {m} : status'[n] = status[n] /\ id'[n] = id[n] /\ text'[n] = text[n]
    BY <1>1, <2>1 DEF IInv, TypeOK
  <2>4. \A s \in Requests : /\ Message(s)' = Message(s) /\ Id(s)' = Id(s) /\ (InTurn(s)' <=> InTurn(s))
                            /\ Fresh(s)' => Fresh(s)
                            /\ request'[s].text = request[s].text /\ request'[s].out = request[s].out
                            /\ request'[s].told = request[s].told
    BY <1>1, <2>2 DEF Message, Id, InTurn, At, Fresh, TurnPC
  <2>5. ASSUME NEW n \in Messages PROVE RowInv(n)'
    <3>1. RowInv(n)
      BY DEF IInv
    <3>2. ASSUME NEW u \in Requests, id'[n] = u PROVE Message(u)' = n /\ ~(Fresh(u)')
      <4>1. CASE n = m
        BY <2>2, <2>3, <3>2, <4>1 DEF Fresh
      <4>2. CASE n # m
        BY <2>3, <2>4, <3>1, <3>2, <4>2 DEF RowInv
      <4> QED
        BY <4>1, <4>2
    <3>3. (status'[n] = "NONE" <=> id'[n] = Nobody) /\ (status'[n] = "ANSWERED" => id'[n] \in replies')
      BY <1>1, <2>1, <2>3, <3>1 DEF RowInv
    <3> QED
      BY <3>2, <3>3 DEF RowInv, Fresh, Message, Id
  <2>6. ASSUME NEW s \in Requests PROVE AttemptInv(s)'
    <3>1. AttemptInv(s) /\ Message(s) \in Messages
      BY DEF IInv, TypeOK, Message
    <3>2. IdKnown(s)' /\ Unanswered(s)' /\ Holding(s)'
      BY <1>1, <2>1, <2>2, <2>4, <3>1 DEF AttemptInv, IdKnown, Unanswered, Holding
    <3>3. Borrowed(s)'
      <4> SUFFICES ASSUME NEW u \in Requests \ {s}, Id(s)' = u
                   PROVE  ~(Fresh(u)') /\ Message(u)' = Message(s)'
        BY DEF Borrowed, Fresh, Id, Message
      <4> QED
        BY <2>4, <3>1 DEF AttemptInv, Borrowed
    <3>4. s # r => Id(s) # r
      BY <1>1, <3>1 DEF AttemptInv, Borrowed
    <3>5. TextKept(s)'
      <4>1. CASE Message(s) = m
        BY <2>3, <2>4, <3>4, <4>1 DEF TextKept
      <4>2. CASE Message(s) # m
        BY <2>3, <2>4, <3>1, <4>2 DEF TextKept, AttemptInv
      <4> QED
        BY <4>1, <4>2
    <3>6. ToldStands(s)'
      <4>1. CASE Message(s) = m
        BY <1>1, <2>1, <2>4, <3>1, <4>1 DEF ToldStands, AttemptInv
      <4>2. CASE Message(s) # m
        BY <2>1, <2>3, <2>4, <3>1, <4>2 DEF ToldStands, AttemptInv
      <4> QED
        BY <4>1, <4>2
    <3> QED
      BY <3>2, <3>3, <3>5, <3>6 DEF AttemptInv
  <2>7. ASSUME NEW s \in Requests, NEW t \in Requests PROVE Alone(s, t)'
    BY <2>1, <2>4 DEF IInv, Alone
  <2> QED
    BY <2>5, <2>6, <2>7 DEF IInv
<1> QED
  BY <1>2, <1>3

LEMMA SaveReplyKeeps == ASSUME IInv, TypeOK', NEW r \in Requests, SaveReply(r) PROVE IInv'
<1> USE DEF roomVars, rowVars, aiVars, adminVars, ghostVars
<1> DEFINE m == Message(r)
           i == Id(r)
<1>1. /\ request \in [Requests -> Attempt] /\ request[r] \in Attempt /\ m \in Messages /\ RowInv(m)
      /\ AttemptInv(r) /\ At(r, "save") /\ InTurn(r) /\ i \in Requests
      /\ status \in [Messages -> {"NONE", "PROCESSING"} \cup Final]
  BY DEF IInv, TypeOK, Attempt, Message, SaveReply, At, AttemptInv, IdKnown, InTurn, TurnPC
<1>2. /\ turn = i /\ id[m] = i /\ status[m] # "NONE" /\ lapsed' = FALSE
      /\ status' = [status EXCEPT ![m] = Closed(r)]
      /\ replies' = (IF Silent(r) THEN replies ELSE replies \cup {i})
      /\ UNCHANGED <<turn, id, text, overrun, purged>>
  BY DEF SaveReply, CanSave
<1>3. /\ request'[r].pc = (IF Silent(r) THEN "report" ELSE "deliver") /\ i' = i /\ m' = m
      /\ request'[r].text = request[r].text
      /\ request'[r].out = request[r].out /\ request'[r].told = request[r].told
      /\ \A s \in Requests \ {r} : request'[s] = request[s]
  BY <1>1 DEF SaveReply, Goto, Id, Message, Attempt
<1>4. \A s \in Requests : /\ Message(s)' = Message(s) /\ Id(s)' = Id(s) /\ (InTurn(s)' <=> InTurn(s))
                          /\ Fresh(s)' <=> Fresh(s)
                          /\ request'[s].text = request[s].text /\ request'[s].out = request[s].out
                          /\ request'[s].told = request[s].told
  BY <1>1, <1>3 DEF Message, Id, InTurn, At, Fresh, TurnPC
<1>5. /\ status'[m] = (IF Silent(r) THEN "NO_REPLY" ELSE "ANSWERED")
      /\ \A n \in Messages \ {m} : status'[n] = status[n]
  BY <1>1, <1>2 DEF Closed
<1>6. ASSUME NEW n \in Messages PROVE RowInv(n)'
  <2>1. RowInv(n)
    BY DEF IInv
  <2>2. ASSUME NEW u \in Requests, id'[n] = u PROVE Message(u)' = n /\ ~(Fresh(u)')
    BY <1>2, <1>4, <2>1, <2>2 DEF RowInv
  <2>3. status'[n] = "NONE" <=> id'[n] = Nobody
    BY <1>1, <1>2, <1>5, <2>1 DEF RowInv
  <2>4. status'[n] = "ANSWERED" => id'[n] \in replies'
    BY <1>2, <1>5, <2>1 DEF RowInv
  <2> QED
    BY <2>2, <2>3, <2>4 DEF RowInv, Fresh, Message, Id
<1>7. ASSUME NEW s \in Requests PROVE AttemptInv(s)'
  <2>1. AttemptInv(s) /\ Message(s) \in Messages
    BY DEF IInv, TypeOK, Message
  <2>2. IdKnown(s)' /\ TextKept(s)'
    BY <1>1, <1>2, <1>3, <1>4, <2>1 DEF AttemptInv, IdKnown, TextKept
  <2>3. Holding(s)'
    BY <1>2, <1>4, <2>1 DEF AttemptInv, Holding
  <2>4. Borrowed(s)'
    <3> SUFFICES ASSUME NEW u \in Requests \ {s}, Id(s)' = u
                 PROVE  ~(Fresh(u)') /\ Message(u)' = Message(s)'
      BY DEF Borrowed, Fresh, Id, Message
    <3> QED
      BY <1>4, <2>1 DEF AttemptInv, Borrowed
  \* Nobody else works on this message with its lock.
  <2>5. Unanswered(s)'
    <3>1. CASE s = r
      BY <1>3, <3>1 DEF Unanswered
    <3>2. CASE s # r
      <4>1. Alone(r, s) /\ request'[s] = request[s]
        BY <1>3, <3>2 DEF IInv
      <4>2. InTurn(s) /\ Id(s) \notin overrun => Id(s) # i
        BY <1>1, <3>2, <4>1 DEF Alone
      <4> QED
        BY <1>2, <1>4, <2>1, <4>1, <4>2 DEF Unanswered, AttemptInv, InTurn, TurnPC
    <3> QED
      BY <3>1, <3>2
  \* Nobody was told of an answer that is now replaced by none.
  <2>6. ToldStands(s)'
    <3>1. CASE Message(s) = m
      <4>1. i \notin overrun => status[m] # "ANSWERED"
        BY <1>1, <1>2 DEF AttemptInv, Unanswered, RowInv, At
      <4> QED
        BY <1>2, <1>4, <1>5, <2>1, <3>1, <4>1 DEF AttemptInv, ToldStands
    <3>2. CASE Message(s) # m
      BY <1>2, <1>4, <1>5, <2>1, <3>2 DEF AttemptInv, ToldStands
    <3> QED
      BY <3>1, <3>2
  <2> QED
    BY <2>2, <2>3, <2>4, <2>5, <2>6 DEF AttemptInv
<1>8. ASSUME NEW s \in Requests, NEW t \in Requests PROVE Alone(s, t)'
  BY <1>2, <1>4 DEF IInv, Alone
<1> QED
  BY <1>6, <1>7, <1>8 DEF IInv

-----------------------------------------------------------------------------
(* Time and the purge.                                                         *)

LEMMA LapseKeeps == ASSUME IInv, TypeOK', LockLapses PROVE IInv'
<1> USE DEF roomVars, rowVars, aiVars, adminVars, ghostVars
<1>1. UNCHANGED <<turn, status, id, text, replies, request, purged>> /\ overrun \subseteq overrun'
  BY DEF LockLapses
<1>2. ASSUME NEW m \in Messages PROVE RowInv(m)'
  BY <1>1 DEF IInv, RowInv, Message, Fresh, Id
<1>3. ASSUME NEW s \in Requests PROVE AttemptInv(s)'
  <2>1. AttemptInv(s)
    BY DEF IInv
  <2>2. IdKnown(s)' /\ Borrowed(s)' /\ TextKept(s)' /\ Unanswered(s)' /\ ToldStands(s)'
    BY <1>1, <2>1 DEF AttemptInv, IdKnown, Borrowed, TextKept, Unanswered, ToldStands, InTurn, Message,
       Fresh, Id
  <2>3. InTurn(s) => Id(s) \in overrun'
    <3> SUFFICES ASSUME InTurn(s), Id(s) \notin overrun PROVE Id(s) \in overrun'
      BY <1>1
    <3>1. s \in {r \in Requests : InTurn(r) /\ Holds(r)} /\ turn = Id(s)
      BY <2>1 DEF AttemptInv, Holding, Holds
    <3> QED
      BY <3>1 DEF LockLapses
  <2>4. Holding(s)'
    BY <1>1, <2>3 DEF Holding, InTurn, Id
  <2> QED
    BY <2>2, <2>4 DEF AttemptInv
<1>4. ASSUME NEW s \in Requests, NEW t \in Requests PROVE Alone(s, t)'
  BY <1>1 DEF IInv, Alone, InTurn, Id
<1> QED
  BY <1>2, <1>3, <1>4 DEF IInv

LEMMA PurgeKeeps == ASSUME IInv, TypeOK', NEW m \in Messages, PurgeMessage(m) PROVE IInv'
<1> USE DEF roomVars, rowVars, aiVars, adminVars, ghostVars
<1>1. /\ UNCHANGED <<turn, lapsed, text, request, overrun>> /\ status[m] # "NONE"
      /\ replies' \in {replies, replies \ {id[m]}} /\ purged' = purged \cup {m}
  BY DEF PurgeMessage
<1>2. /\ status'[m] = "NONE" /\ id'[m] = Nobody
      /\ \A n \in Messages \ {m} : status'[n] = status[n] /\ id'[n] = id[n]
  BY DEF PurgeMessage, IInv, TypeOK
<1>3. RowInv(m) /\ Nobody \notin Requests /\ id \in [Messages -> Requests \cup {Nobody}]
  BY SetsAssumption DEF IInv, TypeOK
<1>4. id[m] \in Requests /\ Message(id[m]) = m
  BY <1>1, <1>3 DEF RowInv
<1>5. ASSUME NEW n \in Messages PROVE RowInv(n)'
  <2>1. RowInv(n)
    BY DEF IInv
  <2>2. CASE n = m
    BY <1>2, <1>3, <2>2 DEF RowInv
  <2>3. CASE n # m
    <3>1. id[n] \in Requests => id[n] # id[m]
      BY <1>4, <2>1, <2>3 DEF RowInv
    <3>2. status'[n] = "ANSWERED" => id'[n] \in replies'
      BY <1>1, <1>2, <1>3, <2>1, <2>3, <3>1 DEF RowInv
    <3> QED
      BY <1>1, <1>2, <2>1, <2>3, <3>2 DEF RowInv, Message, Fresh, Id
  <2> QED
    BY <2>2, <2>3
<1>6. ASSUME NEW s \in Requests PROVE AttemptInv(s)'
  <2>1. AttemptInv(s) /\ Message(s) \in Messages
    BY DEF IInv, TypeOK, Message
  <2>2. IdKnown(s)' /\ Borrowed(s)' /\ Holding(s)' /\ Unanswered(s)'
    BY <1>1, <2>1 DEF AttemptInv, IdKnown, Borrowed, Holding, Unanswered, InTurn, Message, Fresh, Id
  <2>3. TextKept(s)' /\ ToldStands(s)'
    BY <1>1, <1>2, <1>3, <2>1 DEF AttemptInv, TextKept, ToldStands, Message, Id
  <2> QED
    BY <2>2, <2>3 DEF AttemptInv
<1>7. ASSUME NEW s \in Requests, NEW t \in Requests PROVE Alone(s, t)'
  BY <1>1 DEF IInv, Alone, InTurn, Id
<1> QED
  BY <1>5, <1>6, <1>7 DEF IInv

-----------------------------------------------------------------------------
(* The invariant, and what follows.                                            *)

LEMMA InitInv == Init => IInv
<1> SUFFICES ASSUME Init PROVE IInv
  OBVIOUS
<1>1. NewRequest \in Attempt /\ Nobody \notin Requests
  BY NewTypes, SetsAssumption
<1>2. \A r \in Requests : /\ request[r].pc = "idle" /\ Id(r) = Nobody /\ request[r].out = "none"
  BY DEF Init, NewRequest, Id
<1>3. TypeOK
  <2>1. request \in [Requests -> Attempt] /\ text \in [Messages -> Texts]
    BY <1>1, SetsAssumption DEF Init
  <2>2. /\ status \in [Messages -> {"NONE", "PROCESSING"} \cup Final]
        /\ id \in [Messages -> Requests \cup {Nobody}] /\ faults \in 0..MaxFaults
    BY BoundsAssumption DEF Init
  <2> QED
    BY <2>1, <2>2 DEF Init, TypeOK, Attempt
<1>4. \A m \in Messages : RowInv(m)
  BY <1>1 DEF Init, RowInv
<1>5. \A r \in Requests : AttemptInv(r)
  BY <1>1, <1>2 DEF AttemptInv, IdKnown, Borrowed, TextKept, Holding, Unanswered, ToldStands, InTurn,
     TurnPC, Final
<1>6. \A r, s \in Requests : Alone(r, s)
  BY <1>2 DEF Alone, InTurn, TurnPC
<1> QED
  BY <1>3, <1>4, <1>5, <1>6 DEF IInv

LEMMA Inductive == IInv /\ [Next]_vars => IInv'
<1> SUFFICES ASSUME IInv, [Next]_vars PROVE IInv'
  OBVIOUS
<1>1. TypeOK'
  BY TypeStep
<1>2. CASE UNCHANGED <<shared, request>>
  BY <1>1, <1>2, StutterKeeps
<1>3. ASSUME NEW r \in Requests, Request(r) PROVE IInv'
  <2>1. CASE RequestAdmin(r)
    BY <1>2, <2>1 DEF RequestAdmin, shared, roomVars, rowVars, ghostVars
  <2>2. CASE \E m \in Messages, t \in Texts : Send(r, m, t)
    BY <1>1, <2>2, SendKeeps
  <2>3. CASE Find(r) \/ Lock(r) \/ Insert(r) \/ SaveReply(r) \/ Release(r)
    BY <1>1, <2>3, FindKeeps, LockKeeps, InsertKeeps, SaveReplyKeeps, ReleaseKeeps
  <2>4. CASE Busy(r) \/ Repeat(r) \/ LocalError(r) \/ Crash(r)
    BY <1>1, <2>4, EndActions
  <2>5. CASE \/ Winner(r) \/ FindDelivery(r) \/ Replays(r) \/ Pends(r) \/ Reserves(r)
             \/ SettleCall(r) \/ CallFallsBack(r) \/ CallFails(r) \/ ApplyPolicy(r) \/ ReadMute(r)
             \/ SaveReplyFails(r) \/ Deliver(r) \/ Report(r) \/ \E a \in Answers : RespondWithoutAI(r, a)
    BY <1>1, <2>5, GoesOnActions
  <2> QED
    BY <1>3, <2>1, <2>2, <2>3, <2>4, <2>5 DEF Request, Replays, Pends, Reserves
<1>4. CASE LockLapses \/ \E m \in Messages : PurgeMessage(m)
  BY <1>1, <1>4, LapseKeeps, PurgeKeeps
<1>5. CASE \/ MuteExpires \/ ContextExpires \/ SendAdminMessage \/ MuteAfterReply \/ PauseBot
           \/ ResumeUnmutes \/ ResumeOpens \/ ResumeClears \/ UNCHANGED vars
  BY <1>2, <1>5 DEF MuteExpires, ContextExpires, SendAdminMessage, MuteAfterReply, PauseBot,
     ResumeUnmutes, ResumeOpens, ResumeClears, shared, vars, roomVars, rowVars, ghostVars
<1> QED
  BY <1>3, <1>4, <1>5 DEF Next, Environment

LEMMA Invariant == Spec => []IInv
BY InitInv, Inductive, PTL DEF Spec

\* The rows of the room, the lock and the locals of every attempt keep their types.
THEOREM TypeCorrect == Spec => []TypeOK
<1>1. IInv => TypeOK
  BY DEF IInv
<1> QED
  BY <1>1, Invariant, PTL

\* The lock of send: however many attempts, crashes, retries and lapses of the lock, two
\* attempts are in a turn together only if one outlasted its lock.
THEOREM OneTurnAtATimeAlways == Spec => []OneTurnAtATime
<1>1. IInv => OneTurnAtATime
  BY DEF IInv, AttemptInv, Holding, Alone, OneTurnAtATime
<1> QED
  BY <1>1, Invariant, PTL

\* send and result: all attempts that are told a result of a message are told of one row and
\* one text, and an answer that was told stands.
THEOREM AnswersStandAlways == Spec => []AnswersStand
<1>1. IInv => AnswersStand
  BY DEF IInv, AttemptInv, ToldStands, AnswersStand
<1> QED
  BY <1>1, Invariant, PTL

\* respond, in the turn that a retry shares with the first attempt: no AI call is reserved
\* for a message that has its answer, whatever the call would be made of.  The key does not
\* see to that, for a changed context is a new key; the reply that ends the turn does.
THEOREM NoCallAfterAnswerAlways == Spec => NoCallAfterAnswer
<1> DEFINE Late == \A k \in held' \ held :
                     \A m \in Messages : id[m] = k[1] => status[m] # "ANSWERED" \/ k[1] \in overrun
<1>1. IInv /\ [Next]_vars => [Late]_vars
  <2> SUFFICES ASSUME IInv, Next PROVE Late
    BY DEF vars
  <2>1. (\E r \in Requests : Reserves(r)) \/ held' \subseteq held
    BY DEF Next, Request, Environment, Send, Find, Lock, Busy, Insert, Winner, FindDelivery, RequestAdmin,
       RespondWithoutAI, Reserves, ReplayAnswer, AnswerPending, SettleCall, HeldAfter, CallFallsBack,
       CallFails, ApplyPolicy, ReadMute, SaveReply, SaveReplyFails, Deliver, Report, Release, Repeat,
       LocalError, Crash, LockLapses, MuteExpires, ContextExpires, PurgeMessage, SendAdminMessage,
       MuteAfterReply, PauseBot, ResumeUnmutes, ResumeOpens, ResumeClears, aiVars
  <2>2. ASSUME NEW r \in Requests, NEW q \in Prompts, ReserveCall(r, q) PROVE Late
    <3>1. Unanswered(r) /\ held' = held \cup {<<Id(r), q>>} /\ request[r].pc = "respond"
      BY <2>2 DEF IInv, AttemptInv, ReserveCall, At
    <3>2. Id(r) \in replies => Id(r) \in overrun
      BY <3>1 DEF Unanswered
    <3>3. \A m \in Messages : status[m] = "ANSWERED" => id[m] \in replies
      BY DEF IInv, RowInv
    <3> QED
      BY <3>1, <3>2, <3>3
  <2> QED
    BY <2>1, <2>2 DEF Reserves
<1> QED
  BY <1>1, Invariant, PTL DEF Spec, NoCallAfterAnswer

=============================================================================
