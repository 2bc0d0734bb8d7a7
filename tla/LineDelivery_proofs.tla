------------------------- MODULE LineDelivery_proofs -------------------------
(* Machine-checked facts about LineDelivery, for any number of messages,      *)
(* workers, attempts, faults and days.                                        *)
EXTENDS LineDelivery, TLAPS

Row == [status : RowStatus, method : {"REPLY", "PUSH"}, owner : Workers \cup {Nobody},
        lapsed : BOOLEAN, attempts : Nat, due : BOOLEAN,
        age : {"none", "fresh", "old", "gone"}, at : Nat, done : BOOLEAN]
Local == [pc : PC, id : Deliveries, seen : {"pending", "REPLY", "PUSH", "other"},
          token : BOOLEAN, pushing : BOOLEAN, err : {"none", "reject", "unknown", "retry"},
          quiet : BOOLEAN]

-----------------------------------------------------------------------------
(* The inductive invariant.                                                   *)

Past(w)  == worker[w].pc \notin {"idle", "claim"}
\* A worker that read the row while it waited, and got it.
First(w) == worker[w].seen = "pending" /\ Past(w)

\* What a worker read of the row still tells what its claim may find.
SeenStands(w) == At(w, "claim") =>
    /\ worker[w].seen = "pending" /\ row[Id(w)].status = "SENDING" => ~row[Id(w)].lapsed
    /\ worker[w].seen = "PUSH" => row[Id(w)].method = "PUSH"
    /\ worker[w].seen = "other" => row[Id(w)].status \in {"FAILED", "UNKNOWN"}

\* The reply token is only used for a row that was never pushed.
TokensReply(w) ==
    worker[w].pc = "reply" \/ (worker[w].pc = "check" /\ worker[w].token) =>
      row[Id(w)].method = "REPLY" /\ ~worker[w].pushing /\ worker[w].seen = "pending"

\* A push is under way while LINE remembers its key.
PushesRemembered(w) == worker[w].pc \in {"mute", "push"} =>
    row[Id(w)].method = "PUSH" /\ row[Id(w)].age \in {"fresh", "old"}

\* An attempt that goes on has met no error.
ErrorsEnd(w) == worker[w].pc \notin {"drop", "fail"} => worker[w].err = "none"

AcceptsShown(w) == worker[w].pc = "accept" => shown[Id(w)] = 1

\* Whoever claims a row again whose reply was interrupted, gives it up.
LatersFail(w) == Past(w) /\ worker[w].seen # "pending" /\ row[Id(w)].method = "REPLY" =>
    /\ worker[w].pc \in {"fail", "history", "append", "mark"}
    /\ worker[w].err # "retry"

\* Whoever used the token of a row does not push it.
RepliersStop(w) == First(w) /\ Id(w) \in usedTokens =>
    /\ worker[w].pc \in {"accept", "fail", "history", "append", "mark"}
    /\ ~worker[w].pushing
    /\ worker[w].err # "retry"

WorkerInv(w) == /\ SeenStands(w) /\ ErrorsEnd(w) /\ TokensReply(w)
                /\ PushesRemembered(w) /\ AcceptsShown(w)
                /\ LatersFail(w) /\ RepliersStop(w)

\* A message is shown by its token or by its key, at most once.
ShownOnce(id) ==
    /\ shown[id] \in {0, 1}
    /\ id \in usedTokens \cup keys => shown[id] = 1
    /\ shown[id] = 1 => id \in usedTokens \cup keys \/ row[id].age = "gone"
    /\ id \in usedTokens => row[id].method = "REPLY"
    /\ row[id].method = "REPLY" => id \notin keys /\ row[id].age = "none"

\* A row that was never claimed has no worker, and one that may be replied to has one.
FirstIsAlone(id) ==
    /\ row[id].status = "NONE" => /\ shown[id] = 0
                                  /\ \A w \in Workers : Id(w) = id => At(w, "idle")
    /\ row[id].status = "PENDING" /\ row[id].method = "REPLY" =>
         id \notin usedTokens /\ \A w \in Workers : Id(w) = id => ~Past(w)
    /\ row[id].method = "REPLY" =>
         \A v, w \in Workers : First(v) /\ First(w) /\ Id(v) = id /\ Id(w) = id => v = w

\* quiet remembers a mute that still stands.
QuietIsMuted(w) ==
    /\ worker[w].quiet => muted
    /\ worker[w].pc \in {"reply", "push"} /\ Id(w) \notin AdminDeliveries => ~worker[w].quiet

IInv == /\ TypeOK
        /\ \A w \in Workers : WorkerInv(w) /\ QuietIsMuted(w)
        /\ \A id \in Deliveries : ShownOnce(id) /\ FirstIsAlone(id)
-----------------------------------------------------------------------------
(* Types.                                                                     *)

LEMMA IdleTypes == Idle \in Local
BY SetsAssumption DEF Idle, Local, PC

LEMMA LocalTypes ==
  ASSUME TypeOK, NEW w \in Workers
  PROVE  /\ \A pc \in PC : Goto(w, pc) => worker' \in [Workers -> Local]
         /\ Done(w) => worker' \in [Workers -> Local]
         /\ TryPush(w) => worker' \in [Workers -> Local]
         /\ \A err \in {"none", "reject", "unknown", "retry"} :
              Drop(w, err) \/ Throw(w, err) => worker' \in [Workers -> Local]
<1>1. worker \in [Workers -> Local] /\ worker[w] \in Local
  BY DEF TypeOK, Local
<1>2. \A pc \in PC : Goto(w, pc) => worker' \in [Workers -> Local]
  BY <1>1 DEF Goto, Local
<1>3. Done(w) => worker' \in [Workers -> Local]
  <2>1. Idle \in Local
    BY <1>1, IdleTypes DEF Local
  <2> QED
    BY <1>1, <2>1 DEF Done
<1>4. TryPush(w) => worker' \in [Workers -> Local]
  <2>1. [worker[w] EXCEPT !.pc = "toPush", !.pushing = TRUE] \in Local
    BY <1>1, Zenon DEF Local, PC
  <2>2. TryPush(w) => worker' = [worker EXCEPT ![w] = [worker[w] EXCEPT !.pc = "toPush", !.pushing = TRUE]]
    BY <1>1 DEF TryPush
  <2> QED
    BY <1>1, <2>1, <2>2
<1>5. \A err \in {"none", "reject", "unknown", "retry"} :
              Drop(w, err) \/ Throw(w, err) => worker' \in [Workers -> Local]
  BY <1>1 DEF Drop, Throw, Local, PC
<1> QED
  BY <1>2, <1>3, <1>4, <1>5

LEMMA RowForms ==
  ASSUME TypeOK, NEW r \in Row
  PROVE  /\ [r EXCEPT !.status = "PENDING"] \in Row
         /\ [r EXCEPT !.status = "PENDING", !.method = "PUSH"] \in Row
         /\ \A w \in Workers : [r EXCEPT !.status = "SENDING", !.owner = w, !.lapsed = FALSE,
                                         !.attempts = r.attempts + 1] \in Row
         /\ [r EXCEPT !.method = "PUSH", !.age = "fresh"] \in Row
         /\ [r EXCEPT !.status = "ACCEPTED", !.owner = Nobody, !.lapsed = FALSE, !.at = clock + 1] \in Row
         /\ \A s \in RowStatus, m \in {"REPLY", "PUSH"} :
              [r EXCEPT !.status = s, !.owner = Nobody, !.lapsed = FALSE, !.due = FALSE, !.method = m] \in Row
         /\ \A b \in BOOLEAN : /\ [r EXCEPT !.done = b] \in Row
                               /\ [r EXCEPT !.lapsed = b] \in Row
                               /\ [r EXCEPT !.due = b] \in Row
         /\ \A a \in {"none", "fresh", "old", "gone"} : [r EXCEPT !.age = a] \in Row
<1>1. r.attempts + 1 \in Nat /\ clock + 1 \in Nat
  BY DEF TypeOK, Row
<1>2. \A n \in Nat, w \in Workers :
        [r EXCEPT !.status = "SENDING", !.owner = w, !.lapsed = FALSE, !.attempts = n] \in Row
  BY Zenon DEF Row, RowStatus
<1>3. \A n \in Nat :
        [r EXCEPT !.status = "ACCEPTED", !.owner = Nobody, !.lapsed = FALSE, !.at = n] \in Row
  BY Zenon DEF Row, RowStatus
<1>4. /\ [r EXCEPT !.status = "PENDING"] \in Row
      /\ [r EXCEPT !.status = "PENDING", !.method = "PUSH"] \in Row
      /\ [r EXCEPT !.method = "PUSH", !.age = "fresh"] \in Row
  BY Zenon DEF Row, RowStatus
<1>5. \A s \in RowStatus, m \in {"REPLY", "PUSH"} :
        [r EXCEPT !.status = s, !.owner = Nobody, !.lapsed = FALSE, !.due = FALSE, !.method = m] \in Row
  BY Zenon DEF Row, RowStatus
<1>6. \A b \in BOOLEAN : /\ [r EXCEPT !.done = b] \in Row
                         /\ [r EXCEPT !.lapsed = b] \in Row
                         /\ [r EXCEPT !.due = b] \in Row
  BY Zenon DEF Row
<1>7. \A a \in {"none", "fresh", "old", "gone"} : [r EXCEPT !.age = a] \in Row
  BY Zenon DEF Row
<1> QED
  BY <1>1, <1>2, <1>3, <1>4, <1>5, <1>6, <1>7

LEMMA RowWrites ==
  ASSUME TypeOK, NEW id \in Deliveries, NEW r \in Row, row' = [row EXCEPT ![id] = r]
  PROVE  row' \in [Deliveries -> Row]
BY DEF TypeOK, Row

LEMMA RowTypes == TypeOK /\ [Next]_vars => row' \in [Deliveries -> Row]
<1> SUFFICES ASSUME TypeOK, [Next]_vars PROVE row' \in [Deliveries -> Row]
  OBVIOUS
<1>1. row \in [Deliveries -> Row] /\ \A w \in Workers : Id(w) \in Deliveries
  BY DEF TypeOK, Row, Id
<1>2. ASSUME UNCHANGED row PROVE row' \in [Deliveries -> Row]
  BY <1>1, <1>2
<1>3. ASSUME NEW id \in Deliveries, NEW fresh \in BOOLEAN, SaveReply(id, fresh)
      PROVE  row' \in [Deliveries -> Row]
  <2>1. row' = [row EXCEPT ![id] = [row[id] EXCEPT !.status = "PENDING"]]
    BY <1>1, <1>3 DEF SaveReply
  <2> QED
    BY <1>1, <2>1, RowForms, RowWrites
<1>4. ASSUME NEW id \in Deliveries, SendAdminMessage(id) PROVE row' \in [Deliveries -> Row]
  <2>1. row' = [row EXCEPT ![id] = [row[id] EXCEPT !.status = "PENDING", !.method = "PUSH"]]
    BY <1>1, <1>4 DEF SendAdminMessage
  <2> QED
    BY <1>1, <2>1, RowForms, RowWrites
<1>5. ASSUME NEW id \in Deliveries, Time(id) PROVE row' \in [Deliveries -> Row]
  <2>1. \/ UNCHANGED row
        \/ row' = [row EXCEPT ![id] = [row[id] EXCEPT !.lapsed = TRUE]]
        \/ row' = [row EXCEPT ![id] = [row[id] EXCEPT !.due = TRUE]]
        \/ row' = [row EXCEPT ![id] = [row[id] EXCEPT !.age = "old"]]
        \/ row' = [row EXCEPT ![id] = [row[id] EXCEPT !.age = "gone"]]
    BY <1>1, <1>5 DEF Time, LeaseLapses, BecomesDue, TokenExpires, KeyNearsExpiry, KeyForgotten
  <2> QED
    BY <1>1, <2>1, RowForms, RowWrites
<1>6. ASSUME NEW w \in Workers, Claim(w) PROVE row' \in [Deliveries -> Row]
  <2> DEFINE r == row[Id(w)]
  <2>1. row' = [row EXCEPT ![Id(w)] = [r EXCEPT !.status = "SENDING", !.owner = w, !.lapsed = FALSE,
                                                !.attempts = r.attempts + 1]]
    BY <1>1, <1>6 DEF Claim
  <2> QED
    BY <1>1, <2>1, RowForms, RowWrites
<1>7. ASSUME NEW w \in Workers, SwitchToPush(w) PROVE row' \in [Deliveries -> Row]
  <2>1. \/ UNCHANGED row
        \/ row' = [row EXCEPT ![Id(w)] = [row[Id(w)] EXCEPT !.method = "PUSH", !.age = "fresh"]]
    BY <1>1, <1>7 DEF SwitchToPush
  <2> QED
    BY <1>1, <2>1, RowForms, RowWrites
<1>8. ASSUME NEW w \in Workers, AcceptWrites(w) PROVE row' \in [Deliveries -> Row]
  <2>1. row' = [row EXCEPT ![Id(w)] = [row[Id(w)] EXCEPT !.status = "ACCEPTED", !.owner = Nobody,
                                         !.lapsed = FALSE, !.at = clock + 1]]
    BY <1>1, <1>8 DEF AcceptWrites, MarkAccepted
  <2> QED
    BY <1>1, <2>1, RowForms, RowWrites
<1>9. ASSUME NEW w \in Workers, FinishAttempt(w) PROVE row' \in [Deliveries -> Row]
  <2> DEFINE m == IF worker[w].err = "retry" THEN "PUSH" ELSE row[Id(w)].method
  <2>1. \/ UNCHANGED row
        \/ row' = [row EXCEPT ![Id(w)] = [row[Id(w)] EXCEPT !.status = NextStatus(w), !.owner = Nobody,
                                            !.lapsed = FALSE, !.due = FALSE, !.method = m]]
    BY <1>1, <1>9 DEF FinishAttempt
  <2>2. NextStatus(w) \in RowStatus /\ m \in {"REPLY", "PUSH"}
    BY <1>1 DEF NextStatus, RowStatus, Row
  <2> HIDE DEF m
  <2> QED
    BY <1>1, <2>1, <2>2, RowForms, RowWrites
<1>10. ASSUME NEW w \in Workers, MarkFinalized(w) PROVE row' \in [Deliveries -> Row]
  <2>1. row' = [row EXCEPT ![Id(w)] = [row[Id(w)] EXCEPT !.done = TRUE]]
    BY <1>1, <1>10 DEF MarkFinalized
  <2> QED
    BY <1>1, <2>1, RowForms, RowWrites
<1>11. ASSUME NEW w \in Workers, Attempt(w) PROVE row' \in [Deliveries -> Row]
  <2>1. \/ Claim(w) \/ SwitchToPush(w) \/ AcceptWrites(w) \/ FinishAttempt(w) \/ MarkFinalized(w)
        \/ UNCHANGED row
    BY <1>11 DEF Attempt, ClaimLost, Check, ReplyAccepted, ReplyFallsBack, ReplyRejected,
         ReplyUnanswered, Mute, CheckAgain, PushAccepted, PushRejected, PushUnanswered, Accept,
         AcceptLost, AcceptUnacknowledged, LocalError, SaveHistory, AppendTurn
  <2> QED
    BY <2>1, <1>2, <1>6, <1>7, <1>8, <1>9, <1>10
<1> QED
  BY <1>2, <1>3, <1>4, <1>5, <1>11 DEF Next, vars, Recover, Deliver, Begin, Abandon, MuteExpires,
    RequestAdmin, ResumeUnmutes, ResumeOpens, ResumeClears, ResumeFails, CustomerMessage

LEMMA BeginTypes ==
  ASSUME TypeOK, NEW w \in Workers, NEW id \in Deliveries, Begin(w, id)
  PROVE  worker' \in [Workers -> Local]
<1>1. worker \in [Workers -> Local] /\ row[id] \in Row
  BY DEF TypeOK, Local, Row
<1>2. Idle \in Local
  BY IdleTypes
<1>3. \A pc \in PC, seen \in {"pending", "REPLY", "PUSH", "other"} :
        [Idle EXCEPT !.id = id, !.pc = pc, !.seen = seen] \in Local
  BY <1>2, Zenon DEF Local
<1>4. row[id].method \in {"REPLY", "PUSH"} /\ "history" \in PC /\ "claim" \in PC
  BY <1>1 DEF Row, PC
<1> DEFINE seen == CASE row[id].status = "PENDING" -> "pending"
                     [] row[id].status = "SENDING" -> row[id].method
                     [] OTHER -> "other"
           pc == IF row[id].status = "ACCEPTED" THEN "history" ELSE "claim"
<1>5. seen \in {"pending", "REPLY", "PUSH", "other"} /\ pc \in PC
  BY <1>4
<1>6. worker' = [worker EXCEPT ![w] = [Idle EXCEPT !.id = id, !.pc = pc, !.seen = seen]]
  BY DEF Begin
<1> HIDE DEF seen, pc
<1> QED
  BY <1>1, <1>3, <1>5, <1>6

LEMMA ClaimTypes ==
  ASSUME TypeOK, NEW w \in Workers, Claim(w)
  PROVE  worker' \in [Workers -> Local]
<1>1. worker \in [Workers -> Local] /\ worker[w] \in Local /\ muted \in BOOLEAN
  BY DEF TypeOK, Local
<1> DEFINE t == row[Id(w)].method = "REPLY" /\ Id(w) \in live
           p == row[Id(w)].method = "PUSH"
<1>2. AfterClaim(w).pc \in PC /\ AfterClaim(w).err \in {"none", "reject", "unknown", "retry"}
  BY DEF AfterClaim, PC
<1>3. t \in BOOLEAN /\ p \in BOOLEAN
  OBVIOUS
<1>4. worker' = [worker EXCEPT ![w] = [worker[w] EXCEPT !.pc = AfterClaim(w).pc,
         !.err = AfterClaim(w).err, !.token = t, !.pushing = p, !.quiet = muted]]
  BY <1>1 DEF Claim
<1> HIDE DEF t, p
<1> QED
  <2>1. [worker[w] EXCEPT !.pc = AfterClaim(w).pc, !.err = AfterClaim(w).err,
           !.token = t, !.pushing = p, !.quiet = muted] \in Local
    BY <1>1, <1>2, <1>3, Zenon DEF Local
  <2> QED
    BY <1>1, <1>4, <2>1

LEMMA WorkerTypes == TypeOK /\ [Next]_vars => worker' \in [Workers -> Local]
<1> SUFFICES ASSUME TypeOK, [Next]_vars PROVE worker' \in [Workers -> Local]
  OBVIOUS
<1>1. worker \in [Workers -> Local]
  BY DEF TypeOK, Local
<1>2. ASSUME UNCHANGED worker PROVE worker' \in [Workers -> Local]
  BY <1>1, <1>2
<1>3. ASSUME Unmute PROVE worker' \in [Workers -> Local]
  <2>1. \A w \in Workers : [worker[w] EXCEPT !.quiet = FALSE] \in Local
    BY <1>1, Zenon DEF Local
  <2> QED
    BY <1>3, <2>1 DEF Unmute
<1>4. ASSUME NEW w \in Workers, Attempt(w) \/ Abandon(w) PROVE worker' \in [Workers -> Local]
  <2>1. \/ \E pc \in PC : Goto(w, pc)
        \/ Done(w) \/ TryPush(w) \/ Claim(w)
        \/ \E err \in {"none", "reject", "unknown", "retry"} : Drop(w, err) \/ Throw(w, err)
    BY <1>4 DEF Attempt, ClaimLost, Check, ReplyAccepted, ReplyFallsBack, ReplyRejected,
         ReplyUnanswered, SwitchToPush, Mute, CheckAgain, PushAccepted, PushRejected, PushUnanswered,
         Accept, AcceptLost, AcceptUnacknowledged, LocalError, FinishAttempt, SaveHistory,
         AppendTurn, MarkFinalized, Abandon, ThrowLocal, PC
  <2> QED
    BY <2>1, ClaimTypes, LocalTypes
<1>5. Sweeper \in Workers
  BY DEF Workers
<1> QED
  BY <1>2, <1>3, <1>4, <1>5, BeginTypes DEF Next, vars, Recover, Deliver, Time, SaveReply,
    SendAdminMessage, LeaseLapses, BecomesDue, TokenExpires, KeyNearsExpiry, KeyForgotten,
    MuteExpires, RequestAdmin, ResumeUnmutes, ResumeOpens, ResumeClears, ResumeFails, CustomerMessage

RestOK ==
    /\ live \subseteq Deliveries /\ usedTokens \subseteq Deliveries /\ keys \subseteq Deliveries
    /\ shown \in [Deliveries -> Nat]
    /\ history \subseteq Deliveries /\ context \subseteq Deliveries
    /\ muted \in BOOLEAN /\ status \in {"open", "waiting_admin"}
    /\ resume \in {"none", "open", "clear"}
    /\ preview \in Nat /\ clock \in Nat
    /\ inbox \in 0..MaxMessages /\ resumes \in 0..MaxResumes /\ faults \in 0..MaxFaults

LEMMA RestTypes == TypeOK /\ [Next]_vars => RestOK'
<1> SUFFICES ASSUME TypeOK, [Next]_vars PROVE RestOK'
  OBVIOUS
<1> USE BoundsAssumption DEF RestOK, lineVars, gateVars, logVars, resumeVars, timeVars, roomVars, vars
<1>1. RestOK /\ row \in [Deliveries -> Row] /\ \A w \in Workers : Id(w) \in Deliveries
  BY DEF TypeOK, Row, Id
<1>2. \A id \in Deliveries : row[id].at \in Nat
  BY <1>1 DEF Row
<1>3. ASSUME NEW w \in Workers, Attempt(w) \/ Abandon(w) PROVE RestOK'
  <2>1. CASE ReplyAccepted(w) \/ ReplyUnanswered(w)
    BY <1>1, <2>1 DEF ReplyAccepted, ReplyUnanswered
  <2>2. CASE PushAccepted(w) \/ PushUnanswered(w)
    BY <1>1, <2>2 DEF PushAccepted, PushUnanswered, TakePush
  <2>3. CASE Accept(w) \/ AcceptUnacknowledged(w)
    BY <1>1, <2>3 DEF Accept, AcceptUnacknowledged, AcceptWrites, Fault
  <2>4. CASE SaveHistory(w)
    BY <1>1, <1>2, <2>4 DEF SaveHistory, ShownPreview
  <2>5. CASE AppendTurn(w)
    BY <1>1, <2>5 DEF AppendTurn
  <2>6. CASE Mute(w)
    BY <1>1, <2>6 DEF Mute
  <2>7. CASE LocalError(w) \/ Abandon(w)
    BY <1>1, <2>7 DEF LocalError, Abandon, Fault
  <2> QED
    BY <1>1, <1>3, <2>1, <2>2, <2>3, <2>4, <2>5, <2>6, <2>7 DEF Attempt, ClaimLost, Claim, Check,
       ReplyFallsBack, ReplyRejected, SwitchToPush, CheckAgain, PushRejected, AcceptLost,
       FinishAttempt, MarkFinalized
<1>4. ASSUME NEW id \in Deliveries, Time(id) PROVE RestOK'
  BY <1>1, <1>4 DEF Time, LeaseLapses, BecomesDue, TokenExpires, KeyNearsExpiry, KeyForgotten, Fault
<1>5. ASSUME MuteExpires \/ RequestAdmin \/ ResumeUnmutes \/ ResumeOpens \/ ResumeClears \/ ResumeFails
      PROVE  RestOK'
  <2>1. CASE MuteExpires
    BY <1>1, <2>1 DEF MuteExpires, Unmute
  <2>4. CASE ResumeUnmutes
    <3>1. /\ resumes < MaxResumes /\ resumes' = resumes + 1 /\ muted' = FALSE /\ resume' = "open"
          /\ UNCHANGED <<live, lineVars, status, logVars, timeVars, faults>>
      BY <2>4 DEF ResumeUnmutes, Unmute
    <3>2. resumes' \in 0..MaxResumes
      BY <1>1, <3>1
    <3> QED
      BY <1>1, <3>1, <3>2
  <2>2. CASE RequestAdmin \/ ResumeOpens \/ ResumeClears
    BY <1>1, <2>2 DEF RequestAdmin, ResumeOpens, ResumeClears
  <2>3. CASE ResumeFails
    BY <1>1, <2>3 DEF ResumeFails, Fault
  <2> QED
    BY <1>5, <2>1, <2>2, <2>3, <2>4
<1>6. ASSUME NEW t \in 0..clock + 1, CustomerMessage(t) PROVE RestOK'
  BY <1>1, <1>6 DEF CustomerMessage
<1> QED
  BY <1>1, <1>3, <1>4, <1>5, <1>6 DEF Next, Recover, Deliver, Begin, SaveReply, SendAdminMessage

LEMMA TypeStep == TypeOK /\ [Next]_vars => TypeOK'
BY RowTypes, WorkerTypes, RestTypes DEF TypeOK, Row, Local, RestOK

-----------------------------------------------------------------------------
(* What a step leaves to the workers and rows it is not about.                *)

\* The step is not v's, and leaves alone what v relies on.
Undisturbed(v) ==
    /\ worker'[v] = worker[v]
    /\ row[Id(v)].method = "PUSH" => row'[Id(v)].method = "PUSH"
    /\ row[Id(v)].status \in {"FAILED", "UNKNOWN"} => row'[Id(v)].status = row[Id(v)].status
    /\ row'[Id(v)].status = "SENDING" /\ row'[Id(v)].lapsed =>
         \/ row[Id(v)].status = "SENDING" /\ row[Id(v)].lapsed
         \/ worker[v].pc # "claim" \/ worker[v].seen # "pending"
    /\ row[Id(v)].age \in {"fresh", "old"} =>
         row'[Id(v)].age \in {"fresh", "old"} \/ worker[v].pc \notin {"mute", "push"}
    /\ shown[Id(v)] = 1 => shown'[Id(v)] = 1
    /\ First(v) => /\ row[Id(v)].method = "REPLY" => row'[Id(v)].method = "REPLY"
                   /\ Id(v) \in usedTokens' => Id(v) \in usedTokens

LEMMA OthersKeep ==
  ASSUME TypeOK, TypeOK', NEW v \in Workers, WorkerInv(v), Undisturbed(v)
  PROVE  WorkerInv(v)'
<1>1. /\ Id(v) \in Deliveries
      /\ row[Id(v)].method \in {"REPLY", "PUSH"} /\ row'[Id(v)].method \in {"REPLY", "PUSH"}
  BY DEF TypeOK, Id
<1>2. worker'[v] = worker[v] /\ Id(v)' = Id(v)
  BY DEF Undisturbed, Id
<1>3. SeenStands(v)'
  BY <1>1, <1>2 DEF WorkerInv, SeenStands, Undisturbed, At
<1>4. ErrorsEnd(v)' /\ AcceptsShown(v)'
  BY <1>2 DEF WorkerInv, ErrorsEnd, AcceptsShown, Undisturbed
<1>5. TokensReply(v)'
  BY <1>1, <1>2 DEF WorkerInv, TokensReply, Undisturbed, First, Past
<1>6. PushesRemembered(v)'
  BY <1>1, <1>2 DEF WorkerInv, PushesRemembered, Undisturbed
<1>7. LatersFail(v)'
  BY <1>1, <1>2 DEF WorkerInv, LatersFail, Undisturbed, Past
<1>8. RepliersStop(v)'
  BY <1>1, <1>2 DEF WorkerInv, RepliersStop, Undisturbed, First, Past
<1> QED
  BY <1>3, <1>4, <1>5, <1>6, <1>7, <1>8 DEF WorkerInv

\* v works on a row that exists, and takes up no answer that another may send.
Follows(v) ==
    /\ worker'[v].pc # "idle" => row'[Id(v)'].status # "NONE"
    /\ Past(v)' /\ row'[Id(v)'].status = "PENDING" /\ row'[Id(v)'].method = "REPLY" =>
         Past(v) /\ Id(v)' = Id(v)
    /\ First(v)' /\ row'[Id(v)'].method = "REPLY" => First(v) /\ Id(v)' = Id(v)

\* A row keeps what it has gone through.
Ages(id) ==
    /\ row'[id].status = "NONE" => shown'[id] = 0
    /\ row'[id].method = "REPLY" => row[id].method = "REPLY"
    /\ row'[id].status = "PENDING" /\ row'[id].method = "REPLY" =>
         row[id].status \in {"NONE", "PENDING"} /\ (id \in usedTokens' => id \in usedTokens)

LEMMA AloneKeeps ==
  ASSUME IInv, NEW id \in Deliveries, Ages(id), \A v \in Workers : Follows(v)
  PROVE  FirstIsAlone(id)'
<1>1. FirstIsAlone(id) /\ ShownOnce(id)
  BY DEF IInv
<1>2. row'[id].status = "NONE" => /\ shown'[id] = 0
                                  /\ \A v \in Workers : Id(v)' = id => At(v, "idle")'
  BY DEF Ages, Follows, At
<1>3. ASSUME row'[id].status = "PENDING", row'[id].method = "REPLY", NEW v \in Workers, Id(v)' = id
      PROVE  ~Past(v)'
  BY <1>1, <1>3 DEF FirstIsAlone, Ages, Follows, Past, At
<1>4. row'[id].status = "PENDING" /\ row'[id].method = "REPLY" => id \notin usedTokens'
  BY <1>1 DEF FirstIsAlone, ShownOnce, Ages
<1>5. ASSUME row'[id].method = "REPLY", NEW v \in Workers, NEW w \in Workers,
             First(v)', First(w)', Id(v)' = id, Id(w)' = id
      PROVE  v = w
  BY <1>1, <1>5 DEF FirstIsAlone, Ages, Follows
<1> QED
  BY <1>2, <1>3, <1>5, <1>4 DEF FirstIsAlone

\* A step that only takes one worker further.
LEMMA LocalStep ==
  ASSUME IInv, TypeOK', NEW w \in Workers, UNCHANGED <<row, usedTokens, keys, shown>>,
         \A v \in Workers \ {w} : worker'[v] = worker[v],
         muted => muted', WorkerInv(w)', QuietIsMuted(w)', Follows(w)
  PROVE  IInv'
<1>1. TypeOK
  BY DEF IInv
<1>2. ASSUME NEW v \in Workers \ {w} PROVE WorkerInv(v)' /\ QuietIsMuted(v)' /\ Follows(v)
  <2>1. WorkerInv(v) /\ QuietIsMuted(v) /\ worker'[v] = worker[v] /\ Id(v) \in Deliveries
    BY <1>1 DEF IInv, TypeOK, Id
  <2>2. Undisturbed(v)
    BY <2>1 DEF Undisturbed
  <2>3. WorkerInv(v)'
    BY <1>1, <2>1, <2>2, OthersKeep
  <2>4. QuietIsMuted(v)'
    BY <2>1 DEF QuietIsMuted, Id
  <2>5. Follows(v)
    BY <2>1 DEF Follows, IInv, FirstIsAlone, At, Id, First, Past
  <2> QED
    BY <2>3, <2>4, <2>5
<1>3. \A id \in Deliveries : FirstIsAlone(id)'
  <2>1. \A v \in Workers : Follows(v)
    BY <1>2
  <2>2. \A id \in Deliveries : Ages(id)
    BY DEF Ages, IInv, FirstIsAlone
  <2> QED
    BY <2>1, <2>2, AloneKeeps
<1>4. \A id \in Deliveries : ShownOnce(id)'
  BY DEF IInv, ShownOnce
<1> QED
  BY <1>2, <1>3, <1>4 DEF IInv

LEMMA StopKeeps ==
  ASSUME IInv, TypeOK', NEW w \in Workers, UNCHANGED <<row, usedTokens, keys, shown, muted>>, Done(w)
  PROVE  IInv'
<1>1. worker'[w] = Idle /\ \A v \in Workers \ {w} : worker'[v] = worker[v]
  BY DEF Done, IInv, TypeOK
<1>2. WorkerInv(w)' /\ QuietIsMuted(w)' /\ Follows(w)
  BY <1>1 DEF Idle, WorkerInv, SeenStands, ErrorsEnd, TokensReply, PushesRemembered, AcceptsShown,
     LatersFail, RepliersStop, QuietIsMuted, Follows, First, Past, At
<1> QED
  BY <1>1, <1>2, LocalStep

\* An attempt whose call failed, or that gives its row up.
LEMMA FailKeeps ==
  ASSUME IInv, TypeOK', NEW w \in Workers, Past(w), UNCHANGED <<row, usedTokens, keys, shown, muted>>,
         NEW pc \in {"drop", "fail"}, NEW err \in {"reject", "unknown", "retry"},
         worker' = [worker EXCEPT ![w] = [worker[w] EXCEPT !.pc = pc, !.err = err]],
         row[Id(w)].method = "REPLY" /\ (worker[w].seen # "pending" \/ Id(w) \in usedTokens) =>
           pc = "fail" /\ err # "retry"
  PROVE  IInv'
<1>1. /\ worker'[w].pc = pc /\ worker'[w].err = err /\ worker'[w].seen = worker[w].seen
      /\ worker'[w].pushing = worker[w].pushing /\ worker'[w].quiet = worker[w].quiet
      /\ Id(w)' = Id(w) /\ Id(w) \in Deliveries
      /\ \A v \in Workers \ {w} : worker'[v] = worker[v]
  BY DEF IInv, TypeOK, Id
<1>2. QuietIsMuted(w)'
  BY <1>1 DEF IInv, QuietIsMuted
<1>3. Follows(w)
  BY <1>1 DEF IInv, FirstIsAlone, Follows, First, Past, At, Id
<1>4. WorkerInv(w)'
  BY <1>1 DEF IInv, ShownOnce, WorkerInv, SeenStands, ErrorsEnd, TokensReply, PushesRemembered, AcceptsShown,
     LatersFail, RepliersStop, First, Past, At
<1> QED
  BY <1>1, <1>2, <1>3, <1>4, LocalStep

\* An attempt that goes on.
LEMMA GoKeeps ==
  ASSUME IInv, TypeOK', NEW w \in Workers, Past(w), UNCHANGED <<row, usedTokens, keys, shown>>,
         muted => muted',
         NEW pc \in {"reply", "toPush", "mute", "push", "append", "mark"}, NEW pushing,
         worker' = [worker EXCEPT ![w] = [worker[w] EXCEPT !.pc = pc, !.pushing = pushing]],
         worker[w].pc \notin {"drop", "fail"},
         pc \in {"reply", "push"} /\ Id(w) \notin AdminDeliveries => ~muted,
         pc = "reply" => worker[w].pc = "check" /\ worker[w].token /\ ~pushing,
         pc \in {"mute", "push"} => worker[w].pc = "mute",
         pc = "toPush" => worker[w].pc \in {"check", "reply"},
         pc \in {"append", "mark"} => worker[w].pc \in {"history", "append"} /\ pushing = worker[w].pushing
  PROVE  IInv'
<1>1. /\ worker'[w].pc = pc /\ worker'[w].err = worker[w].err /\ worker'[w].seen = worker[w].seen
      /\ worker'[w].pushing = pushing /\ worker'[w].quiet = worker[w].quiet
      /\ worker'[w].token = worker[w].token
      /\ Id(w)' = Id(w) /\ Id(w) \in Deliveries
      /\ \A v \in Workers \ {w} : worker'[v] = worker[v]
  BY DEF IInv, TypeOK, Id
<1>2. QuietIsMuted(w)'
  BY <1>1 DEF IInv, QuietIsMuted
<1>3. Follows(w)
  BY <1>1 DEF IInv, FirstIsAlone, Follows, First, Past, At, Id
<1>4. WorkerInv(w)'
  BY <1>1 DEF IInv, ShownOnce, WorkerInv, SeenStands, ErrorsEnd, TokensReply, PushesRemembered, AcceptsShown,
     LatersFail, RepliersStop, First, Past, At
<1> QED
  BY <1>1, <1>2, <1>3, <1>4, LocalStep

\* The steps that write neither the row nor what LINE remembers.
Reads(w) ==
    /\ UNCHANGED <<row, usedTokens, keys, shown>>
    /\ \/ ClaimLost(w) \/ Check(w) \/ ReplyFallsBack(w) \/ ReplyRejected(w) \/ ReplyUnanswered(w)
       \/ (SwitchToPush(w) /\ ~At(w, "mute")') \/ Mute(w) \/ CheckAgain(w) \/ PushRejected(w)
       \/ PushUnanswered(w) \/ AcceptLost(w) \/ LocalError(w) \/ FinishAttempt(w) \/ SaveHistory(w)
       \/ AppendTurn(w) \/ Abandon(w)

LEMMA ReadsKeep == ASSUME IInv, TypeOK', NEW w \in Workers, Reads(w) PROVE IInv'
<1> USE DEF lineVars, gateVars, logVars, resumeVars, timeVars, roomVars
<1>1. UNCHANGED <<row, usedTokens, keys, shown>>
  BY DEF Reads
<1>2. WorkerInv(w) /\ worker \in [Workers -> Local] /\ Id(w) \in Deliveries /\ ShownOnce(Id(w))
  BY DEF IInv, TypeOK, Local, Id
<1>3. ASSUME Done(w), UNCHANGED muted PROVE IInv'
  BY <1>1, <1>3, StopKeeps
<1>4. ASSUME Past(w), UNCHANGED muted, NEW err \in {"reject", "unknown", "retry"}, Throw(w, err),
             row[Id(w)].method = "REPLY" /\ (worker[w].seen # "pending" \/ Id(w) \in usedTokens) =>
               err # "retry"
      PROVE  IInv'
  <2>1. worker' = [worker EXCEPT ![w] = [worker[w] EXCEPT !.pc = "fail", !.err = err]]
    BY <1>2, <1>4 DEF Throw
  <2> QED
    BY <1>1, <1>4, <2>1, FailKeeps
<1>5. ASSUME worker[w].pc \in {"check", "toPush", "mute"}, UNCHANGED muted,
             NEW err \in {"reject", "unknown"}, Drop(w, err)
      PROVE  IInv'
  <2>1. worker' = [worker EXCEPT ![w] = [worker[w] EXCEPT !.pc = "drop", !.err = err]]
    BY <1>2, <1>5 DEF Drop
  <2>2. ~(row[Id(w)].method = "REPLY" /\ (worker[w].seen # "pending" \/ Id(w) \in usedTokens))
    BY <1>2, <1>5 DEF WorkerInv, LatersFail, RepliersStop, First, Past
  <2>3. Past(w)
    BY <1>5 DEF Past
  <2> QED
    BY <1>1, <1>5, <2>1, <2>2, <2>3, FailKeeps
<1>6. CASE ClaimLost(w) \/ AcceptLost(w) \/ FinishAttempt(w) \/ Abandon(w)
  BY <1>3, <1>6 DEF ClaimLost, AcceptLost, FinishAttempt, Abandon
<1>7. CASE ReplyRejected(w) \/ ReplyUnanswered(w)
  <2>1. Past(w) /\ UNCHANGED muted /\ (Throw(w, "reject") \/ Throw(w, "unknown"))
    BY <1>7 DEF ReplyRejected, ReplyUnanswered, Past, At
  <2> QED
    BY <1>4, <2>1
<1>8. CASE PushRejected(w) \/ PushUnanswered(w)
  <2>1. Past(w) /\ UNCHANGED muted /\ (Throw(w, "reject") \/ Throw(w, "retry")) /\ At(w, "push")
    BY <1>8 DEF PushRejected, PushUnanswered, Past, At
  <2>2. row[Id(w)].method = "PUSH"
    BY <1>2, <2>1 DEF WorkerInv, PushesRemembered, At
  <2> QED
    BY <1>4, <2>1, <2>2
<1>9. CASE LocalError(w)
  <2>1. Past(w) /\ UNCHANGED muted /\ worker[w].pc \in {"check", "toPush", "mute", "accept", "drop"}
        /\ ThrowLocal(w)
    BY <1>9 DEF LocalError, Past
  <2>2. row[Id(w)].method = "REPLY" /\ (worker[w].seen # "pending" \/ Id(w) \in usedTokens) =>
           ~worker[w].pushing
    BY <1>2, <2>1 DEF WorkerInv, LatersFail, RepliersStop, First, Past
  <2> QED
    BY <1>4, <2>1, <2>2 DEF ThrowLocal
<1>10. CASE Check(w)
  <2>1. CASE Drop(w, "reject")
    BY <1>5, <1>10, <2>1 DEF Check, At
  <2>2. CASE Goto(w, "reply") /\ ~Suppressed(w) /\ worker[w].token
    <3>1. worker' = [worker EXCEPT ![w] = [worker[w] EXCEPT !.pc = "reply", !.pushing = worker[w].pushing]]
      BY <1>2, <2>2 DEF Goto, Local
    <3>2. ~worker[w].pushing /\ Past(w) /\ At(w, "check") /\ UNCHANGED muted
      BY <1>2, <1>10, <2>2 DEF WorkerInv, TokensReply, Check, At, Past
    <3> QED
      BY <1>1, <2>2, <3>1, <3>2, GoKeeps DEF Suppressed, At
  <2>3. CASE TryPush(w)
    <3>1. worker' = [worker EXCEPT ![w] = [worker[w] EXCEPT !.pc = "toPush", !.pushing = TRUE]]
      BY <1>2, <2>3 DEF TryPush
    <3>2. Past(w) /\ At(w, "check") /\ UNCHANGED muted
      BY <1>10 DEF Check, At, Past
    <3> QED
      BY <1>1, <3>1, <3>2, GoKeeps DEF At
  <2> QED
    BY <1>10, <2>1, <2>2, <2>3 DEF Check
<1>11. CASE ReplyFallsBack(w)
  <2>1. worker' = [worker EXCEPT ![w] = [worker[w] EXCEPT !.pc = "toPush", !.pushing = TRUE]]
    BY <1>2, <1>11 DEF ReplyFallsBack, TryPush
  <2>2. Past(w) /\ At(w, "reply") /\ UNCHANGED muted
    BY <1>11 DEF ReplyFallsBack, At, Past
  <2> QED
    BY <1>1, <2>1, <2>2, GoKeeps DEF At
<1>12. CASE SwitchToPush(w) /\ ~At(w, "mute")'
  <2>1. Done(w) \/ Drop(w, "unknown")
    BY <1>2, <1>12 DEF SwitchToPush, Goto, At, Local
  <2> QED
    BY <1>3, <1>5, <1>12, <2>1 DEF SwitchToPush, At
<1>13. CASE Mute(w) \/ CheckAgain(w)
  <2>1. CASE Drop(w, "reject")
    BY <1>2, <1>5, <1>13, <2>1 DEF Mute, CheckAgain, At, Drop, Goto, Local
  <2>2. CASE Goto(w, "push")
    <3>1. worker' = [worker EXCEPT ![w] = [worker[w] EXCEPT !.pc = "push", !.pushing = worker[w].pushing]]
      BY <1>2, <2>2 DEF Goto, Local
    <3>2. Past(w) /\ At(w, "mute") /\ (muted => muted') /\ (Id(w) \notin AdminDeliveries => ~muted)
      BY <1>2, <1>13, <2>2 DEF Mute, CheckAgain, At, Past, Drop, Goto, Local
    <3> QED
      BY <1>1, <3>1, <3>2, GoKeeps DEF At
  <2> QED
    BY <1>13, <2>1, <2>2 DEF Mute, CheckAgain
<1>14. CASE SaveHistory(w) \/ AppendTurn(w)
  <2>1. PICK pc \in {"append", "mark"} : Goto(w, pc)
    BY <1>14 DEF SaveHistory, AppendTurn
  <2>2. worker' = [worker EXCEPT ![w] = [worker[w] EXCEPT !.pc = pc, !.pushing = worker[w].pushing]]
    BY <1>2, <2>1 DEF Goto, Local
  <2>3. Past(w) /\ worker[w].pc \in {"history", "append"} /\ UNCHANGED muted
    BY <1>14 DEF SaveHistory, AppendTurn, At, Past
  <2> QED
    BY <1>1, <2>2, <2>3, GoKeeps
<1> QED
  BY <1>6, <1>7, <1>8, <1>9, <1>10, <1>11, <1>12, <1>13, <1>14 DEF Reads

LEMMA BeginKeeps ==
  ASSUME IInv, TypeOK', NEW w \in Workers, NEW id \in Deliveries, Begin(w, id)
  PROVE  IInv'
<1>1. /\ worker'[w] = [Idle EXCEPT !.id = id,
           !.pc = IF row[id].status = "ACCEPTED" THEN "history" ELSE "claim",
           !.seen = CASE row[id].status = "PENDING" -> "pending"
                      [] row[id].status = "SENDING" -> row[id].method
                      [] OTHER -> "other"]
      /\ \A v \in Workers \ {w} : worker'[v] = worker[v]
      /\ UNCHANGED <<row, usedTokens, keys, shown, muted>>
  BY DEF Begin, IInv, TypeOK, roomVars, lineVars, gateVars
<1>2. /\ row[id].status \in RowStatus \ {"NONE"} /\ row[id].method \in {"REPLY", "PUSH"}
  BY DEF Begin, Exists, IInv, TypeOK
<1>3. /\ Id(w)' = id /\ worker'[w].err = "none" /\ ~worker'[w].quiet
      /\ worker'[w].pc = IF row[id].status = "ACCEPTED" THEN "history" ELSE "claim"
      /\ row[id].status = "PENDING" => worker'[w].seen = "pending"
      /\ row[id].status = "SENDING" => worker'[w].seen = row[id].method
      /\ row[id].status \notin {"PENDING", "SENDING"} => worker'[w].seen = "other"
  BY <1>1 DEF Idle, Id
<1>4. WorkerInv(w)'
  BY <1>1, <1>2, <1>3 DEF WorkerInv, SeenStands, ErrorsEnd, TokensReply, PushesRemembered,
     AcceptsShown, LatersFail, RepliersStop, First, Past, At, RowStatus
<1>5. QuietIsMuted(w)' /\ Follows(w)
  BY <1>1, <1>2, <1>3 DEF QuietIsMuted, Follows, First, Past, At, RowStatus
<1> QED
  BY <1>1, <1>4, <1>5, LocalStep

\* A step that takes one worker further and writes for the message it delivers.
LEMMA WriteStep ==
  ASSUME IInv, TypeOK', NEW w \in Workers, muted => muted',
         \A v \in Workers \ {w} : Undisturbed(v) /\ Follows(v),
         WorkerInv(w)', QuietIsMuted(w)', \A id \in Deliveries : ShownOnce(id)' /\ FirstIsAlone(id)'
  PROVE  IInv'
<1>1. ASSUME NEW v \in Workers \ {w} PROVE WorkerInv(v)' /\ QuietIsMuted(v)'
  <2>1. WorkerInv(v) /\ QuietIsMuted(v) /\ worker'[v] = worker[v] /\ TypeOK
    BY DEF IInv, Undisturbed
  <2>2. WorkerInv(v)'
    BY <2>1, OthersKeep
  <2>3. QuietIsMuted(v)'
    BY <2>1 DEF QuietIsMuted, Id
  <2> QED
    BY <2>2, <2>3
<1> QED
  BY <1>1 DEF IInv

LEMMA ClaimKeeps == ASSUME IInv, TypeOK', NEW w \in Workers, Claim(w) PROVE IInv'
<1> DEFINE id == Id(w)
<1>1. /\ id \in Deliveries /\ row[id] \in Row /\ WorkerInv(w)
      /\ At(w, "claim") /\ Claimable(id) /\ UNCHANGED <<usedTokens, keys, shown, muted>>
  BY DEF IInv, TypeOK, Id, Claim, lineVars, roomVars, gateVars, Row
<1>2. /\ row'[id].status = "SENDING" /\ ~row'[id].lapsed /\ row'[id].method = row[id].method
      /\ row'[id].age = row[id].age
      /\ \A d \in Deliveries \ {id} : row'[d] = row[d]
  BY <1>1 DEF Claim, IInv, TypeOK
<1>3. /\ Id(w)' = id /\ worker'[w].seen = worker[w].seen
      /\ worker'[w].pc = IF worker[w].seen = "REPLY" THEN "fail" ELSE "check"
      /\ worker'[w].err = IF worker[w].seen = "REPLY" THEN "unknown" ELSE "none"
      /\ \A v \in Workers \ {w} : worker'[v] = worker[v]
  <2>1. worker \in [Workers -> Local]
    BY DEF IInv, TypeOK, Local
  <2>2. worker' = [worker EXCEPT ![w] = [worker[w] EXCEPT !.pc = AfterClaim(w).pc,
          !.err = AfterClaim(w).err, !.token = row[id].method = "REPLY" /\ id \in live,
          !.pushing = row[id].method = "PUSH", !.quiet = muted]]
    BY <2>1 DEF Claim
  <2>3. /\ worker'[w].pc = AfterClaim(w).pc /\ worker'[w].err = AfterClaim(w).err
        /\ worker'[w].seen = worker[w].seen /\ worker'[w].id = worker[w].id
        /\ \A v \in Workers \ {w} : worker'[v] = worker[v]
    BY <2>1, <2>2 DEF Local
  <2> QED
    BY <2>3 DEF AfterClaim, Id
<1>4. /\ worker'[w].token = (row[id].method = "REPLY" /\ id \in live)
      /\ worker'[w].pushing = (row[id].method = "PUSH")
      /\ worker'[w].quiet = muted
  BY <1>1 DEF Claim, IInv, TypeOK
<1>5. /\ worker[w].seen \in {"pending", "REPLY", "PUSH"}
      /\ worker[w].seen = "PUSH" => row[id].method = "PUSH"
      /\ worker[w].seen = "pending" => row[id].status = "PENDING"
  BY <1>1 DEF WorkerInv, SeenStands, Claimable, IInv, TypeOK
<1>6. row[id].method = "REPLY" /\ worker[w].seen = "pending" =>
         \A v \in Workers : Id(v) = id => ~Past(v)
  BY <1>1, <1>5 DEF IInv, FirstIsAlone
<1> HIDE DEF id
<1>7. ASSUME NEW v \in Workers \ {w} PROVE Undisturbed(v) /\ Follows(v)
  <2>1. worker'[v] = worker[v] /\ Id(v) \in Deliveries /\ Id(v)' = Id(v)
    BY <1>3 DEF IInv, TypeOK, Id
  <2>2. Undisturbed(v)
    BY <1>1, <1>2, <2>1 DEF Undisturbed, Claimable
  <2>3. Follows(v)
    BY <1>1, <1>2, <2>1 DEF Follows, First, Past, IInv, FirstIsAlone, At
  <2> QED
    BY <2>2, <2>3
<1>8. WorkerInv(w)'
  <2>2. ~(First(w)' /\ id \in usedTokens)
    BY <1>1, <1>3, <1>5 DEF First, IInv, ShownOnce, FirstIsAlone
  <2> QED
    BY <1>1, <1>2, <1>3, <1>5, <1>4, <2>2 DEF WorkerInv, SeenStands, ErrorsEnd, TokensReply, PushesRemembered,
       AcceptsShown, LatersFail, RepliersStop, First, Past, At
<1>9. QuietIsMuted(w)' /\ muted' = muted
  BY <1>1, <1>3, <1>4 DEF QuietIsMuted
<1>10. ASSUME NEW d \in Deliveries PROVE ShownOnce(d)' /\ FirstIsAlone(d)'
  <2>1. ShownOnce(d) /\ FirstIsAlone(d)
    BY DEF IInv
  <2>2. ShownOnce(d)'
    BY <1>1, <1>2, <2>1 DEF ShownOnce
  <2>3. CASE d # id
    <3>1. row'[d] = row[d] /\ shown'[d] = shown[d] /\ usedTokens' = usedTokens
      BY <1>1, <1>2, <2>3
    <3>2. Id(w) = id /\ \A v \in Workers \ {w} : worker'[v] = worker[v] /\ Id(v)' = Id(v)
      BY <1>3 DEF Id, id
    <3> QED
      BY <1>3, <2>1, <2>2, <2>3, <3>1, <3>2 DEF FirstIsAlone, First, Past, At
  <2>4. CASE d = id
    <3>1. row'[d].status = "SENDING"
      BY <1>2, <2>4
    <3>2. ASSUME row'[d].method = "REPLY", NEW u \in Workers, NEW v \in Workers, First(u)', First(v)',
                 Id(u)' = d, Id(v)' = d
          PROVE  u = v
      <4>1. row[id].method = "REPLY"
        BY <1>2, <2>4, <3>2
      <4>2. \A x \in Workers \ {w} : worker'[x] = worker[x] /\ Id(x)' = Id(x)
        BY <1>3 DEF Id
      <4>3. CASE worker[w].seen = "pending"
        BY <1>6, <2>4, <3>2, <4>1, <4>2, <4>3 DEF First, Past
      <4>4. CASE worker[w].seen # "pending"
        BY <1>3, <2>1, <2>4, <3>2, <4>1, <4>2, <4>4 DEF First, Past, FirstIsAlone
      <4> QED
        BY <4>3, <4>4
    <3> QED
      BY <2>2, <3>1, <3>2 DEF FirstIsAlone
  <2> QED
    BY <2>2, <2>3, <2>4
<1> QED
  BY <1>7, <1>8, <1>9, <1>10, WriteStep

\* LINE takes a reply: the answer was not shown before, and nobody else may send it.
LEMMA ReplyKeeps ==
  ASSUME IInv, TypeOK', NEW w \in Workers, At(w, "reply"), Id(w) \notin usedTokens,
         usedTokens' = usedTokens \cup {Id(w)}, shown' = [shown EXCEPT ![Id(w)] = @ + 1],
         UNCHANGED <<row, keys, muted>>, Goto(w, "accept") \/ Throw(w, "unknown")
  PROVE  IInv'
<1> DEFINE id == Id(w)
<1>1. /\ id \in Deliveries /\ WorkerInv(w) /\ ShownOnce(id) /\ FirstIsAlone(id) /\ QuietIsMuted(w)
      /\ worker \in [Workers -> Local] /\ shown \in [Deliveries -> Nat]
  BY DEF IInv, TypeOK, Id, Local
<1>2. row[id].method = "REPLY" /\ ~worker[w].pushing /\ worker[w].seen = "pending" /\ First(w)
  BY <1>1 DEF WorkerInv, TokensReply, First, Past, At
<1>3. shown[id] = 0 /\ shown'[id] = 1 /\ \A d \in Deliveries \ {id} : shown'[d] = shown[d]
  BY <1>1, <1>2 DEF ShownOnce
<1>4. /\ \/ worker'[w].pc = "accept" /\ worker'[w].err = worker[w].err
         \/ worker'[w].pc = "fail" /\ worker'[w].err = "unknown"
      /\ worker'[w].seen = "pending" /\ worker'[w].pushing = worker[w].pushing
      /\ worker'[w].quiet = worker[w].quiet /\ worker'[w].id = worker[w].id
      /\ \A v \in Workers \ {w} : worker'[v] = worker[v]
  BY <1>1, <1>2 DEF Goto, Throw, Local
<1>5. worker[w].err = "none" /\ Id(w)' = id
  BY <1>1, <1>4 DEF WorkerInv, ErrorsEnd, At, Id
<1> HIDE DEF id
<1>6. ASSUME NEW v \in Workers \ {w} PROVE Undisturbed(v) /\ Follows(v)
  <2>1. worker'[v] = worker[v] /\ Id(v) \in Deliveries /\ Id(v)' = Id(v)
    BY <1>4 DEF IInv, TypeOK, Id
  <2>2. First(v) => Id(v) # id
    BY <1>1, <1>2 DEF FirstIsAlone, id
  <2>3. Undisturbed(v)
    BY <1>3, <2>1, <2>2 DEF Undisturbed, id
  <2>4. Follows(v)
    BY <2>1 DEF Follows, First, Past, IInv, FirstIsAlone, At
  <2> QED
    BY <2>3, <2>4
<1>7. Follows(w) /\ QuietIsMuted(w)'
  <2>1. row[id].status # "NONE"
    BY <1>1 DEF FirstIsAlone, At, id
  <2> QED
    BY <1>1, <1>2, <1>4, <1>5, <2>1 DEF Follows, First, Past, QuietIsMuted, id
<1>8. WorkerInv(w)'
  BY <1>1, <1>2, <1>3, <1>4, <1>5 DEF WorkerInv, SeenStands, ErrorsEnd, TokensReply, PushesRemembered,
     AcceptsShown, LatersFail, RepliersStop, First, Past, At
<1>9. ASSUME NEW d \in Deliveries PROVE ShownOnce(d)' /\ FirstIsAlone(d)'
  <2>1. ShownOnce(d) /\ FirstIsAlone(d)
    BY DEF IInv
  <2>2. ShownOnce(d)'
    BY <1>1, <1>2, <1>3, <2>1 DEF ShownOnce, id
  <2>3. Ages(d)
    BY <1>1, <1>2, <1>3, <2>1 DEF Ages, FirstIsAlone, First, Past, At, id
  <2>4. \A v \in Workers : Follows(v)
    BY <1>6, <1>7
  <2> QED
    BY <2>2, <2>3, <2>4, AloneKeeps
<1> QED
  BY <1>6, <1>7, <1>8, <1>9, WriteStep

\* LINE takes a push, which it shows unless it remembers its key.
LEMMA PushKeeps ==
  ASSUME IInv, TypeOK', NEW w \in Workers, At(w, "push"), TakePush(Id(w)),
         UNCHANGED <<row, muted>>, Goto(w, "accept") \/ Throw(w, "retry")
  PROVE  IInv'
<1> DEFINE id == Id(w)
<1>1. /\ id \in Deliveries /\ WorkerInv(w) /\ ShownOnce(id) /\ FirstIsAlone(id) /\ QuietIsMuted(w)
      /\ worker \in [Workers -> Local] /\ shown \in [Deliveries -> Nat]
  BY DEF IInv, TypeOK, Id, Local
<1>2. row[id].method = "PUSH" /\ row[id].age \in {"fresh", "old"}
  BY <1>1 DEF WorkerInv, PushesRemembered, At
<1>3. /\ shown'[id] = 1 /\ usedTokens' = usedTokens /\ keys' = keys \cup {id}
      /\ \A d \in Deliveries \ {id} : shown'[d] = shown[d]
  BY <1>1, <1>2 DEF ShownOnce, TakePush
<1>4. /\ \/ worker'[w].pc = "accept" /\ worker'[w].err = worker[w].err
         \/ worker'[w].pc = "fail" /\ worker'[w].err = "retry"
      /\ worker'[w].seen = worker[w].seen /\ worker'[w].pushing = worker[w].pushing
      /\ worker'[w].quiet = worker[w].quiet /\ worker'[w].id = worker[w].id
      /\ \A v \in Workers \ {w} : worker'[v] = worker[v]
  BY <1>1, <1>2 DEF Goto, Throw, Local
<1>5. worker[w].err = "none" /\ Id(w)' = id /\ id \notin usedTokens
  BY <1>1, <1>2, <1>4 DEF WorkerInv, ErrorsEnd, At, Id, ShownOnce
<1> HIDE DEF id
<1>6. ASSUME NEW v \in Workers \ {w} PROVE Undisturbed(v) /\ Follows(v)
  <2>1. worker'[v] = worker[v] /\ Id(v) \in Deliveries /\ Id(v)' = Id(v)
    BY <1>4 DEF IInv, TypeOK, Id
  <2>2. Undisturbed(v)
    BY <1>3, <2>1 DEF Undisturbed, id
  <2>3. Follows(v)
    BY <2>1 DEF Follows, First, Past, IInv, FirstIsAlone, At
  <2> QED
    BY <2>2, <2>3
<1>7. Follows(w) /\ QuietIsMuted(w)'
  <2>1. row[id].status # "NONE"
    BY <1>1 DEF FirstIsAlone, At, id
  <2> QED
    BY <1>1, <1>2, <1>4, <1>5, <2>1 DEF Follows, First, Past, QuietIsMuted, id
<1>8. WorkerInv(w)'
  BY <1>1, <1>2, <1>3, <1>4, <1>5 DEF WorkerInv, SeenStands, ErrorsEnd, TokensReply, PushesRemembered,
     AcceptsShown, LatersFail, RepliersStop, First, Past, At
<1>9. ASSUME NEW d \in Deliveries PROVE ShownOnce(d)' /\ FirstIsAlone(d)'
  <2>1. ShownOnce(d) /\ FirstIsAlone(d)
    BY DEF IInv
  <2>2. ShownOnce(d)'
    BY <1>1, <1>2, <1>3, <2>1 DEF ShownOnce, id
  <2>3. Ages(d)
    BY <1>1, <1>2, <1>3, <2>1 DEF Ages, FirstIsAlone, First, Past, At, id
  <2>4. \A v \in Workers : Follows(v)
    BY <1>6, <1>7
  <2> QED
    BY <2>2, <2>3, <2>4, AloneKeeps
<1> QED
  BY <1>6, <1>7, <1>8, <1>9, WriteStep

\* A step of an attempt that writes the row it delivers.
LEMMA RowStep ==
  ASSUME IInv, TypeOK', NEW w \in Workers, Past(w),
         \A v \in Workers \ {w} : worker'[v] = worker[v],
         \A d \in Deliveries \ {Id(w)} : row'[d] = row[d],
         UNCHANGED <<usedTokens, keys, shown, muted>>,
         \/ row'[Id(w)].method = row[Id(w)].method
         \/ row'[Id(w)].method = "PUSH" /\ Id(w) \notin usedTokens /\ First(w),
         \/ row'[Id(w)].status = row[Id(w)].status
         \/ /\ row[Id(w)].status = "SENDING" /\ row'[Id(w)].status \notin {"NONE", "SENDING"}
            /\ row'[Id(w)].status = "PENDING" => row'[Id(w)].method = "PUSH",
         row'[Id(w)].lapsed => row[Id(w)].lapsed,
         \/ row'[Id(w)].age = row[Id(w)].age
         \/ row'[Id(w)].age = "fresh" /\ row[Id(w)].age \in {"none", "fresh"} /\ row'[Id(w)].method = "PUSH",
         WorkerInv(w)', QuietIsMuted(w)',
         worker'[w].pc # "idle" => Past(w)' /\ Id(w)' = Id(w) /\ worker'[w].seen = worker[w].seen
  PROVE  IInv'
<1> DEFINE id == Id(w)
<1>1. id \in Deliveries
  BY DEF IInv, TypeOK, Id
<1>2. /\ ShownOnce(id) /\ FirstIsAlone(id) /\ row[id].status # "NONE"
      /\ row[id].method \in {"REPLY", "PUSH"}
  BY <1>1 DEF IInv, TypeOK, FirstIsAlone, Past, At
<1>3. ASSUME NEW v \in Workers \ {w} PROVE Undisturbed(v) /\ Follows(v)
  <2>1. worker'[v] = worker[v] /\ Id(v) \in Deliveries /\ Id(v)' = Id(v)
    BY DEF IInv, TypeOK, Id
  <2>2. First(v) /\ First(w) /\ row[id].method = "REPLY" => Id(v) # id
    BY <1>2 DEF FirstIsAlone
  <2>3. Undisturbed(v)
    <3>1. CASE Id(v) # id
      BY <2>1, <3>1 DEF Undisturbed
    <3>2. CASE Id(v) = id
      BY <1>2, <2>1, <2>2, <3>2 DEF Undisturbed
    <3> QED
      BY <3>1, <3>2
  <2>4. Follows(v)
    <3>1. CASE Id(v) # id
      BY <2>1, <3>1 DEF Follows, First, Past, IInv, FirstIsAlone, At
    <3>2. CASE Id(v) = id
      BY <1>2, <2>1, <3>2 DEF Follows, First, Past
    <3> QED
      BY <3>1, <3>2
  <2> QED
    BY <2>3, <2>4
<1>4. Follows(w)
  BY <1>2 DEF Follows, First, Past
<1>5. ASSUME NEW d \in Deliveries PROVE ShownOnce(d)' /\ FirstIsAlone(d)'
  <2>1. ShownOnce(d) /\ FirstIsAlone(d)
    BY DEF IInv
  <2>2. ShownOnce(d)'
    <3>1. CASE d = id
      BY <1>2, <3>1 DEF ShownOnce
    <3>2. CASE d # id
      BY <2>1, <3>2 DEF ShownOnce
    <3> QED
      BY <3>1, <3>2
  <2>3. Ages(d)
    BY <1>2, <2>1 DEF Ages, FirstIsAlone
  <2>4. \A v \in Workers : Follows(v)
    BY <1>3, <1>4
  <2> QED
    BY <2>2, <2>3, <2>4, AloneKeeps
<1> QED
  BY <1>3, <1>5, WriteStep

LEMMA SwitchKeeps ==
  ASSUME IInv, TypeOK', NEW w \in Workers, SwitchToPush(w), At(w, "mute")'
  PROVE  IInv'
<1> DEFINE id == Id(w)
<1>1. /\ id \in Deliveries /\ WorkerInv(w) /\ ShownOnce(id) /\ QuietIsMuted(w) /\ row \in [Deliveries -> Row]
      /\ worker \in [Workers -> Local] /\ UNCHANGED <<usedTokens, keys, shown, muted>>
  BY DEF IInv, TypeOK, Id, Local, Row, SwitchToPush, lineVars, roomVars, gateVars
<1>2. /\ At(w, "toPush") /\ row[id].age \in {"none", "fresh"} /\ Goto(w, "mute")
      /\ row' = [row EXCEPT ![id] = [row[id] EXCEPT !.method = "PUSH", !.age = "fresh"]]
  <2>1. ~Drop(w, "unknown") /\ ~Done(w)
    BY <1>1 DEF At, Drop, Done, Idle, Local
  <2> QED
    BY <1>1, <2>1 DEF SwitchToPush
<1>3. id \notin usedTokens /\ (row[id].method = "REPLY" => First(w)) /\ Past(w)
  BY <1>1, <1>2 DEF WorkerInv, LatersFail, RepliersStop, ShownOnce, First, Past, At
<1>4. /\ worker'[w].pc = "mute" /\ worker'[w].err = worker[w].err
      /\ worker'[w].seen = worker[w].seen /\ worker'[w].quiet = worker[w].quiet
      /\ worker'[w].id = worker[w].id
      /\ \A v \in Workers \ {w} : worker'[v] = worker[v]
  BY <1>1, <1>2 DEF Goto, Local
<1>5. /\ row'[id].method = "PUSH" /\ row'[id].age = "fresh" /\ row'[id].status = row[id].status
      /\ row'[id].lapsed = row[id].lapsed /\ \A d \in Deliveries \ {id} : row'[d] = row[d]
  BY <1>1, <1>2 DEF Row
<1>6. worker[w].err = "none" /\ Id(w)' = id /\ row[id].method \in {"REPLY", "PUSH"}
  BY <1>1, <1>2, <1>4 DEF WorkerInv, ErrorsEnd, At, Id, Row
<1> HIDE DEF id
<1>7. WorkerInv(w)'
  BY <1>1, <1>3, <1>4, <1>5, <1>6 DEF WorkerInv, SeenStands, ErrorsEnd, TokensReply, PushesRemembered,
     AcceptsShown, LatersFail, RepliersStop, First, Past, At
<1>8. QuietIsMuted(w)' /\ Past(w)'
  BY <1>1, <1>4 DEF QuietIsMuted, Past
<1>9. /\ \/ row'[id].method = row[id].method
         \/ row'[id].method = "PUSH" /\ id \notin usedTokens /\ First(w)
      /\ row'[id].lapsed => row[id].lapsed
  BY <1>3, <1>5, <1>6
<1> QED
  BY <1>1, <1>2, <1>3, <1>4, <1>5, <1>6, <1>7, <1>8, <1>9, RowStep DEF id

LEMMA AcceptKeeps ==
  ASSUME IInv, TypeOK', NEW w \in Workers, Accept(w) \/ AcceptUnacknowledged(w)
  PROVE  IInv'
<1> DEFINE id == Id(w)
<1>1. /\ id \in Deliveries /\ WorkerInv(w) /\ ShownOnce(id) /\ QuietIsMuted(w) /\ row \in [Deliveries -> Row]
      /\ worker \in [Workers -> Local] /\ UNCHANGED <<usedTokens, keys, shown, muted>>
      /\ At(w, "accept") /\ Past(w) /\ row[id].status = "SENDING"
  BY DEF IInv, TypeOK, Id, Local, Row, Accept, AcceptUnacknowledged, AcceptWrites, Owns, lineVars, At, Past
<1>2. row' = [row EXCEPT ![id] = [row[id] EXCEPT !.status = "ACCEPTED", !.owner = Nobody,
                                    !.lapsed = FALSE, !.at = clock + 1]]
  BY <1>1 DEF Accept, AcceptUnacknowledged, AcceptWrites, MarkAccepted
<1>3. /\ \/ worker'[w].pc = "history" /\ worker'[w].err = worker[w].err
         \/ worker'[w].pc = "fail" /\ worker'[w].err = IF worker[w].pushing THEN "retry" ELSE "unknown"
      /\ worker'[w].seen = worker[w].seen /\ worker'[w].pushing = worker[w].pushing
      /\ worker'[w].quiet = worker[w].quiet /\ worker'[w].id = worker[w].id
      /\ \A v \in Workers \ {w} : worker'[v] = worker[v]
  BY <1>1 DEF Accept, AcceptUnacknowledged, ThrowLocal, Throw, Goto, Local
<1>4. /\ row'[id].method = row[id].method /\ row'[id].age = row[id].age /\ row'[id].status = "ACCEPTED"
      /\ ~row'[id].lapsed /\ \A d \in Deliveries \ {id} : row'[d] = row[d]
  BY <1>1, <1>2 DEF Row
<1>5. worker[w].err = "none" /\ Id(w)' = id
  BY <1>1, <1>3 DEF WorkerInv, ErrorsEnd, At, Id
<1> HIDE DEF id
<1>6. WorkerInv(w)'
  BY <1>1, <1>3, <1>4, <1>5 DEF WorkerInv, SeenStands, ErrorsEnd, TokensReply, PushesRemembered,
     AcceptsShown, LatersFail, RepliersStop, First, Past, At, id
<1>7. QuietIsMuted(w)' /\ Past(w)'
  BY <1>1, <1>3 DEF QuietIsMuted, Past
<1>8. /\ row'[id].status \notin {"NONE", "SENDING"} /\ row'[id].status # "PENDING"
      /\ row'[id].lapsed => row[id].lapsed
      /\ worker'[w].seen = worker[w].seen
  BY <1>3, <1>4
<1> QED
  BY <1>1, <1>3, <1>4, <1>5, <1>6, <1>7, <1>8, RowStep DEF id

\* The local state after an attempt satisfies whatever is asked of a worker.
LEMMA IdleIsFine ==
  ASSUME NEW w \in Workers, worker'[w] = Idle
  PROVE  WorkerInv(w)' /\ QuietIsMuted(w)' /\ worker'[w].pc = "idle"
BY DEF Idle, WorkerInv, SeenStands, ErrorsEnd, TokensReply, PushesRemembered, AcceptsShown,
   LatersFail, RepliersStop, QuietIsMuted, First, Past, At

LEMMA FinishKeeps ==
  ASSUME IInv, TypeOK', NEW w \in Workers, FinishAttempt(w), Fenced(w)
  PROVE  IInv'
<1> DEFINE id == Id(w)
           m == IF worker[w].err = "retry" THEN "PUSH" ELSE row[id].method
<1>1. /\ id \in Deliveries /\ WorkerInv(w) /\ ShownOnce(id) /\ row \in [Deliveries -> Row]
      /\ worker \in [Workers -> Local] /\ UNCHANGED <<usedTokens, keys, shown, muted>>
      /\ worker[w].pc \in {"drop", "fail"} /\ Past(w) /\ row[id].status = "SENDING"
  BY DEF IInv, TypeOK, Id, Local, Row, FinishAttempt, Fenced, Owns, lineVars, roomVars, gateVars, Past
<1>2. row' = [row EXCEPT ![id] = [row[id] EXCEPT !.status = NextStatus(w), !.owner = Nobody,
                                    !.lapsed = FALSE, !.due = FALSE, !.method = m]]
  BY <1>1 DEF FinishAttempt
<1>3. /\ row'[id].method = m /\ row'[id].age = row[id].age /\ row'[id].status = NextStatus(w)
      /\ ~row'[id].lapsed /\ \A d \in Deliveries \ {id} : row'[d] = row[d]
  BY <1>1, <1>2 DEF Row
<1>4. /\ NextStatus(w) \in {"PENDING", "FAILED", "UNKNOWN"}
      /\ NextStatus(w) = "PENDING" => worker[w].err = "retry"
  BY DEF NextStatus, MayRetry
<1>5. worker'[w] = Idle /\ \A v \in Workers \ {w} : worker'[v] = worker[v]
  BY <1>1 DEF FinishAttempt, Done
<1>6. worker[w].err = "retry" => id \notin usedTokens /\ (row[id].method = "REPLY" => First(w))
  BY <1>1 DEF WorkerInv, LatersFail, RepliersStop, ShownOnce, First
<1>7. /\ \/ row'[id].method = row[id].method
         \/ row'[id].method = "PUSH" /\ id \notin usedTokens /\ First(w)
      /\ row'[id].lapsed => row[id].lapsed
      /\ row'[id].status \notin {"NONE", "SENDING"}
      /\ row'[id].status = "PENDING" => row'[id].method = "PUSH"
  BY <1>1, <1>3, <1>4, <1>6 DEF Row
<1>8. WorkerInv(w)' /\ QuietIsMuted(w)' /\ worker'[w].pc = "idle"
  BY <1>5, IdleIsFine
<1> HIDE DEF m
<1> QED
  BY <1>1, <1>3, <1>5, <1>7, <1>8, RowStep

LEMMA MarkKeeps ==
  ASSUME IInv, TypeOK', NEW w \in Workers, MarkFinalized(w)
  PROVE  IInv'
<1> DEFINE id == Id(w)
<1>1. /\ id \in Deliveries /\ row \in [Deliveries -> Row] /\ worker \in [Workers -> Local]
      /\ UNCHANGED <<usedTokens, keys, shown, muted>> /\ Past(w)
  BY DEF IInv, TypeOK, Id, Local, Row, MarkFinalized, lineVars, roomVars, gateVars, At, Past
<1>2. row' = [row EXCEPT ![id] = [row[id] EXCEPT !.done = TRUE]]
  BY <1>1 DEF MarkFinalized
<1>3. /\ row'[id].method = row[id].method /\ row'[id].age = row[id].age
      /\ row'[id].status = row[id].status
      /\ row'[id].lapsed = row[id].lapsed /\ \A d \in Deliveries \ {id} : row'[d] = row[d]
  BY <1>1, <1>2 DEF Row
<1>4. worker'[w] = Idle /\ \A v \in Workers \ {w} : worker'[v] = worker[v]
  BY <1>1 DEF MarkFinalized, Done
<1>5. WorkerInv(w)' /\ QuietIsMuted(w)' /\ worker'[w].pc = "idle"
  BY <1>4, IdleIsFine
<1>6. row'[id].lapsed => row[id].lapsed
  BY <1>3
<1> QED
  BY <1>1, <1>3, <1>4, <1>5, <1>6, RowStep

-----------------------------------------------------------------------------
(* Every step.                                                                *)

LEMMA AttemptKeeps ==
  ASSUME IInv, TypeOK', NEW w \in Workers, Attempt(w) \/ Abandon(w) PROVE IInv'
<1> USE DEF lineVars, gateVars, roomVars
<1>1. CASE Reads(w)
  BY <1>1, ReadsKeep
<1>2. CASE Claim(w)
  BY <1>2, ClaimKeeps
<1>3. CASE ReplyAccepted(w)
  BY <1>3, ReplyKeeps DEF ReplyAccepted
<1>4. CASE ReplyUnanswered(w)
  <2>1. CASE UNCHANGED <<usedTokens, shown>>
    BY <1>4, <2>1, ReadsKeep DEF Reads, ReplyUnanswered
  <2>2. CASE Id(w) \notin usedTokens /\ usedTokens' = usedTokens \cup {Id(w)}
             /\ shown' = [shown EXCEPT ![Id(w)] = @ + 1]
    BY <1>4, <2>2, ReplyKeeps DEF ReplyUnanswered
  <2> QED
    BY <1>4, <2>1, <2>2 DEF ReplyUnanswered
<1>5. CASE SwitchToPush(w)
  <2>1. CASE At(w, "mute")'
    BY <1>5, <2>1, SwitchKeeps
  <2>2. CASE ~At(w, "mute")'
    <3>1. ~Goto(w, "mute")
      BY <2>2 DEF Goto, At, IInv, TypeOK
    <3>2. Reads(w)
      BY <1>5, <2>2, <3>1 DEF Reads, SwitchToPush
    <3> QED
      BY <3>2, ReadsKeep
  <2> QED
    BY <2>1, <2>2
<1>6. CASE PushAccepted(w)
  BY <1>6, PushKeeps DEF PushAccepted
<1>7. CASE PushUnanswered(w)
  <2>1. CASE UNCHANGED lineVars
    BY <1>7, <2>1, ReadsKeep DEF Reads, PushUnanswered
  <2>2. CASE TakePush(Id(w))
    BY <1>7, <2>2, PushKeeps DEF PushUnanswered
  <2> QED
    BY <1>7, <2>1, <2>2 DEF PushUnanswered
<1>8. CASE Accept(w) \/ AcceptUnacknowledged(w)
  BY <1>8, AcceptKeeps
<1>9. CASE FinishAttempt(w)
  <2>1. CASE Fenced(w)
    BY <1>9, <2>1, FinishKeeps
  <2>2. CASE ~Fenced(w)
    BY <1>9, <2>2, ReadsKeep DEF Reads, FinishAttempt
  <2> QED
    BY <2>1, <2>2
<1>10. CASE MarkFinalized(w)
  BY <1>10, MarkKeeps
<1>11. CASE ClaimLost(w) \/ Check(w) \/ ReplyFallsBack(w) \/ ReplyRejected(w) \/ Mute(w) \/ CheckAgain(w)
            \/ PushRejected(w) \/ AcceptLost(w) \/ LocalError(w) \/ SaveHistory(w) \/ AppendTurn(w)
            \/ Abandon(w)
  <2>1. Reads(w)
    BY <1>11 DEF Reads, ClaimLost, Check, ReplyFallsBack, ReplyRejected, Mute, CheckAgain, PushRejected,
       AcceptLost, LocalError, SaveHistory, AppendTurn, Abandon
  <2> QED
    BY <2>1, ReadsKeep
<1> QED
  BY <1>2, <1>3, <1>4, <1>5, <1>6, <1>7, <1>8, <1>9, <1>10, <1>11 DEF Attempt

\* A step of nobody's attempt.
LEMMA OutsideStep ==
  ASSUME IInv, TypeOK', UNCHANGED <<worker, muted>>, \A v \in Workers : Undisturbed(v),
         \A id \in Deliveries : /\ ShownOnce(id)' /\ Ages(id)
                                /\ row[id].status # "NONE" => row'[id].status # "NONE"
  PROVE  IInv'
<1>1. ASSUME NEW v \in Workers PROVE WorkerInv(v)' /\ QuietIsMuted(v)' /\ Follows(v)
  <2>1. WorkerInv(v) /\ QuietIsMuted(v) /\ TypeOK /\ Id(v) \in Deliveries
    BY DEF IInv, TypeOK, Id
  <2>2. WorkerInv(v)'
    BY <2>1, OthersKeep
  <2>3. QuietIsMuted(v)'
    BY <2>1 DEF QuietIsMuted, Id
  <2>4. Follows(v)
    BY <2>1 DEF Follows, First, Past, IInv, FirstIsAlone, At, Id
  <2> QED
    BY <2>2, <2>3, <2>4
<1>2. \A id \in Deliveries : FirstIsAlone(id)'
  BY <1>1, AloneKeeps
<1> QED
  BY <1>1, <1>2 DEF IInv

LEMMA CreateKeeps ==
  ASSUME IInv, TypeOK', NEW id \in Deliveries,
         SendAdminMessage(id) \/ \E fresh \in BOOLEAN : SaveReply(id, fresh)
  PROVE  IInv'
<1>1. /\ ShownOnce(id) /\ FirstIsAlone(id) /\ row \in [Deliveries -> Row] /\ row[id].status = "NONE"
      /\ UNCHANGED <<worker, usedTokens, keys, shown, muted>>
  BY DEF IInv, TypeOK, Row, SendAdminMessage, SaveReply, Exists, lineVars, roomVars, gateVars
<1>2. \/ row' = [row EXCEPT ![id] = [row[id] EXCEPT !.status = "PENDING"]]
      \/ row' = [row EXCEPT ![id] = [row[id] EXCEPT !.status = "PENDING", !.method = "PUSH"]]
  BY <1>1 DEF SendAdminMessage, SaveReply
<1>3. /\ row'[id].status = "PENDING" /\ row'[id].method \in {row[id].method, "PUSH"}
      /\ row'[id].age = row[id].age
      /\ \A d \in Deliveries \ {id} : row'[d] = row[d]
  BY <1>1, <1>2 DEF Row
<1>4. ASSUME NEW v \in Workers PROVE Undisturbed(v)
  <2>1. Id(v) = id => At(v, "idle")
    BY <1>1 DEF FirstIsAlone
  <2>2. Id(v) \in Deliveries
    BY DEF IInv, TypeOK, Id
  <2> QED
    BY <1>1, <1>3, <2>1, <2>2 DEF Undisturbed, First, Past, At
<1>5. ASSUME NEW d \in Deliveries PROVE ShownOnce(d)' /\ Ages(d)
  <2>1. ShownOnce(d) /\ FirstIsAlone(d) /\ row[d].method \in {"REPLY", "PUSH"}
    BY <1>1 DEF IInv, Row
  <2>2. CASE d = id
    BY <1>1, <1>3, <2>1, <2>2 DEF ShownOnce, FirstIsAlone, Ages
  <2>3. CASE d # id
    BY <1>1, <1>3, <2>1, <2>3 DEF ShownOnce, FirstIsAlone, Ages
  <2> QED
    BY <2>2, <2>3
<1> QED
  BY <1>1, <1>3, <1>4, <1>5, OutsideStep

LEMMA TimeKeeps == ASSUME IInv, TypeOK', NEW id \in Deliveries, Time(id) PROVE IInv'
<1>1. /\ ShownOnce(id) /\ row \in [Deliveries -> Row]
      /\ UNCHANGED <<worker, usedTokens, shown, muted>>
  BY DEF IInv, TypeOK, Row, Time, LeaseLapses, BecomesDue, TokenExpires, KeyNearsExpiry, KeyForgotten,
     lineVars, roomVars, gateVars
<1>2. ASSUME UNCHANGED keys, \A d \in Deliveries : /\ row'[d].status = row[d].status
                                                    /\ row'[d].method = row[d].method
                                                    /\ \/ row'[d].age = row[d].age
                                                       \/ row[d].age = "fresh" /\ row'[d].age = "old",
             \A v \in Workers : row'[Id(v)].status = "SENDING" /\ row'[Id(v)].lapsed =>
               \/ row[Id(v)].lapsed \/ worker[v].pc # "claim" \/ worker[v].seen # "pending"
      PROVE  IInv'
  <2>1. ASSUME NEW v \in Workers PROVE Undisturbed(v)
    <3>1. Id(v) \in Deliveries
      BY DEF IInv, TypeOK, Id
    <3> QED
      BY <1>1, <1>2, <3>1 DEF Undisturbed
  <2>2. ASSUME NEW d \in Deliveries PROVE ShownOnce(d)' /\ Ages(d)
    BY <1>1, <1>2 DEF IInv, ShownOnce, FirstIsAlone, Ages
  <2> QED
    BY <1>1, <1>2, <2>1, <2>2, OutsideStep
<1>3. CASE LeaseLapses(id)
  <2>1. row' = [row EXCEPT ![id] = [row[id] EXCEPT !.lapsed = TRUE]] /\ ReadIsRecent(id) /\ UNCHANGED keys
    BY <1>1, <1>3 DEF LeaseLapses, lineVars
  <2> QED
    BY <1>1, <1>2, <2>1 DEF Row, ReadIsRecent, At
<1>4. CASE BecomesDue(id)
  <2>1. row' = [row EXCEPT ![id] = [row[id] EXCEPT !.due = TRUE]] /\ UNCHANGED keys
    BY <1>1, <1>4 DEF BecomesDue, lineVars
  <2> QED
    BY <1>1, <1>2, <2>1 DEF Row
<1>5. CASE TokenExpires(id)
  BY <1>2, <1>5 DEF TokenExpires, lineVars
<1>6. CASE KeyNearsExpiry(id)
  <2>1. row' = [row EXCEPT ![id] = [row[id] EXCEPT !.age = "old"]] /\ row[id].age = "fresh" /\ UNCHANGED keys
    BY <1>1, <1>6 DEF KeyNearsExpiry, lineVars
  <2> QED
    BY <1>1, <1>2, <2>1 DEF Row
<1>7. CASE KeyForgotten(id)
  <2>1. /\ row' = [row EXCEPT ![id] = [row[id] EXCEPT !.age = "gone"]] /\ row[id].age = "old"
        /\ keys' = keys \ {id}
        /\ \A w \in Workers : Id(w) = id => worker[w].pc \notin {"mute", "push"}
    BY <1>1, <1>7 DEF KeyForgotten
  <2>2. \A d \in Deliveries : /\ row'[d].status = row[d].status /\ row'[d].method = row[d].method
                              /\ row'[d].lapsed = row[d].lapsed
                              /\ row'[d].age = IF d = id THEN "gone" ELSE row[d].age
    BY <1>1, <2>1 DEF Row
  <2>3. ASSUME NEW v \in Workers PROVE Undisturbed(v)
    <3>1. Id(v) \in Deliveries
      BY DEF IInv, TypeOK, Id
    <3> QED
      BY <1>1, <2>1, <2>2, <3>1 DEF Undisturbed
  <2>4. ASSUME NEW d \in Deliveries PROVE ShownOnce(d)' /\ Ages(d)
    BY <1>1, <2>1, <2>2 DEF IInv, ShownOnce, FirstIsAlone, Ages
  <2> QED
    BY <1>1, <2>2, <2>3, <2>4, OutsideStep
<1> QED
  BY <1>3, <1>4, <1>5, <1>6, <1>7 DEF Time

LEMMA UnmuteKeeps ==
  ASSUME IInv, TypeOK', Unmute, UNCHANGED <<row, usedTokens, keys, shown>>
  PROVE  IInv'
<1>1. ASSUME NEW v \in Workers
      PROVE  /\ worker'[v].pc = worker[v].pc /\ worker'[v].id = worker[v].id
             /\ worker'[v].seen = worker[v].seen /\ worker'[v].token = worker[v].token
             /\ worker'[v].pushing = worker[v].pushing /\ worker'[v].err = worker[v].err
             /\ ~worker'[v].quiet
  BY DEF Unmute, IInv, TypeOK
<1>2. ASSUME NEW v \in Workers PROVE WorkerInv(v)' /\ QuietIsMuted(v)'
  BY <1>1 DEF IInv, WorkerInv, SeenStands, ErrorsEnd, TokensReply, PushesRemembered, AcceptsShown,
     LatersFail, RepliersStop, QuietIsMuted, First, Past, At, Id
<1>3. ASSUME NEW d \in Deliveries PROVE ShownOnce(d)' /\ FirstIsAlone(d)'
  BY <1>1 DEF IInv, ShownOnce, FirstIsAlone, First, Past, At, Id
<1> QED
  BY <1>2, <1>3 DEF IInv

\* A step that touches nothing the invariant is about.
LEMMA RoomKeeps ==
  ASSUME IInv, TypeOK', UNCHANGED <<worker, row, usedTokens, keys, shown, muted>>
  PROVE  IInv'
<1>1. \A v \in Workers : Undisturbed(v)
  BY DEF Undisturbed
<1>2. \A id \in Deliveries : ShownOnce(id)' /\ Ages(id)
  BY DEF IInv, ShownOnce, FirstIsAlone, Ages
<1> QED
  BY <1>1, <1>2, OutsideStep

LEMMA Inductive == IInv /\ [Next]_vars => IInv'
<1> SUFFICES ASSUME IInv, [Next]_vars PROVE IInv'
  OBVIOUS
<1> USE DEF lineVars, gateVars, logVars, resumeVars, timeVars, roomVars
<1>1. TypeOK'
  BY TypeStep DEF IInv
<1>2. CASE UNCHANGED vars
  BY <1>1, <1>2, RoomKeeps DEF vars
<1>3. ASSUME NEW id \in Deliveries, NEW fresh \in BOOLEAN, SaveReply(id, fresh) PROVE IInv'
  BY <1>1, <1>3, CreateKeeps
<1>4. ASSUME NEW id \in Deliveries, SendAdminMessage(id) PROVE IInv'
  BY <1>1, <1>4, CreateKeeps
<1>5. ASSUME NEW id \in Deliveries, Recover(id) PROVE IInv'
  BY <1>1, <1>5, BeginKeeps DEF Recover, Workers
<1>6. ASSUME NEW id \in Deliveries, Time(id) PROVE IInv'
  BY <1>1, <1>6, TimeKeeps
<1>7. ASSUME NEW w \in Workers, NEW id \in Deliveries, Deliver(w, id) PROVE IInv'
  BY <1>1, <1>7, BeginKeeps DEF Deliver
<1>8. ASSUME NEW w \in Workers, Attempt(w) \/ Abandon(w) PROVE IInv'
  BY <1>1, <1>8, AttemptKeeps
<1>9. CASE MuteExpires \/ ResumeUnmutes
  BY <1>1, <1>9, UnmuteKeeps DEF MuteExpires, ResumeUnmutes
<1>10. CASE RequestAdmin \/ ResumeOpens \/ ResumeClears \/ ResumeFails
            \/ \E t \in 0..clock + 1 : CustomerMessage(t)
  BY <1>1, <1>10, RoomKeeps DEF RequestAdmin, ResumeOpens, ResumeClears, ResumeFails, CustomerMessage
<1> QED
  BY <1>2, <1>3, <1>4, <1>5, <1>6, <1>7, <1>8, <1>9, <1>10 DEF Next

LEMMA InitInv == Init => IInv
<1> SUFFICES ASSUME Init PROVE IInv
  OBVIOUS
<1>1. \A id \in Deliveries : row[id] = NoRow /\ shown[id] = 0
  BY DEF Init
<1>2. \A w \in Workers : worker[w] = Idle
  BY DEF Init
<1>3. TypeOK
  <2>1. NoRow \in Row
    BY DEF NoRow, Row, RowStatus
  <2>2. row \in [Deliveries -> Row]
    BY <2>1 DEF Init
  <2>3. worker \in [Workers -> Local]
    BY IdleTypes, SetsAssumption DEF Init
  <2>4. RestOK
    <3>1. 0 \in 0..MaxMessages /\ 0 \in 0..MaxResumes /\ 0 \in 0..MaxFaults
      BY BoundsAssumption
    <3>2. shown \in [Deliveries -> Nat]
      BY DEF Init
    <3> QED
      BY <3>1, <3>2 DEF Init, RestOK
  <2> QED
    BY <2>2, <2>3, <2>4 DEF TypeOK, Row, Local, RestOK
<1>4. ASSUME NEW w \in Workers PROVE WorkerInv(w) /\ QuietIsMuted(w) /\ At(w, "idle")
  <2>1. worker[w].pc = "idle" /\ worker[w].err = "none" /\ ~worker[w].quiet
    <3>1. Idle.pc = "idle" /\ Idle.err = "none" /\ Idle.quiet = FALSE
      BY DEF Idle
    <3> QED
      BY <1>2, <3>1
  <2> QED
    BY <2>1 DEF WorkerInv, SeenStands, ErrorsEnd, TokensReply, PushesRemembered, AcceptsShown,
       LatersFail, RepliersStop, QuietIsMuted, First, Past, At
<1>5. ASSUME NEW id \in Deliveries PROVE ShownOnce(id) /\ FirstIsAlone(id)
  BY <1>1, <1>4 DEF Init, NoRow, ShownOnce, FirstIsAlone, First, Past, At
<1> QED
  BY <1>3, <1>4, <1>5 DEF IInv

LEMMA InvariantHolds == Spec => []IInv
<1> QED
  BY InitInv, Inductive, PTL DEF Spec

-----------------------------------------------------------------------------
(* Theorems.                                                                  *)

\* Rows, deliver's locals, what LINE remembers and the counters have their types.
THEOREM TypeCorrect == Spec => []TypeOK
<1>1. IInv => TypeOK
  BY DEF IInv
<1> QED
  BY <1>1, InvariantHolds, PTL

\* deliver's two checks keep an answer unsent that was claimed under a mute, as
\* long as the mute lasts.
THEOREM MutedAnswersStayUnsentAlways == Spec => []MutedAnswersStayUnsent
<1>1. IInv => MutedAnswersStayUnsent
  BY DEF IInv, QuietIsMuted, MutedAnswersStayUnsent
<1> QED
  BY <1>1, InvariantHolds, PTL

LEMMA QueueStep ==
  ASSUME IInv, Next, status = "waiting_admin", status' = "open"
  PROVE  \/ resume = "open"
         \/ \E id \in AdminDeliveries : /\ row[id].status = "SENDING"
                                        /\ row'[id].status = "ACCEPTED"
                                        /\ shown[id] = 1
<1> USE DEF lineVars, gateVars, logVars, resumeVars, timeVars, roomVars
<1>1. (\E w \in Workers : Accept(w) \/ AcceptUnacknowledged(w)) \/ ResumeOpens
  <2>1. ASSUME NEW w \in Workers, Attempt(w) \/ Abandon(w), ~Accept(w), ~AcceptUnacknowledged(w)
        PROVE  UNCHANGED status
    BY <2>1 DEF Attempt, ClaimLost, Claim, Check, ReplyAccepted, ReplyFallsBack, ReplyRejected,
       ReplyUnanswered, SwitchToPush, Mute, CheckAgain, PushAccepted, PushRejected, PushUnanswered,
       AcceptLost, LocalError, FinishAttempt, SaveHistory, AppendTurn, MarkFinalized, Abandon
  <2>2. ASSUME NEW id \in Deliveries, Time(id) PROVE UNCHANGED status
    BY <2>2 DEF Time, LeaseLapses, BecomesDue, TokenExpires, KeyNearsExpiry, KeyForgotten
  <2> QED
    BY <2>1, <2>2 DEF Next, SaveReply, SendAdminMessage, Recover, Deliver, Begin, MuteExpires,
       RequestAdmin, ResumeUnmutes, ResumeClears, ResumeFails, CustomerMessage
<1>2. CASE ResumeOpens
  BY <1>2 DEF ResumeOpens
<1>3. ASSUME NEW w \in Workers, Accept(w) \/ AcceptUnacknowledged(w)
      PROVE  \E id \in AdminDeliveries : /\ row[id].status = "SENDING"
                                         /\ row'[id].status = "ACCEPTED"
                                         /\ shown[id] = 1
  <2>1. AcceptWrites(w) /\ Owns(w) /\ At(w, "accept")
    BY <1>3 DEF Accept, AcceptUnacknowledged
  <2>2. Id(w) \in AdminDeliveries
    BY <2>1 DEF AcceptWrites
  <2>3. shown[Id(w)] = 1
    BY <2>1 DEF IInv, WorkerInv, AcceptsShown, At
  <2>4. row'[Id(w)].status = "ACCEPTED"
    BY <2>1, <2>2, SetsAssumption DEF AcceptWrites, MarkAccepted, IInv, TypeOK
  <2> QED
    BY <2>1, <2>2, <2>3, <2>4 DEF Owns
<1> QED
  BY <1>1, <1>2, <1>3

\* accept takes a conversation out of the queue only with an administrator's message
\* that the customer has been shown; nothing else but resumeBot does.
THEOREM OnlyAnswersLeaveQueueAlways == Spec => OnlyAnswersLeaveQueue
<1>1. IInv /\ [Next]_vars =>
        [status = "waiting_admin" /\ status' = "open" =>
           \/ resume = "open"
           \/ \E id \in AdminDeliveries : /\ row[id].status = "SENDING"
                                          /\ row'[id].status = "ACCEPTED"
                                          /\ shown[id] = 1]_vars
  BY QueueStep
<1> QED
  BY <1>1, InvariantHolds, PTL DEF Spec, OnlyAnswersLeaveQueue

-----------------------------------------------------------------------------
(* deliver implements the outbox.                                             *)

Told == [id \in Deliveries |-> Outcome(id)]

LEMMA OutboxInit == Init => Outbox!Init
BY DEF Init, Outbox!Init, NoRow, Outcome

\* The step tells the sender of one message how it ended.
LEMMA TellStep ==
  ASSUME NEW id \in Deliveries, NEW o \in {"ACCEPTED", "FAILED", "UNKNOWN"},
         row[id].status = "SENDING", row'[id].status = o, o = "ACCEPTED" => shown[id] = 1,
         \A d \in Deliveries \ {id} : row'[d] = row[d], UNCHANGED shown
  PROVE  Outbox!Next
<1>1. Outcome(id) = "open" /\ Outcome(id)' = o /\ \A d \in Deliveries \ {id} : Outcome(d)' = Outcome(d)
  BY DEF Outcome
<1>2. Told' = [Told EXCEPT ![id] = o] /\ Told[id] = "open"
  BY <1>1 DEF Told
<1>3. Outbox!Tell(id, o)
  BY <1>2 DEF Outbox!Tell, Told
<1> QED
  BY <1>3 DEF Outbox!Next, Outbox!Outcomes

LEMMA ShowStep ==
  ASSUME NEW id \in Deliveries, UNCHANGED row, shown[id] = 0, shown' = [shown EXCEPT ![id] = 1]
  PROVE  Outbox!Next
<1>1. Told' = Told
  BY DEF Told, Outcome
<1>2. Outbox!Show(id)
  BY <1>1 DEF Outbox!Show, Told
<1> QED
  BY <1>2 DEF Outbox!Next

LEMMA SilentStep ==
  ASSUME UNCHANGED shown, \A id \in Deliveries : Outcome(id)' = Outcome(id)
  PROVE  UNCHANGED <<shown, Told>>
BY DEF Told

\* The steps that tell or show something, and what the other steps leave alone.
LEMMA OutboxAttempt ==
  ASSUME IInv, NEW w \in Workers, Attempt(w) \/ Abandon(w)
  PROVE  Outbox!Next \/ UNCHANGED <<shown, Told>>
<1> DEFINE id == Id(w)
<1> USE DEF lineVars, roomVars
<1>1. /\ id \in Deliveries /\ WorkerInv(w) /\ ShownOnce(id) /\ row \in [Deliveries -> Row]
      /\ shown \in [Deliveries -> Nat]
  BY DEF IInv, TypeOK, Id, Row
<1>2. CASE /\ At(w, "reply") /\ id \notin usedTokens /\ UNCHANGED row
           /\ shown' = [shown EXCEPT ![id] = @ + 1]
  <2>1. row[id].method = "REPLY"
    BY <1>1, <1>2 DEF WorkerInv, TokensReply, At
  <2>2. shown[id] = 0
    BY <1>1, <1>2, <2>1 DEF ShownOnce
  <2>3. shown' = [shown EXCEPT ![id] = 1]
    BY <1>1, <1>2, <2>2
  <2> QED
    BY <1>1, <1>2, <2>2, <2>3, ShowStep
<1>3. CASE At(w, "push") /\ TakePush(id) /\ UNCHANGED row
  <2>1. row[id].method = "PUSH" /\ row[id].age \in {"fresh", "old"}
    BY <1>1, <1>3 DEF WorkerInv, PushesRemembered, At
  <2>2. CASE id \in keys
    BY <1>3, <2>2, SilentStep DEF TakePush, Outcome
  <2>3. CASE id \notin keys
    <3>1. shown[id] = 0
      BY <1>1, <2>1, <2>3 DEF ShownOnce
    <3>2. shown' = [shown EXCEPT ![id] = 1]
      BY <1>1, <1>3, <2>3, <3>1 DEF TakePush
    <3> QED
      BY <1>1, <1>3, <3>1, <3>2, ShowStep
  <2> QED
    BY <2>2, <2>3
<1>4. CASE Accept(w) \/ AcceptUnacknowledged(w)
  <2>1. row[id].status = "SENDING" /\ UNCHANGED shown /\ shown[id] = 1
    BY <1>1, <1>4 DEF Accept, AcceptUnacknowledged, AcceptWrites, Owns, WorkerInv, AcceptsShown, At
  <2>2. row'[id].status = "ACCEPTED" /\ \A d \in Deliveries \ {id} : row'[d] = row[d]
    BY <1>1, <1>4 DEF Accept, AcceptUnacknowledged, AcceptWrites, MarkAccepted, Row
  <2> QED
    BY <1>1, <2>1, <2>2, TellStep
<1>5. CASE FinishAttempt(w) /\ Fenced(w)
  <2>1. row[id].status = "SENDING" /\ UNCHANGED shown
    BY <1>5 DEF FinishAttempt, Fenced, Owns
  <2>2. row'[id].status = NextStatus(w) /\ \A d \in Deliveries \ {id} : row'[d] = row[d]
    BY <1>1, <1>5 DEF FinishAttempt, Row
  <2>3. CASE NextStatus(w) = "PENDING"
    BY <2>1, <2>2, <2>3, SilentStep DEF Outcome
  <2>4. CASE NextStatus(w) \in {"FAILED", "UNKNOWN"}
    BY <1>1, <2>1, <2>2, <2>4, TellStep
  <2> QED
    BY <2>3, <2>4 DEF NextStatus
<1>6. CASE Claim(w) \/ SwitchToPush(w) \/ MarkFinalized(w)
  <2>1. UNCHANGED shown
    BY <1>6 DEF Claim, SwitchToPush, MarkFinalized
  <2>2. ASSUME NEW d \in Deliveries PROVE Outcome(d)' = Outcome(d)
    BY <1>1, <1>6 DEF Claim, Claimable, SwitchToPush, MarkFinalized, Outcome, Row
  <2> QED
    BY <2>1, <2>2, SilentStep
<1>7. CASE UNCHANGED <<row, shown>>
  BY <1>7, SilentStep DEF Outcome
<1>8. \/ UNCHANGED <<row, shown>>
      \/ At(w, "reply") /\ id \notin usedTokens /\ UNCHANGED row /\ shown' = [shown EXCEPT ![id] = @ + 1]
      \/ At(w, "push") /\ TakePush(id) /\ UNCHANGED row
      \/ Accept(w) \/ AcceptUnacknowledged(w)
      \/ FinishAttempt(w) /\ Fenced(w)
      \/ Claim(w) \/ SwitchToPush(w) \/ MarkFinalized(w)
  BY DEF Attempt, ClaimLost, Check, ReplyAccepted, ReplyFallsBack, ReplyRejected, ReplyUnanswered,
     Mute, CheckAgain, PushAccepted, PushRejected, PushUnanswered, AcceptLost, LocalError,
     FinishAttempt, SaveHistory, AppendTurn, Abandon
<1> QED
  BY <1>2, <1>3, <1>4, <1>5, <1>6, <1>7, <1>8

LEMMA OutboxStep == IInv /\ [Next]_vars => [Outbox!Next]_<<shown, Told>>
<1> SUFFICES ASSUME IInv, [Next]_vars PROVE Outbox!Next \/ UNCHANGED <<shown, Told>>
  OBVIOUS
<1> USE DEF lineVars, roomVars
<1>1. row \in [Deliveries -> Row]
  BY DEF IInv, TypeOK, Row
<1>2. ASSUME NEW w \in Workers, Attempt(w) \/ Abandon(w) PROVE Outbox!Next \/ UNCHANGED <<shown, Told>>
  BY <1>2, OutboxAttempt
<1>3. ASSUME NEW id \in Deliveries,
             SendAdminMessage(id) \/ Time(id) \/ \E fresh \in BOOLEAN : SaveReply(id, fresh)
      PROVE  UNCHANGED <<shown, Told>>
  <2>1. UNCHANGED shown
    BY <1>3 DEF SendAdminMessage, SaveReply, Time, LeaseLapses, BecomesDue, TokenExpires, KeyNearsExpiry,
       KeyForgotten
  <2>2. ASSUME NEW d \in Deliveries PROVE Outcome(d)' = Outcome(d)
    BY <1>1, <1>3 DEF Row, Outcome, Exists, SendAdminMessage, SaveReply, Time, LeaseLapses, BecomesDue,
       TokenExpires, KeyNearsExpiry, KeyForgotten
  <2> QED
    BY <2>1, <2>2, SilentStep
<1>4. CASE UNCHANGED <<row, shown>>
  BY <1>4, SilentStep DEF Outcome
<1> QED
  BY <1>2, <1>3, <1>4 DEF Next, vars, Recover, Deliver, Begin, MuteExpires, RequestAdmin, ResumeUnmutes,
     ResumeOpens, ResumeClears, ResumeFails, CustomerMessage

\* deliver, its retries and recover implement the outbox: each message is shown at
\* most once and told one outcome, once, ACCEPTED only when it was shown.
THEOREM DeliverImplementsOutbox == Spec => OutboxSpec
<1>1. Init => Outbox!Init
  BY OutboxInit
<1>2. IInv /\ [Next]_vars => [Outbox!Next]_<<shown, [id \in Deliveries |-> Outcome(id)]>>
  BY OutboxStep DEF Told
<1> QED
  BY <1>1, <1>2, InvariantHolds, PTL DEF Spec, OutboxSpec, Outbox!Spec

=============================================================================
