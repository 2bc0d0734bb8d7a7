---------------------------- MODULE Conversation ----------------------------
(* One customer message at a time through chatbot/chatbot.service.ts: the     *)
(* mute flag, the workflow session in Redis, the route, the registration      *)
(* flow, the AI answer and the hand-over to the staff.  A job is one handling *)
(* of one message; the jobs of two processes interleave at every await, and   *)
(* the session a job acts on is the copy it read.  Redis, the rows of the     *)
(* database and the notices of the staff are the shared state.                *)
EXTENDS ChatRouting, Naturals, FiniteSets

CONSTANTS Jobs,         \* handlings that may run at the same time
          Users,        \* customers
          Channels,     \* what a customer may write from
          Phones,       \* phone numbers (and bank accounts) of a form
          Messages,     \* the messages customers send
          None,
          MaxMessages,  \* bound: messages handled
          MaxFaults     \* bound: crashes, failed calls, expiries, unasked staff

ASSUME ChannelsAssumption == Channels \subseteq {"LINE", "APP", "PREVIEW"}

VARIABLES
  session,    \* session[u]: the REGISTER or GENERAL_QUESTION workflow, or None
  muted,      \* muted[u]: the bot is muted (an admin writes, or a pause)
  waiting,    \* waiting[u]: the conversation's status is waiting_admin
  members,    \* created Member rows
  jobs,       \* jobs[j]: the handling j runs
  channel,    \* channel[u]: where u writes from
  enabled,    \* CAN_REGISTER
  linking,    \* the catalog is on: a registration links the LINE account
  notices,    \* notices[u]: notifications written for the staff
  reopened,   \* reopened[u]: how often the staff took it out of that status
  told,       \* <<customer, phone>> of the credentials that were sent
  messages,   \* messages handled so far
  faults

vars == <<session, muted, waiting, members, jobs, channel, enabled, linking,
          notices, reopened, told, messages, faults>>
desk == <<muted, waiting, notices, reopened>>
fixed == <<channel, enabled, linking>>

Values == Phones \union {"", "bad"}
\* phoneNumber (and bankAccount), and the other fields: names and bankName.
Data == [phone: Values, rest: {"", "given"}]
NoData == [phone |-> "", rest |-> ""]
Steps == {"WAITING", "SEND", "CURRENT", "QUESTION"}
\* What a message gives of a form: bare or labelled values, or none.
Forms == [labelled: BOOLEAN, phone: Values \union {"none"}, rest: {"none", "", "given"}]
Message == [kind: {"text", "image", "sticker"}, menu: Menus, text: Texts, form: Forms]
ASSUME MessagesAssumption == Messages \subseteq Message
ASSUME JobsAssumption == IsFiniteSet(Jobs)
Sessions == [flow: {"REGISTER", "GENERAL_QUESTION"}, step: Steps, data: Data]

Idle == [pc |-> "idle", user |-> None, message |-> None, copy |-> None,
         fallback |-> FALSE, selected |-> FALSE, data |-> NoData,
         since |-> 0, said |-> "nothing"]

User(j) == jobs[j].user
InRegister(s) == s # None /\ s.flow = "REGISTER"
CanRegister(u) == enabled /\ channel[u] = "LINE"

Init ==
  /\ channel \in [Users -> Channels]
  /\ session \in [Users -> {None,
                    [flow |-> "REGISTER", step |-> "SEND", data |-> NoData]}]
  /\ \A u \in Users : InRegister(session[u]) => channel[u] = "LINE"
  /\ muted = [u \in Users |-> FALSE]
  /\ waiting = [u \in Users |-> FALSE]
  /\ members = {}
  /\ jobs = [j \in Jobs |-> Idle]
  /\ enabled = TRUE
  /\ linking \in BOOLEAN
  /\ notices = [u \in Users |-> 0]
  /\ reopened = [u \in Users |-> 0]
  /\ told = {}
  /\ messages = 0
  /\ faults = 0

Goto(j, pc) == jobs' = [jobs EXCEPT ![j].pc = pc]
Reply(j, said) == jobs' = [jobs EXCEPT ![j] = [Idle EXCEPT !.said = said]]

--------------------------------------------------------------------------
\* userSession: set, clear and get of the chat:session key.
SetSession(u, s) == session' = [session EXCEPT ![u] = s]
ClearSession(u) == SetSession(u, None)
RegisterAt(step, data) == [flow |-> "REGISTER", step |-> step, data |-> data]

\* register.parser: a labelled value overwrites, a bare one fills a gap.
Parse(form, old) ==
  [phone |-> IF form.phone = "none" THEN old.phone
             ELSE IF form.labelled THEN form.phone
             ELSE IF form.phone \in Phones /\ old.phone = "" THEN form.phone
             ELSE old.phone,
   rest |-> IF form.rest = "none" THEN old.rest
            ELSE IF form.labelled \/ old.rest = "" THEN form.rest ELSE old.rest]

\* A plausible bug: the digits are not checked.
IsValidIfGiven(data) == data.phone # ""

\* register.validator
IsComplete(data) == data.phone # "" /\ data.rest # ""
IsValid(data) == data.phone \in Phones

--------------------------------------------------------------------------
\* A webhook, the app or a preview hands a message to a process; images and stickers come
\* from LINE alone, so that the text of a sticker may go without its channel.
Begin(j, u, message) ==
  /\ jobs[j].pc = "idle"
  /\ message.kind = "text" \/ channel[u] = "LINE"
  /\ messages < MaxMessages
  /\ messages' = messages + 1
  /\ jobs' = [jobs EXCEPT ![j] = [Idle EXCEPT !.pc = "mute", !.user = u,
                !.message = message, !.since = reopened[u]]]
  /\ UNCHANGED <<session, desk, members, fixed, told, faults>>

\* handle...Message: isMuted, before anything else is read.
CheckMute(j) ==
  /\ jobs[j].pc = "mute"
  /\ \/ muted[User(j)] /\ Reply(j, "silence")
     \/ ~muted[User(j)] /\ jobs[j].message.kind = "image" /\ Goto(j, "image")
     \/ ~muted[User(j)] /\ jobs[j].message.kind = "text" /\ Goto(j, "session")
  /\ UNCHANGED <<session, desk, members, fixed, told, messages, faults>>

\* handleStickerMessage: a social sticker or one without text is answered at
\* once, the text of another is handled as a message of its own.
ResolveSticker(j) ==
  /\ jobs[j].pc = "mute"
  /\ jobs[j].message.kind = "sticker"
  /\ ~muted[User(j)]
  /\ Reply(j, "template") \/ jobs' = [jobs EXCEPT ![j].message.kind = "text"]
  /\ UNCHANGED <<session, desk, members, fixed, told, messages, faults>>

\* The step an action starts with, given the copy of the session.
FirstStep(action, copy, can) ==
  CASE action = "CANCEL_SESSION" -> IF InRegister(copy) THEN "clear" ELSE "say"
    [] action = "CONTINUE_REGISTER" ->
         IF ~can THEN "clear"
         ELSE CASE copy.step = "WAITING" -> "setsend"
                [] copy.step = "SEND" -> "setform"
                [] copy.step = "CURRENT" /\ IsComplete(copy.data) -> "setcurrent"
                [] OTHER -> "say"
    [] action = "START_REGISTER" -> IF can THEN "setwaiting" ELSE "say"
    [] action = "START_AI_CHAT" -> IF InRegister(copy) THEN "say" ELSE "setquestion"
    [] action \in {"GENERAL_QUESTION", "ANSWER_KNOWLEDGE"} -> "answer"
    [] action = "RICH_MENU_REPLY" -> IF copy # None THEN "clear" ELSE "say"
    [] action = "CONTACT_ADMIN" -> "handover"
    [] OTHER -> "say"

Decided(j, copy, decision) ==
  [jobs[j] EXCEPT !.copy = copy, !.fallback = decision.fallback,
     !.pc = FirstStep(decision.action, copy, CanRegister(User(j))),
     !.data = IF InRegister(copy)
              THEN IF copy.step = "SEND" THEN Parse(jobs[j].message.form, copy.data)
                   ELSE copy.data
              ELSE NoData]

\* answerText: get the session; short-cuts; a flow switched off; the gates.
ReadSession(j) ==
  LET message == jobs[j].message
      copy == session[User(j)]
      verdict == Gate(message, InRegister(copy))
  IN /\ jobs[j].pc = "session"
     /\ jobs' = [jobs EXCEPT ![j] =
          CASE message.text \in {"blank", "long"} ->
                 [@ EXCEPT !.pc = "say", !.copy = copy]
            [] InRegister(copy) /\ ~CanRegister(User(j)) /\ message.text # "cancel" ->
                 [@ EXCEPT !.pc = "clear", !.copy = copy]
            [] OTHER ->
                 IF verdict = Search THEN [@ EXCEPT !.pc = "search", !.copy = copy]
                 ELSE Decided(j, copy, verdict)]
     /\ UNCHANGED <<session, desk, members, fixed, told, messages, faults>>

\* knowledgeRetrieval.retrieve, and what it decides.
Retrieve(j) ==
  /\ jobs[j].pc = "search"
  /\ \E r \in Retrievals :
       /\ InRegister(jobs[j].copy) => ~r.product /\ ~r.planner
       /\ LET d == DecideFromRetrieval(r) IN
          IF d = {} THEN jobs' = [jobs EXCEPT ![j].pc = "classify",
                                              ![j].selected = r.selected]
          ELSE \E x \in d : jobs' = [jobs EXCEPT ![j] = Decided(j, jobs[j].copy, x)]
  /\ UNCHANGED <<session, desk, members, fixed, told, messages, faults>>

\* classifyLowConfidence: an exhausted budget or a bad answer is a failure.
ClassifyLowConfidence(j) ==
  /\ jobs[j].pc = "classify"
  /\ \E analysis \in {FailedAnalysis} \union [class: {"BUSINESS", "GENERAL"}, failed: {FALSE}] :
       jobs' = [jobs EXCEPT ![j] = Decided(j, jobs[j].copy,
                  ResolveLowConfidence([selected |-> jobs[j].selected], analysis))]
  /\ UNCHANGED <<session, desk, members, fixed, told, messages, faults>>

\* A route that only answers.
Say(j) ==
  /\ jobs[j].pc = "say"
  /\ Reply(j, "template")
  /\ UNCHANGED <<session, desk, members, fixed, told, messages, faults>>

\* Cancel, a menu reply, or a registration that is switched off ends the flow.
EndFlow(j) ==
  /\ jobs[j].pc = "clear"
  /\ ClearSession(User(j))
  /\ Reply(j, "template")
  /\ UNCHANGED <<desk, members, fixed, told, messages, faults>>

StartQuestion(j) ==
  /\ jobs[j].pc = "setquestion"
  /\ SetSession(User(j), [flow |-> "GENERAL_QUESTION", step |-> "QUESTION",
                          data |-> NoData])
  /\ Reply(j, "template")
  /\ UNCHANGED <<desk, members, fixed, told, messages, faults>>

\* A plausible bug: the fallback text without the hand-over.
AnswerFallbackAlone(j) ==
  /\ jobs[j].pc \in {"answer", "image"}
  /\ Reply(j, "answer") \/ Reply(j, "fallback")
  /\ UNCHANGED <<session, desk, members, fixed, told, messages, faults>>

--------------------------------------------------------------------------
\* answerGeneral, answerKnowledge, answerImage, then aiResponse: an answer, the
\* fallback text (which asks for the staff), or no reply without credit.
Answer(j) ==
  /\ jobs[j].pc \in {"answer", "image"}
  /\ \/ Reply(j, "answer")
     \/ jobs' = [jobs EXCEPT ![j].pc = "handover",
                             ![j].fallback = TRUE]
  /\ UNCHANGED <<session, desk, members, fixed, told, messages, faults>>

\* withoutCredit: any AI call of the turn may find the wallet empty.
WithoutCredit(j) ==
  /\ jobs[j].pc \in {"search", "classify", "answer", "image"}
  /\ Reply(j, "silence")
  /\ UNCHANGED <<session, desk, members, fixed, told, messages, faults>>

AfterHandover(j) ==
  Reply(j, IF jobs[j].fallback THEN "fallback" ELSE "contact")

\* A plausible bug: the update does not ask for the status.
RequestAdminAlways(j) ==
  /\ jobs[j].pc = "handover"
  /\ channel[User(j)] # "PREVIEW"
  /\ waiting' = [waiting EXCEPT ![User(j)] = TRUE]
  /\ Goto(j, "notice")
  /\ UNCHANGED <<session, muted, notices, reopened, members, fixed, told,
                 messages, faults>>

\* requestAdmin: only the update that changes the status sends a notice.
RequestAdmin(j) ==
  LET u == User(j) IN
  /\ jobs[j].pc = "handover"
  /\ channel[u] # "PREVIEW"
  /\ ~waiting[u]
  /\ waiting' = [waiting EXCEPT ![u] = TRUE]
  /\ Goto(j, "notice")
  /\ UNCHANGED <<session, muted, notices, reopened, members, fixed, told,
                 messages, faults>>

\* Already waiting, or the simulated customer of a preview, who has no row.
RequestAdminAgain(j) ==
  /\ jobs[j].pc = "handover"
  /\ channel[User(j)] = "PREVIEW" \/ waiting[User(j)]
  /\ AfterHandover(j)
  /\ UNCHANGED <<session, desk, members, fixed, told, messages, faults>>

NotifyAdminRequired(j) ==
  /\ jobs[j].pc = "notice"
  /\ notices' = [notices EXCEPT ![User(j)] = @ + 1]
  /\ AfterHandover(j)
  /\ UNCHANGED <<session, muted, waiting, reopened, members, fixed,
                 told, messages, faults>>

\* A failed notice is logged; the customer is answered all the same.
NotifyFails(j) ==
  /\ jobs[j].pc = "notice"
  /\ faults < MaxFaults
  /\ faults' = faults + 1
  /\ AfterHandover(j)
  /\ UNCHANGED <<session, desk, members, fixed, told, messages>>

--------------------------------------------------------------------------
\* registration-flow: start writes the session twice.
StartRegister(j) ==
  /\ jobs[j].pc = "setwaiting"
  /\ SetSession(User(j), RegisterAt("WAITING", NoData))
  /\ jobs' = [jobs EXCEPT ![j].pc = "setsend", ![j].data = NoData]
  /\ UNCHANGED <<desk, members, fixed, told, messages, faults>>

HandleWaitingRegisterForm(j) ==
  /\ jobs[j].pc = "setsend"
  /\ SetSession(User(j), RegisterAt("SEND", jobs[j].data))
  /\ Reply(j, "template")
  /\ UNCHANGED <<desk, members, fixed, told, messages, faults>>

HandleSendRegisterForm(j) ==
  /\ jobs[j].pc = "setform"
  /\ SetSession(User(j), RegisterAt("SEND", jobs[j].data))
  /\ IF IsComplete(jobs[j].data) /\ IsValid(jobs[j].data)
     THEN Goto(j, "setcurrent") ELSE Reply(j, "template")
  /\ UNCHANGED <<desk, members, fixed, told, messages, faults>>

HandleCurrentRegister(j) ==
  /\ jobs[j].pc = "setcurrent"
  /\ SetSession(User(j), RegisterAt("CURRENT", jobs[j].data))
  /\ Goto(j, "unique")
  /\ UNCHANGED <<desk, members, fixed, told, messages, faults>>

\* registration.service: the rows a request would collide with.
Taken(phone) == \E member \in members : member.phone = phone
Linked(u) == \E member \in members : member.link /\ member.owner = u
Member(owner, data, link) ==
  [owner |-> owner, phone |-> data.phone, rest |-> data.rest, link |-> link]

AssertUniqueMemberData(j) ==
  /\ jobs[j].pc = "unique"
  /\ Goto(j, IF Taken(jobs[j].data.phone) THEN "refused" ELSE "create")
  /\ UNCHANGED <<session, desk, members, fixed, told, messages, faults>>

\* One transaction with the unique columns and the link of the LINE account.
CreateMember(j) ==
  LET u == User(j)
      data == jobs[j].data
  IN /\ jobs[j].pc = "create"
     /\ IF Taken(data.phone) \/ (linking /\ Linked(u))
        THEN Goto(j, "refused") /\ UNCHANGED members
        ELSE Goto(j, "created") /\ members' = members \union {Member(u, data, linking)}
     /\ UNCHANGED <<session, desk, fixed, told, messages, faults>>

\* clear, then the credentials are sent.
SendAuthToUser(j) ==
  /\ jobs[j].pc = "created"
  /\ ClearSession(User(j))
  /\ told' = told \union {<<User(j), jobs[j].data.phone>>}
  /\ Reply(j, "credentials")
  /\ UNCHANGED <<desk, members, fixed, messages, faults>>

\* The catch: a refused row, or a failure after the row was created.
RegistrationFails(j) ==
  /\ \/ /\ jobs[j].pc = "refused"
        /\ UNCHANGED faults
     \/ /\ jobs[j].pc \in {"unique", "create", "created"}
        /\ faults < MaxFaults
        /\ faults' = faults + 1
  /\ SetSession(User(j), RegisterAt("SEND", jobs[j].data))
  /\ Reply(j, "template")
  /\ UNCHANGED <<desk, members, fixed, told, messages>>

\* POST /registration/register creates a member without a conversation.
Register(data) ==
  /\ enabled
  /\ messages < MaxMessages
  /\ ~Taken(data.phone)
  /\ members' = members \union {Member(None, data, FALSE)}
  /\ messages' = messages + 1
  /\ UNCHANGED <<session, desk, jobs, fixed, told, faults>>

--------------------------------------------------------------------------
\* An error that reaches the webhook, or the death of the process, before the
\* reply is kept: the message is handled again from its start.
HandledAgain(j) ==
  /\ jobs[j].pc # "idle"
  /\ faults < MaxFaults
  /\ faults' = faults + 1
  /\ jobs' = [jobs EXCEPT ![j] = [Idle EXCEPT !.pc = "mute", !.user = jobs[j].user,
                !.message = jobs[j].message, !.since = reopened[User(j)]]]
  /\ UNCHANGED <<session, desk, members, fixed, told, messages>>

\* The staff takes a conversation out of its queue.
TakeOut(u) ==
  /\ waiting[u]
  /\ waiting' = [waiting EXCEPT ![u] = FALSE]
  /\ reopened' = [reopened EXCEPT ![u] = @ + 1]

\* An admin answers a customer who waits: the bot is muted.
AdminReplies(u) ==
  /\ TakeOut(u)
  /\ muted' = [muted EXCEPT ![u] = TRUE]
  /\ UNCHANGED <<session, members, jobs, fixed, notices, told, messages, faults>>

\* pauseBot, or the answer to a customer who does not wait: whoever waits still does.
PauseBot(u) ==
  /\ ~muted[u] /\ faults < MaxFaults
  /\ muted' = [muted EXCEPT ![u] = TRUE]
  /\ faults' = faults + 1
  /\ UNCHANGED <<session, waiting, members, jobs, fixed, notices, reopened, told, messages>>

\* resumeBot deletes the mute, which may also run out ...
ResumeUnmutes(u) ==
  /\ muted[u]
  /\ muted' = [muted EXCEPT ![u] = FALSE]
  /\ UNCHANGED <<session, waiting, members, jobs, fixed, notices,
                 reopened, told, messages, faults>>

\* ... and then opens the conversation, whatever its status has become and though nobody
\* answered a customer who waits.
ResumeOpens(u) ==
  /\ TakeOut(u)
  /\ UNCHANGED <<session, muted, members, jobs, fixed, notices, told, messages, faults>>

\* The session's time to live runs out.
SessionExpires(u) ==
  /\ session[u] # None
  /\ faults < MaxFaults
  /\ ClearSession(u)
  /\ faults' = faults + 1
  /\ UNCHANGED <<desk, members, jobs, fixed, told, messages>>

\* A deployment switches registration on or off.
ToggleRegistration ==
  /\ faults < MaxFaults
  /\ enabled' = ~enabled
  /\ faults' = faults + 1
  /\ UNCHANGED <<session, desk, members, jobs, channel, linking, told, messages>>

Route(j) == CheckMute(j) \/ ResolveSticker(j) \/ ReadSession(j) \/ Retrieve(j)
            \/ ClassifyLowConfidence(j) \/ Say(j) \/ EndFlow(j) \/ StartQuestion(j)
Handover(j) == Answer(j) \/ WithoutCredit(j) \/ RequestAdmin(j) \/ RequestAdminAgain(j)
               \/ NotifyAdminRequired(j) \/ NotifyFails(j)
Registration(j) == StartRegister(j) \/ HandleWaitingRegisterForm(j)
                   \/ HandleSendRegisterForm(j) \/ HandleCurrentRegister(j)
                   \/ AssertUniqueMemberData(j) \/ CreateMember(j)
                   \/ SendAuthToUser(j) \/ RegistrationFails(j)

Next ==
  \/ \E j \in Jobs, u \in Users, message \in Messages : Begin(j, u, message)
  \/ \E j \in Jobs : Route(j) \/ Handover(j) \/ Registration(j) \/ HandledAgain(j)
  \/ \E u \in Users : AdminReplies(u) \/ PauseBot(u) \/ ResumeUnmutes(u) \/ ResumeOpens(u)
                    \/ SessionExpires(u)
  \/ \E phone \in Phones : Register([phone |-> phone, rest |-> "given"])
  \/ ToggleRegistration

Spec == Init /\ [][Next]_vars

--------------------------------------------------------------------------
\* Rows, sessions and locals keep their types.
TypeOK ==
  /\ session \in [Users -> Sessions \union {None}]
  /\ muted \in [Users -> BOOLEAN]
  /\ waiting \in [Users -> BOOLEAN]
  /\ members \subseteq [owner: Users \union {None}, phone: Values,
                        rest: {"", "given"}, link: BOOLEAN]
  /\ \A j \in Jobs :
       /\ jobs[j].pc # "idle" => User(j) \in Users /\ jobs[j].since <= reopened[User(j)]
       /\ jobs[j].data \in Data
       /\ jobs[j].copy \in Sessions \union {None}
  /\ told \subseteq Users \X Values

\* A conversation is announced to the staff at most once for each time it enters their
\* queue, however many of the customer's messages end in the hand-over at the same time, in
\* both processes and with retries: requestAdmin notifies only after the update that set the
\* status.  It leaves the queue by an answer, or because an admin resumed the bot; a second
\* notice needs one of these.
OneNoticePerRequest ==
  \A u \in Users :
    notices[u] + Cardinality({j \in Jobs : User(j) = u /\ jobs[j].pc = "notice"})
      <= reopened[u] + (IF waiting[u] THEN 1 ELSE 0)

\* A registration form is personal data: the copy of the session that put the
\* customer in the flow keeps his message out of search, classifier and answer.
FormsStayInTheFlow ==
  \A j \in Jobs :
    jobs[j].pc \in {"search", "classify", "answer"}
      /\ jobs[j].message.text = "form" /\ jobs[j].message.menu \in {"NONE", "GONE"}
    => ~InRegister(jobs[j].copy)

\* Whatever sessions, copies and retries a registration went through, members
\* hold checked data, a LINE account is linked to one, and credentials only
\* reach the customer whose form created the member.
RegistrationsAreSound ==
  /\ \A m \in members : m.phone \in Phones /\ m.rest = "given"
  /\ \A m, n \in members : m.link /\ n.link /\ m.owner = n.owner => m = n
  /\ \A t \in told : \E m \in members : m.owner = t[1] /\ m.phone = t[2]

\* A customer who is told that the staff will answer is in the staff's queue, or an admin
\* took the conversation out of it since his message came in, by an answer or by resuming
\* the bot: neither a second process, a retry nor a pause loses the request, only a person.
StaffIsAsked ==
  [][\A j \in Jobs :
       jobs[j].pc # "idle" /\ jobs'[j].said \in {"fallback", "contact"} /\ jobs'[j] # jobs[j]
       => \/ channel[User(j)] = "PREVIEW"
          \/ waiting'[User(j)]
          \/ reopened'[User(j)] > jobs[j].since]_vars
=============================================================================
