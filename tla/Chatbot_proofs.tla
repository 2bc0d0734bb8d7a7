--------------------------- MODULE Chatbot_proofs ---------------------------
(* Machine-checked facts about Conversation, for any finite number of          *)
(* handlings and any customers, messages, phones and faults; and about         *)
(* Knowledge, for any rows, wordings, questions and administrators.            *)
EXTENDS Conversation, Knowledge, FiniteSetTheorems, WellFoundedInduction, TLAPS

PCs == {"idle", "mute", "image", "session", "search", "classify", "say", "clear",
        "setquestion", "answer", "handover", "notice", "setwaiting", "setsend", "setform",
        "setcurrent", "unique", "create", "refused", "created"}
Said == {"nothing", "silence", "template", "answer", "fallback", "contact", "credentials"}
Job == [pc: PCs, user: Users \union {None}, message: Message \union {None},
        copy: Sessions \union {None}, fallback: BOOLEAN, selected: BOOLEAN, data: Data,
        since: Nat, said: Said]
MemberRow == [owner: Users \union {None}, phone: Values, rest: {"", "given"}, link: BOOLEAN]

-----------------------------------------------------------------------------
(* The inductive invariant.                                                    *)

\* A form whose data passed the validator.
Checked(data) == data.phone \in Phones /\ data.rest = "given"
\* A session that has reached the check of the data holds such a form.
Advanced(s) == s # None /\ s.step = "CURRENT" => Checked(s.data)

\* A handling has a message of a customer and nothing to say yet; past the check it
\* holds checked data; a form does not leave the flow.
Sane(r) ==
  /\ r \in Job
  /\ r.pc # "idle" => r.user \in Users /\ r.message \in Message /\ r.said = "nothing"
  /\ Advanced(r.copy)
  /\ r.pc \in {"setcurrent", "unique", "create", "created"} => Checked(r.data)
  /\ r.pc \in {"search", "classify", "answer"}
       /\ r.message.text = "form" /\ r.message.menu \in {"NONE", "GONE"}
     => ~InRegister(r.copy)

Typed ==
  /\ session \in [Users -> Sessions \union {None}] /\ \A u \in Users : Advanced(session[u])
  /\ muted \in [Users -> BOOLEAN] /\ waiting \in [Users -> BOOLEAN]
  /\ members \subseteq MemberRow
  /\ jobs \in [Jobs -> Job] /\ \A j \in Jobs : Sane(jobs[j])
  /\ linking \in BOOLEAN
  /\ notices \in [Users -> Nat] /\ reopened \in [Users -> Nat]
  /\ told \subseteq Users \X Values

\* A handling began before the replies that are still to come; while it writes the
\* notice, the customer waits or has been answered since.
Asked ==
  \A j \in Jobs :
    /\ jobs[j].pc # "idle" => jobs[j].since <= reopened[User(j)]
    /\ jobs[j].pc = "notice" => waiting[User(j)] \/ reopened[User(j)] > jobs[j].since

\* Credentials about to be sent are those of a member the customer's form created.
Created ==
  \A j \in Jobs :
    jobs[j].pc = "created" =>
      \E m \in members : m.owner = User(j) /\ m.phone = jobs[j].data.phone

IInv == Typed /\ Asked /\ Created /\ OneNoticePerRequest /\ RegistrationsAreSound

-----------------------------------------------------------------------------
(* Routing.                                                                    *)

LEMMA DecisionTypes ==
  \A action \in Actions, fallback \in BOOLEAN :
    Decision(action, fallback) \in Decisions /\ Decision(action, fallback).action = action
BY DEF Decision, Decisions

LEMMA RuleActions ==
  \A i \in Intents \union {"UNKNOWN"} : RULE_MAP[i] \in Actions \ {"CONTINUE_REGISTER"}
BY DEF Intents, Actions, RULE_MAP

LEMMA FromRuleTypes ==
  ASSUME NEW i \in Intents \union {"UNKNOWN"}
  PROVE  /\ FromRule(i) \in Decisions /\ FromRule(i).action # "CONTINUE_REGISTER"
         /\ FromTrustedRule(i) = FromRule(i) \/ FromTrustedRule(i) = Search
<1>1. RULE_MAP[i] \in Actions \ {"CONTINUE_REGISTER"}
  BY RuleActions
<1> QED
  BY <1>1, DecisionTypes DEF FromRule, FromTrustedRule

LEMMA DetectTypes ==
  ASSUME NEW text \in Texts
  PROVE  Detect(text) \in Intents \union {"UNKNOWN"}
BY DEF Detect, Texts, Intents

\* The flow goes on only for a customer in it, and takes what no rule understands.
LEMMA GateRoutes ==
  ASSUME NEW message \in Message, NEW in \in BOOLEAN
  PROVE  LET d == Gate(message, in) IN
         /\ d \in Decisions \/ d = Search
         /\ d.action = "CONTINUE_REGISTER" => in
         /\ message.text = "form" /\ message.menu \in {"NONE", "GONE"} /\ in =>
              d = Decision("CONTINUE_REGISTER", FALSE)
<1> DEFINE d == Gate(message, in)
           rule == Detect(message.text)
<1>1. message.text \in Texts /\ message.menu \in Menus
  BY DEF Message
<1>2. rule \in Intents \union {"UNKNOWN"}
  BY <1>1, DetectTypes
<1>3. CASE ResolveRichMenu(message.menu) # {}
  <2>1. message.menu \notin {"NONE", "GONE"}
    BY <1>3 DEF ResolveRichMenu, Intents
  <2>2. d \in ResolveRichMenu(message.menu)
    BY <1>3 DEF Gate
  <2>3. d = Decision("RICH_MENU_REPLY", FALSE) \/ \E i \in Intents : d = FromRule(i)
    BY <1>1, <2>2 DEF ResolveRichMenu, Menus
  <2>4. d \in Decisions /\ d.action # "CONTINUE_REGISTER"
    <3>1. CASE d = Decision("RICH_MENU_REPLY", FALSE)
      BY <3>1, DecisionTypes DEF Actions
    <3>2. ASSUME NEW i \in Intents, d = FromRule(i)
          PROVE  d \in Decisions /\ d.action # "CONTINUE_REGISTER"
      BY <3>2, FromRuleTypes
    <3> QED
      BY <2>3, <3>1, <3>2
  <2> QED
    BY <2>1, <2>4
<1>4. CASE ResolveRichMenu(message.menu) = {}
  <2>1. d = GateBeforeSearch(message.text, in)
    BY <1>4 DEF Gate
  <2>2. \/ d = FromRule(rule)
        \/ d = Decision("CANCEL_SESSION", FALSE)
        \/ d = Search
        \/ d = FromTrustedRule(rule)
        \/ d = Decision("CONTINUE_REGISTER", FALSE) /\ in
    BY <2>1 DEF GateBeforeSearch, RegisterSession
  <2>3. (d \in Decisions \/ d = Search) /\ (d.action = "CONTINUE_REGISTER" => in)
    <3>1. CASE \/ d = Decision("CANCEL_SESSION", FALSE)
               \/ d = Decision("CONTINUE_REGISTER", FALSE) /\ in
      BY <3>1, DecisionTypes DEF Actions
    <3>2. CASE d = Search
      BY <3>2 DEF Search
    <3>3. CASE d = FromRule(rule) \/ d = FromTrustedRule(rule)
      BY <1>2, <3>2, <3>3, FromRuleTypes
    <3> QED
      BY <2>2, <3>1, <3>2, <3>3
  <2>4. message.text = "form" /\ in => d = Decision("CONTINUE_REGISTER", FALSE)
    BY <2>1 DEF GateBeforeSearch, RegisterSession, Detect
  <2> QED
    BY <2>3, <2>4
<1> QED
  BY <1>3, <1>4

LEMMA RetrievalRoutes ==
  \A r \in Retrievals : \A d \in DecideFromRetrieval(r) :
    d \in Decisions /\ d.action # "CONTINUE_REGISTER"
<1> TAKE r \in Retrievals
<1> TAKE d \in DecideFromRetrieval(r)
<1>1. \E action \in {"ANSWER_KNOWLEDGE", "CLARIFY", "CONTACT_ADMIN"}, fallback \in BOOLEAN :
        d = Decision(action, fallback)
  BY DEF DecideFromRetrieval
<1> QED
  BY <1>1, DecisionTypes DEF Actions

LEMMA ClassifierRoutes ==
  ASSUME NEW r, NEW analysis
  PROVE  LET d == ResolveLowConfidence(r, analysis) IN
         d \in Decisions /\ d.action # "CONTINUE_REGISTER"
BY DEF ResolveLowConfidence, Decision, Decisions, Actions

\* The step a decision leads to.
Routed == {"clear", "say", "setsend", "setform", "setcurrent", "setwaiting", "setquestion",
           "answer", "handover"}

LEMMA FirstStepTypes ==
  ASSUME NEW action, NEW copy, NEW can \in BOOLEAN
  PROVE  /\ FirstStep(action, copy, can) \in Routed
         /\ FirstStep(action, copy, can) = "answer" =>
              action \in {"GENERAL_QUESTION", "ANSWER_KNOWLEDGE"}
         /\ FirstStep(action, copy, can) = "setcurrent" =>
              action = "CONTINUE_REGISTER" /\ copy.step = "CURRENT"
BY DEF FirstStep, Routed

LEMMA ParseTypes ==
  ASSUME NEW form \in Forms, NEW old \in Data
  PROVE  Parse(form, old) \in Data
BY DEF Parse, Forms, Data, Values
LEMMA RetrievalTypes ==
  \A r \in Retrievals : r.selected \in BOOLEAN
<1> DEFINE A == {Outcome("LOW_CONFIDENCE", reason, FALSE, planner, FALSE) :
                   reason \in Unselected, planner \in BOOLEAN}
           B == {Outcome("LOW_CONFIDENCE", "BELOW_MIN_VECTOR_SIMILARITY", TRUE, planner, FALSE) :
                   planner \in BOOLEAN}
           C == {Outcome(route, "none", TRUE, planner, FALSE) :
                   route \in {"DIRECT", "RAG"}, planner \in BOOLEAN}
<1>1. \A r \in A : r.selected = FALSE
  BY DEF Outcome
<1>2. \A r \in B : r.selected = TRUE
  BY DEF Outcome
<1>3. \A r \in C : r.selected = TRUE
  BY DEF Outcome
<1>4. Outcome("RAG", "none", TRUE, FALSE, TRUE).selected = TRUE
  BY DEF Outcome
<1>5. Retrievals = A \union B \union C \union {Outcome("RAG", "none", TRUE, FALSE, TRUE)}
  BY DEF Retrievals
<1> HIDE DEF A, B, C
<1> QED
  BY <1>1, <1>2, <1>3, <1>4, <1>5

-----------------------------------------------------------------------------
(* What a handling may become.                                                 *)

\* The values of a new, ended, or started handling.
\* The handlings the steps write.
Copied(old, pc, copy) == [old EXCEPT !.pc = pc, !.copy = copy]
Classified(old, selected) == [old EXCEPT !.pc = "classify", !.selected = selected]
HandedOver(old) == [old EXCEPT !.pc = "handover", !.fallback = TRUE]
RestartedForm(old) == [old EXCEPT !.pc = "setsend", !.data = NoData]
Begun(u, message, since) ==
  [Idle EXCEPT !.pc = "mute", !.user = u, !.message = message, !.since = since]

LEMMA IdleTypes == Idle \in Job
<1>1. NoData \in Data
  BY DEF NoData, Data, Values
<1> QED
  BY <1>1 DEF Idle, Job, PCs, Said

LEMMA IdleSane ==
  ASSUME NEW said \in Said
  PROVE  LET r == [Idle EXCEPT !.said = said] IN Sane(r) /\ r.pc = "idle" /\ r.said = said
<1> DEFINE r == [Idle EXCEPT !.said = said]
<1>1. Idle \in Job
  BY IdleTypes
<1>2. r \in Job
  BY <1>1, Zenon DEF Job
<1>3. r.pc = "idle" /\ r.said = said /\ r.copy = None
  BY DEF Idle
<1> HIDE DEF r
<1>4. Sane(r)
  BY <1>2, <1>3 DEF Sane, Advanced
<1> QED
  BY <1>3, <1>4 DEF r

LEMMA BegunSane ==
  ASSUME NEW u \in Users, NEW message \in Message, NEW since \in Nat
  PROVE  LET r == Begun(u, message, since) IN
         Sane(r) /\ r.pc = "mute" /\ r.user = u /\ r.since = since
<1> DEFINE r == Begun(u, message, since)
<1>1. Idle \in Job /\ "mute" \in PCs
  BY IdleTypes DEF PCs
<1>2. r \in Job
  BY <1>1, Zenon DEF Job, Begun
<1>3. /\ r.pc = "mute" /\ r.user = u /\ r.message = message /\ r.said = "nothing"
      /\ r.copy = None /\ r.since = since
  BY DEF Idle, Begun
<1> HIDE DEF r
<1>4. Sane(r)
  BY <1>2, <1>3 DEF Sane, Advanced
<1> QED
  BY <1>3, <1>4 DEF r

\* A handling that moves to a step of its own, keeping its user and its beginning.
Follows(r, old) == r.user = old.user /\ r.since = old.since

LEMMA GotoSane ==
  ASSUME NEW old, Sane(old), old.pc # "idle", NEW pc \in PCs \ {"search", "classify", "answer"},
         pc \in {"setcurrent", "unique", "create", "created"} => Checked(old.data)
  PROVE  LET r == [old EXCEPT !.pc = pc] IN
         Sane(r) /\ r.pc = pc /\ Follows(r, old) /\ r.data = old.data
<1> DEFINE r == [old EXCEPT !.pc = pc]
<1>1. old \in Job
  BY DEF Sane
<1>2. r \in Job
  BY <1>1, Zenon DEF Job
<1>3. /\ r.pc = pc /\ r.user = old.user /\ r.message = old.message /\ r.said = old.said
      /\ r.copy = old.copy /\ r.data = old.data /\ r.since = old.since
  BY <1>1 DEF Job
<1> HIDE DEF r
<1>4. Sane(r)
  BY <1>2, <1>3 DEF Sane
<1> QED
  BY <1>3, <1>4 DEF Follows, r

LEMMA CopiedSane ==
  ASSUME NEW old, Sane(old), old.pc # "idle", NEW copy \in Sessions \union {None},
         Advanced(copy), NEW pc \in {"say", "clear", "search"},
         pc = "search" /\ old.message.text = "form" /\ old.message.menu \in {"NONE", "GONE"}
           => ~InRegister(copy)
  PROVE  LET r == Copied(old, pc, copy) IN
         Sane(r) /\ r.pc = pc /\ Follows(r, old)
<1> DEFINE r == Copied(old, pc, copy)
<1>1. old \in Job /\ pc \in PCs
  BY DEF Sane, PCs
<1>2. r \in Job
  BY <1>1, Zenon DEF Job, Copied
<1>3. /\ r.pc = pc /\ r.user = old.user /\ r.message = old.message /\ r.said = old.said
      /\ r.copy = copy /\ r.since = old.since
  BY <1>1 DEF Job, Copied
<1> HIDE DEF r
<1>4. Sane(r)
  BY <1>2, <1>3 DEF Sane
<1> QED
  BY <1>3, <1>4 DEF Follows, r

LEMMA ClassifiedSane ==
  ASSUME NEW old, Sane(old), old.pc = "search", NEW selected \in BOOLEAN
  PROVE  LET r == Classified(old, selected) IN
         Sane(r) /\ r.pc = "classify" /\ Follows(r, old)
<1> DEFINE r == Classified(old, selected)
<1>1. old \in Job /\ "classify" \in PCs
  BY DEF Sane, PCs
<1>2. r \in Job
  BY <1>1, Zenon DEF Job, Classified
<1>3. /\ r.pc = "classify" /\ r.user = old.user /\ r.message = old.message /\ r.said = old.said
      /\ r.copy = old.copy /\ r.since = old.since
  BY <1>1 DEF Job, Classified
<1> HIDE DEF r
<1>4. Sane(r)
  BY <1>2, <1>3 DEF Sane
<1> QED
  BY <1>3, <1>4 DEF Follows, r

LEMMA HandedOverSane ==
  ASSUME NEW old, Sane(old), old.pc # "idle"
  PROVE  LET r == HandedOver(old) IN
         Sane(r) /\ r.pc = "handover" /\ Follows(r, old)
<1> DEFINE r == HandedOver(old)
<1>1. old \in Job /\ "handover" \in PCs /\ TRUE \in BOOLEAN
  BY DEF Sane, PCs
<1>2. r \in Job
  BY <1>1, Zenon DEF Job, HandedOver
<1>3. /\ r.pc = "handover" /\ r.user = old.user /\ r.message = old.message /\ r.said = old.said
      /\ r.copy = old.copy /\ r.since = old.since
  BY <1>1 DEF Job, HandedOver
<1> HIDE DEF r
<1>4. Sane(r)
  BY <1>2, <1>3 DEF Sane
<1> QED
  BY <1>3, <1>4 DEF Follows, r

LEMMA RestartedFormSane ==
  ASSUME NEW old, Sane(old), old.pc # "idle"
  PROVE  LET r == RestartedForm(old) IN
         Sane(r) /\ r.pc = "setsend" /\ Follows(r, old)
<1> DEFINE r == RestartedForm(old)
<1>1. old \in Job /\ "setsend" \in PCs /\ NoData \in Data
  BY DEF Sane, PCs, NoData, Data, Values
<1>2. r \in Job
  BY <1>1, Zenon DEF Job, RestartedForm
<1>3. /\ r.pc = "setsend" /\ r.user = old.user /\ r.message = old.message /\ r.said = old.said
      /\ r.copy = old.copy /\ r.since = old.since
  BY <1>1 DEF Job, RestartedForm
<1> HIDE DEF r
<1>4. Sane(r)
  BY <1>2, <1>3 DEF Sane
<1> QED
  BY <1>3, <1>4 DEF Follows, r

LEMMA StickerSane ==
  ASSUME NEW old, Sane(old), old.pc = "mute"
  PROVE  LET r == [old EXCEPT !.message = [old.message EXCEPT !.kind = "text"]] IN
         Sane(r) /\ r.pc = "mute" /\ Follows(r, old)
<1> DEFINE message == [old.message EXCEPT !.kind = "text"]
           r == [old EXCEPT !.message = message]
<1>1. old \in Job /\ message \in Message
  BY DEF Sane, Message
<1> HIDE DEF message
<1>2. r \in Job
  BY <1>1, Zenon DEF Job
<1>3. /\ r.pc = old.pc /\ r.user = old.user /\ r.message = message /\ r.said = old.said
      /\ r.copy = old.copy /\ r.since = old.since
  BY <1>1 DEF Job
<1> HIDE DEF r
<1>4. Sane(r)
  BY <1>1, <1>2, <1>3 DEF Sane
<1> QED
  BY <1>3, <1>4 DEF Follows, r, message
\* What the router makes of a handling, whatever it has read.
LEMMA DecidedSane ==
  ASSUME Typed, NEW j \in Jobs, jobs[j].pc # "idle",
         NEW copy \in Sessions \union {None}, Advanced(copy), NEW d \in Decisions,
         d.action = "CONTINUE_REGISTER" => InRegister(copy),
         (/\ jobs[j].message.text = "form"
          /\ jobs[j].message.menu \in {"NONE", "GONE"} /\ InRegister(copy))
           => d.action \notin {"GENERAL_QUESTION", "ANSWER_KNOWLEDGE"}
  PROVE  LET r == Decided(j, copy, d) IN
         Sane(r) /\ r.pc \in Routed /\ Follows(r, jobs[j])
<1> DEFINE old == jobs[j]
           pc == FirstStep(d.action, copy, CanRegister(User(j)))
           data == IF InRegister(copy)
                   THEN IF copy.step = "SEND" THEN Parse(old.message.form, copy.data)
                        ELSE copy.data
                   ELSE NoData
           r == [old EXCEPT !.copy = copy, !.fallback = d.fallback, !.pc = pc, !.data = data]
<1>1. old \in Job /\ Sane(old) /\ old.message \in Message
  BY DEF Typed, Sane
<1>2. CanRegister(User(j)) \in BOOLEAN
  BY DEF CanRegister
<1>3. /\ pc \in Routed
      /\ pc = "answer" => d.action \in {"GENERAL_QUESTION", "ANSWER_KNOWLEDGE"}
      /\ pc = "setcurrent" => d.action = "CONTINUE_REGISTER" /\ copy.step = "CURRENT"
  BY <1>2, FirstStepTypes
<1>4. data \in Data
  <2>1. NoData \in Data
    BY DEF NoData, Data, Values
  <2>2. old.message.form \in Forms
    BY <1>1 DEF Message
  <2>3. InRegister(copy) => copy.data \in Data
    BY DEF InRegister, Sessions
  <2> QED
    BY <2>1, <2>2, <2>3, ParseTypes
<1>5. pc = "setcurrent" => Checked(data)
  BY <1>3 DEF Advanced, InRegister
<1>6. pc \in PCs /\ d.fallback \in BOOLEAN
  <2>1. d.fallback \in BOOLEAN
    BY Zenon DEF Decisions
  <2> QED
    BY <1>3, <2>1 DEF Routed, PCs
<1>7. Decided(j, copy, d) = r
  BY DEF Decided
<1> HIDE DEF pc, data
<1>8. r \in Job
  BY <1>1, <1>4, <1>6, Zenon DEF Job
<1>9. /\ r.pc = pc /\ r.user = old.user /\ r.message = old.message /\ r.said = old.said
      /\ r.copy = copy /\ r.data = data /\ r.since = old.since
  BY <1>1 DEF Job
<1> HIDE DEF r
<1>10. Sane(r)
  BY <1>1, <1>3, <1>5, <1>8, <1>9 DEF Sane, Routed
<1> QED
  BY <1>3, <1>7, <1>9, <1>10 DEF Follows

-----------------------------------------------------------------------------
(* What the steps of one handling leave: a sane handling that is not writing    *)
(* a notice, and that tells the customer of the staff only when it was asked.   *)

StaffKnows(j) == \/ channel[User(j)] = "PREVIEW"
                 \/ waiting[User(j)]
                 \/ reopened[User(j)] > jobs[j].since

Becomes(j, r) ==
  /\ jobs' = [jobs EXCEPT ![j] = r] /\ Sane(r)
  /\ r.pc \notin {"notice", "created"}
  /\ r.pc # "idle" => r.since <= reopened[r.user]
  /\ r.said \in {"fallback", "contact"} => StaffKnows(j)

Quiet(j) == \E r : Becomes(j, r)

SessionsTyped ==
  session' \in [Users -> Sessions \union {None}] /\ \A u \in Users : Advanced(session'[u])

LEMMA FollowsQuietly ==
  ASSUME Typed, Asked, NEW j \in Jobs, jobs[j].pc # "idle", NEW r, Sane(r),
         Follows(r, jobs[j]), r.pc \notin {"idle", "notice", "created"},
         jobs' = [jobs EXCEPT ![j] = r]
  PROVE  Quiet(j)
<1>1. r.since <= reopened[r.user]
  BY DEF Asked, Follows, User
<1>2. r.said = "nothing"
  BY DEF Sane
<1> QED
  BY <1>1, <1>2 DEF Quiet, Becomes

LEMMA RepliesQuietly ==
  ASSUME NEW j \in Jobs, NEW said \in Said, Reply(j, said),
         said \in {"fallback", "contact"} => StaffKnows(j)
  PROVE  Quiet(j)
<1> DEFINE r == [Idle EXCEPT !.said = said]
<1>1. Sane(r) /\ r.pc = "idle" /\ r.said = said
  BY IdleSane
<1>2. jobs' = [jobs EXCEPT ![j] = r]
  BY DEF Reply
<1> HIDE DEF r
<1> QED
  BY <1>1, <1>2 DEF Quiet, Becomes

LEMMA GoesQuietly ==
  ASSUME Typed, Asked, NEW j \in Jobs, jobs[j].pc # "idle",
         NEW pc \in PCs \ {"idle", "search", "classify", "answer", "notice", "created"},
         pc \in {"setcurrent", "unique", "create"} => Checked(jobs[j].data), Goto(j, pc)
  PROVE  Quiet(j)
<1> DEFINE r == [jobs[j] EXCEPT !.pc = pc]
<1>1. Sane(jobs[j])
  BY DEF Typed
<1>2. Sane(r) /\ r.pc = pc /\ Follows(r, jobs[j])
  BY <1>1, GotoSane
<1>3. jobs' = [jobs EXCEPT ![j] = r]
  BY DEF Goto
<1> HIDE DEF r
<1> QED
  BY <1>2, <1>3, FollowsQuietly

LEMMA SessionSet ==
  ASSUME Typed, NEW u \in Users, NEW s \in Sessions \union {None}, Advanced(s), SetSession(u, s)
  PROVE  SessionsTyped
BY DEF Typed, SetSession, SessionsTyped

LEMMA SessionCleared ==
  ASSUME Typed, NEW u \in Users, ClearSession(u)
  PROVE  SessionsTyped
<1>1. SetSession(u, None) /\ Advanced(None)
  BY DEF ClearSession, Advanced
<1> QED
  BY <1>1, SessionSet

LEMMA RegisterSessions ==
  ASSUME NEW step \in {"WAITING", "SEND", "CURRENT"}, NEW data \in Data,
         step = "CURRENT" => Checked(data)
  PROVE  RegisterAt(step, data) \in Sessions /\ Advanced(RegisterAt(step, data))
BY DEF RegisterAt, Sessions, Steps, Advanced

LEMMA QuietStart ==
  ASSUME Typed, Asked, NEW j \in Jobs, jobs[j].pc # "idle",
         CheckMute(j) \/ ResolveSticker(j) \/ ReadSession(j)
  PROVE  Quiet(j)
<1>1. Sane(jobs[j])
  BY DEF Typed
<1>2. CASE CheckMute(j)
  BY <1>2, RepliesQuietly, GoesQuietly DEF CheckMute, Said, PCs
<1>3. CASE ResolveSticker(j)
  <2>1. CASE Reply(j, "template")
    BY <2>1, RepliesQuietly DEF Said
  <2>2. CASE jobs' = [jobs EXCEPT ![j].message.kind = "text"]
    <3> DEFINE r == [jobs[j] EXCEPT !.message = [jobs[j].message EXCEPT !.kind = "text"]]
    <3>1. jobs' = [jobs EXCEPT ![j] = r]
      BY <2>2
    <3>2. Sane(r) /\ r.pc = "mute" /\ Follows(r, jobs[j])
      BY <1>1, <1>3, StickerSane DEF ResolveSticker
    <3> HIDE DEF r
    <3> QED
      BY <3>1, <3>2, FollowsQuietly
  <2> QED
    BY <1>3, <2>1, <2>2 DEF ResolveSticker
<1>4. CASE ReadSession(j)
  <2> DEFINE message == jobs[j].message
             copy == session[User(j)]
             verdict == Gate(message, InRegister(copy))
  <2>1. message \in Message /\ User(j) \in Users
    BY <1>1 DEF Sane, User
  <2>2. copy \in Sessions \union {None} /\ Advanced(copy) /\ InRegister(copy) \in BOOLEAN
    BY <2>1 DEF Typed, InRegister
  <2>3. /\ verdict \in Decisions \/ verdict = Search
        /\ verdict.action = "CONTINUE_REGISTER" => InRegister(copy)
        /\ message.text = "form" /\ message.menu \in {"NONE", "GONE"} /\ InRegister(copy) =>
             verdict = Decision("CONTINUE_REGISTER", FALSE)
    BY <2>1, <2>2, GateRoutes
  <2>4. verdict = Decision("CONTINUE_REGISTER", FALSE) =>
          verdict # Search /\ verdict.action = "CONTINUE_REGISTER"
    BY DEF Decision, Search
  <2>5. \/ \E pc \in {"say", "clear"} :
             jobs' = [jobs EXCEPT ![j] = [jobs[j] EXCEPT !.pc = pc, !.copy = copy]]
        \/ /\ verdict = Search
           /\ jobs' = [jobs EXCEPT ![j] = [jobs[j] EXCEPT !.pc = "search", !.copy = copy]]
        \/ verdict # Search /\ jobs' = [jobs EXCEPT ![j] = Decided(j, copy, verdict)]
    <3> DEFINE x == CASE message.text \in {"blank", "long"} ->
                           [jobs[j] EXCEPT !.pc = "say", !.copy = copy]
                      [] InRegister(copy) /\ ~CanRegister(User(j)) /\ message.text # "cancel" ->
                           [jobs[j] EXCEPT !.pc = "clear", !.copy = copy]
                      [] OTHER ->
                           IF verdict = Search
                           THEN [jobs[j] EXCEPT !.pc = "search", !.copy = copy]
                           ELSE Decided(j, copy, verdict)
    <3>1. jobs' = [jobs EXCEPT ![j] = x]
      BY <1>4 DEF ReadSession
    <3>2. \/ \E pc \in {"say", "clear"} : x = [jobs[j] EXCEPT !.pc = pc, !.copy = copy]
          \/ verdict = Search /\ x = [jobs[j] EXCEPT !.pc = "search", !.copy = copy]
          \/ verdict # Search /\ x = Decided(j, copy, verdict)
      <4> HIDE DEF copy, verdict
      <4> QED
        OBVIOUS
    <3> HIDE DEF x, copy, verdict
    <3> QED
      BY <3>1, <3>2
  <2> HIDE DEF copy, verdict
  <2>6. ASSUME NEW pc \in {"say", "clear", "search"}, pc = "search" => verdict = Search,
               jobs' = [jobs EXCEPT ![j] = [jobs[j] EXCEPT !.pc = pc, !.copy = copy]]
        PROVE  Quiet(j)
    <3> DEFINE r == Copied(jobs[j], pc, copy)
    <3>1. pc = "search" /\ message.text = "form" /\ message.menu \in {"NONE", "GONE"}
            => ~InRegister(copy)
      BY <2>3, <2>4, <2>6
    <3>2. Sane(r) /\ r.pc = pc /\ Follows(r, jobs[j])
      BY <1>1, <2>2, <3>1, CopiedSane
    <3>3. jobs' = [jobs EXCEPT ![j] = r]
      BY <2>6 DEF Copied
    <3> HIDE DEF r
    <3> QED
      BY <3>2, <3>3, FollowsQuietly
  <2>7. ASSUME verdict # Search, jobs' = [jobs EXCEPT ![j] = Decided(j, copy, verdict)]
        PROVE  Quiet(j)
    <3>1. verdict \in Decisions
      BY <2>3, <2>7
    <3>2. (/\ message.text = "form"
           /\ message.menu \in {"NONE", "GONE"} /\ InRegister(copy))
            => verdict.action \notin {"GENERAL_QUESTION", "ANSWER_KNOWLEDGE"}
      BY <2>3, <2>4
    <3> DEFINE r == Decided(j, copy, verdict)
    <3>3. Sane(r) /\ r.pc \in Routed /\ Follows(r, jobs[j])
      BY <2>2, <2>3, <3>1, <3>2, DecidedSane
    <3> HIDE DEF r
    <3> QED
      BY <2>7, <3>3, FollowsQuietly DEF Routed, r
  <2> QED
    BY <2>5, <2>6, <2>7
<1> QED
  BY <1>2, <1>3, <1>4
LEMMA QuietSearch ==
  ASSUME Typed, Asked, NEW j \in Jobs, jobs[j].pc # "idle",
         Retrieve(j) \/ ClassifyLowConfidence(j)
  PROVE  Quiet(j)
<1> DEFINE old == jobs[j]
<1>1. /\ Sane(old) /\ old.pc \in {"search", "classify"} /\ old.copy \in Sessions \union {None}
      /\ Advanced(old.copy)
  BY DEF Typed, Sane, Job, Retrieve, ClassifyLowConfidence
<1>2. ~(/\ old.message.text = "form"
        /\ old.message.menu \in {"NONE", "GONE"} /\ InRegister(old.copy))
  BY <1>1 DEF Sane
<1>3. ASSUME NEW d \in Decisions, d.action # "CONTINUE_REGISTER",
             jobs' = [jobs EXCEPT ![j] = Decided(j, old.copy, d)]
      PROVE  Quiet(j)
  <2> DEFINE r == Decided(j, old.copy, d)
  <2>1. Sane(r) /\ r.pc \in Routed /\ Follows(r, old)
    BY <1>1, <1>2, <1>3, DecidedSane
  <2>2. jobs' = [jobs EXCEPT ![j] = r]
    BY <1>3
  <2> HIDE DEF r
  <2> QED
    BY <2>1, <2>2, FollowsQuietly DEF Routed
<1>4. CASE Retrieve(j)
  <2>1. PICK r \in Retrievals :
          \/ jobs' = [jobs EXCEPT ![j] = Classified(old, r.selected)]
          \/ \E d \in DecideFromRetrieval(r) :
               jobs' = [jobs EXCEPT ![j] = Decided(j, old.copy, d)]
    BY <1>4 DEF Retrieve, Classified
  <2>2. CASE jobs' = [jobs EXCEPT ![j] = Classified(old, r.selected)]
    <3>1. old.pc = "search" /\ r.selected \in BOOLEAN
      BY <1>4, RetrievalTypes DEF Retrieve
    <3> DEFINE new == Classified(old, r.selected)
    <3>2. Sane(new) /\ new.pc = "classify" /\ Follows(new, old)
      BY <1>1, <3>1, ClassifiedSane
    <3> HIDE DEF new
    <3> QED
      BY <2>2, <3>2, FollowsQuietly DEF new
  <2> QED
    BY <1>3, <2>1, <2>2, RetrievalRoutes
<1>5. CASE ClassifyLowConfidence(j)
  <2>1. PICK r, analysis :
          jobs' = [jobs EXCEPT ![j] = Decided(j, old.copy, ResolveLowConfidence(r, analysis))]
    BY <1>5 DEF ClassifyLowConfidence
  <2> DEFINE d == ResolveLowConfidence(r, analysis)
  <2>2. d \in Decisions /\ d.action # "CONTINUE_REGISTER"
    BY ClassifierRoutes
  <2>3. jobs' = [jobs EXCEPT ![j] = Decided(j, old.copy, d)]
    BY <2>1
  <2> HIDE DEF d
  <2> QED
    BY <1>3, <2>2, <2>3
<1> QED
  BY <1>4, <1>5

LEMMA QuietRoute ==
  ASSUME Typed, Asked, NEW j \in Jobs, jobs[j].pc # "idle", Route(j)
  PROVE  Quiet(j) /\ SessionsTyped
<1>1. session' = session => SessionsTyped
  BY DEF Typed, SessionsTyped
<1>2. User(j) \in Users
  BY DEF Typed, Sane, User
<1>3. CASE \/ CheckMute(j) \/ ResolveSticker(j) \/ ReadSession(j)
           \/ Retrieve(j) \/ ClassifyLowConfidence(j)
  BY <1>1, <1>3, QuietStart, QuietSearch
       DEF CheckMute, ResolveSticker, ReadSession, Retrieve, ClassifyLowConfidence
<1>4. CASE Say(j) \/ EndFlow(j)
  BY <1>1, <1>2, <1>4, RepliesQuietly, SessionCleared DEF Say, EndFlow, Said
<1>5. CASE StartQuestion(j)
  <2> DEFINE s == [flow |-> "GENERAL_QUESTION", step |-> "QUESTION", data |-> NoData]
  <2>1. NoData \in Data
    BY DEF NoData, Data, Values
  <2>2. s \in Sessions /\ Advanced(s)
    BY <2>1 DEF Sessions, Steps, Advanced
  <2>3. SetSession(User(j), s) /\ Reply(j, "template")
    BY <1>5 DEF StartQuestion
  <2> HIDE DEF s
  <2> QED
    BY <1>2, <2>2, <2>3, RepliesQuietly, SessionSet DEF Said
<1> QED
  BY <1>3, <1>4, <1>5 DEF Route

LEMMA AfterHandoverQuietly ==
  ASSUME NEW j \in Jobs, StaffKnows(j), AfterHandover(j)
  PROVE  Quiet(j)
<1>1. Reply(j, "fallback") \/ Reply(j, "contact")
  BY DEF AfterHandover
<1> QED
  BY <1>1, RepliesQuietly DEF Said

\* A notice is written by a handling whose customer waits, or was answered since.
LEMMA NoticesAreAsked ==
  ASSUME Asked, NEW j \in Jobs, jobs[j].pc = "notice"
  PROVE  StaffKnows(j)
BY DEF Asked, StaffKnows

LEMMA QuietHandover ==
  ASSUME Typed, Asked, NEW j \in Jobs, jobs[j].pc # "idle",
         \/ Answer(j) \/ WithoutCredit(j) \/ RequestAdminAgain(j)
         \/ NotifyAdminRequired(j) \/ NotifyFails(j)
  PROVE  Quiet(j)
<1>1. CASE Answer(j)
  <2>1. CASE Reply(j, "answer")
    BY <2>1, RepliesQuietly DEF Said
  <2>2. CASE jobs' = [jobs EXCEPT ![j].pc = "handover", ![j].fallback = TRUE]
    <3> DEFINE r == HandedOver(jobs[j])
    <3>1. jobs' = [jobs EXCEPT ![j] = r]
      BY <2>2 DEF HandedOver
    <3>2. Sane(r) /\ r.pc = "handover" /\ Follows(r, jobs[j])
      BY HandedOverSane DEF Typed
    <3> HIDE DEF r
    <3> QED
      BY <3>1, <3>2, FollowsQuietly
  <2> QED
    BY <1>1, <2>1, <2>2 DEF Answer
<1>2. CASE WithoutCredit(j)
  BY <1>2, RepliesQuietly DEF WithoutCredit, Said
<1>3. CASE RequestAdminAgain(j)
  BY <1>3, AfterHandoverQuietly DEF RequestAdminAgain, StaffKnows
<1>4. CASE NotifyAdminRequired(j) \/ NotifyFails(j)
  BY <1>4, AfterHandoverQuietly, NoticesAreAsked DEF NotifyAdminRequired, NotifyFails
<1> QED
  BY <1>1, <1>2, <1>3, <1>4

LEMMA QuietRegistration ==
  ASSUME Typed, Asked, NEW j \in Jobs, jobs[j].pc # "idle", Registration(j), ~CreateMember(j)
  PROVE  Quiet(j) /\ SessionsTyped
<1> DEFINE old == jobs[j]
<1>1. Sane(old) /\ User(j) \in Users /\ old.data \in Data
  BY DEF Typed, Sane, User, Job
<1>2. session' = session => SessionsTyped
  BY DEF Typed, SessionsTyped
<1>3. NoData \in Data
  BY DEF NoData, Data, Values
<1>4. ASSUME NEW step \in {"WAITING", "SEND", "CURRENT"}, NEW data \in Data,
             step = "CURRENT" => Checked(data), SetSession(User(j), RegisterAt(step, data))
      PROVE  SessionsTyped
  BY <1>1, <1>4, RegisterSessions, SessionSet
<1>5. CASE StartRegister(j)
  <2> DEFINE r == RestartedForm(old)
  <2>1. jobs' = [jobs EXCEPT ![j] = r]
    BY <1>5 DEF StartRegister, RestartedForm
  <2>2. Sane(r) /\ r.pc = "setsend" /\ Follows(r, old)
    BY <1>1, RestartedFormSane
  <2> HIDE DEF r
  <2>3. Quiet(j)
    BY <2>1, <2>2, FollowsQuietly
  <2> QED
    BY <1>3, <1>4, <1>5, <2>3 DEF StartRegister
<1>6. CASE HandleWaitingRegisterForm(j) \/ RegistrationFails(j)
  <2>1. SetSession(User(j), RegisterAt("SEND", old.data)) /\ Reply(j, "template")
    BY <1>6 DEF HandleWaitingRegisterForm, RegistrationFails
  <2> QED
    BY <1>1, <1>4, <2>1, RepliesQuietly DEF Said
<1>7. CASE HandleSendRegisterForm(j)
  <2>1. /\ SetSession(User(j), RegisterAt("SEND", old.data))
        /\ \/ IsComplete(old.data) /\ IsValid(old.data) /\ Goto(j, "setcurrent")
           \/ Reply(j, "template")
    BY <1>7 DEF HandleSendRegisterForm
  <2>2. IsComplete(old.data) /\ IsValid(old.data) => Checked(old.data)
    BY <1>1 DEF IsComplete, IsValid, Checked, Data
  <2> QED
    BY <1>1, <1>4, <2>1, <2>2, RepliesQuietly, GoesQuietly DEF Said, PCs
<1>8. CASE HandleCurrentRegister(j)
  <2>1. /\ SetSession(User(j), RegisterAt("CURRENT", old.data)) /\ Goto(j, "unique")
        /\ Checked(old.data)
    BY <1>1, <1>8 DEF HandleCurrentRegister, Sane
  <2> QED
    BY <1>1, <1>4, <2>1, GoesQuietly DEF PCs
<1>9. CASE AssertUniqueMemberData(j)
  <2>1. Checked(old.data) /\ (Goto(j, "refused") \/ Goto(j, "create")) /\ session' = session
    BY <1>1, <1>9 DEF AssertUniqueMemberData, Sane
  <2> QED
    BY <1>2, <2>1, GoesQuietly DEF PCs
<1>10. CASE SendAuthToUser(j)
  BY <1>1, <1>10, SessionCleared, RepliesQuietly DEF SendAuthToUser, Said
<1> QED
  BY <1>5, <1>6, <1>7, <1>8, <1>9, <1>10 DEF Registration
LEMMA QuietBeginning ==
  ASSUME Typed, NEW j \in Jobs,
         \/ \E u \in Users, message \in Messages : Begin(j, u, message)
         \/ HandledAgain(j)
  PROVE  Quiet(j)
<1>1. PICK u \in Users, message \in Message :
        jobs' = [jobs EXCEPT ![j] = Begun(u, message, reopened[u])]
  BY MessagesAssumption DEF Begin, HandledAgain, Begun, Typed, Sane, User
<1>2. reopened[u] \in Nat
  BY DEF Typed
<1> DEFINE r == Begun(u, message, reopened[u])
<1>3. Sane(r) /\ r.pc = "mute" /\ r.user = u /\ r.since = reopened[u]
  BY <1>2, BegunSane
<1>4. r.said = "nothing"
  BY <1>3 DEF Sane
<1>5. jobs' = [jobs EXCEPT ![j] = r]
  BY <1>1
<1>6. reopened[u] <= reopened[u]
  BY <1>2
<1> HIDE DEF r
<1>7. Becomes(j, r)
  BY <1>3, <1>4, <1>5, <1>6 DEF Becomes
<1> QED
  BY <1>7 DEF Quiet

\* The steps of a handling that leave the staff's queue and the members alone.
QuietStep(j) ==
  \/ \E u \in Users, message \in Messages : Begin(j, u, message)
  \/ Route(j) \/ HandledAgain(j)
  \/ Answer(j) \/ WithoutCredit(j) \/ RequestAdminAgain(j)
  \/ NotifyAdminRequired(j) \/ NotifyFails(j)
  \/ Registration(j) /\ ~CreateMember(j)

LEMMA QuietSteps ==
  ASSUME Typed, Asked, NEW j \in Jobs, QuietStep(j)
  PROVE  /\ Quiet(j) /\ SessionsTyped
         /\ UNCHANGED <<muted, waiting, reopened, members, fixed>>
         /\ NotifyAdminRequired(j) \/ UNCHANGED notices
         /\ SendAuthToUser(j) \/ UNCHANGED told
<1>1. session' = session => SessionsTyped
  BY DEF Typed, SessionsTyped
<1>2. CASE \/ \E u \in Users, message \in Messages : Begin(j, u, message)
           \/ HandledAgain(j)
  BY <1>1, <1>2, QuietBeginning DEF Begin, HandledAgain, desk
<1>3. CASE Route(j)
  <2>1. jobs[j].pc # "idle" /\ UNCHANGED <<desk, members, fixed, told>>
    BY <1>3 DEF Route, CheckMute, ResolveSticker, ReadSession, Retrieve, ClassifyLowConfidence,
                Say, EndFlow, StartQuestion
  <2> QED
    BY <1>3, <2>1, QuietRoute DEF desk
<1>4. CASE \/ Answer(j) \/ WithoutCredit(j) \/ RequestAdminAgain(j)
           \/ NotifyAdminRequired(j) \/ NotifyFails(j)
  <2>1. jobs[j].pc # "idle" /\ UNCHANGED <<session, muted, waiting, reopened, members, fixed, told>>
        /\ (NotifyAdminRequired(j) \/ UNCHANGED notices)
    BY <1>4 DEF Answer, WithoutCredit, RequestAdminAgain, NotifyAdminRequired, NotifyFails, desk
  <2> QED
    BY <1>1, <1>4, <2>1, QuietHandover
<1>5. CASE Registration(j) /\ ~CreateMember(j)
  <2>1. /\ jobs[j].pc # "idle" /\ UNCHANGED <<desk, members, fixed>>
        /\ SendAuthToUser(j) \/ UNCHANGED told
    BY <1>5 DEF Registration, StartRegister, HandleWaitingRegisterForm, HandleSendRegisterForm,
                HandleCurrentRegister, AssertUniqueMemberData, SendAuthToUser, RegistrationFails
  <2> QED
    BY <1>5, <2>1, QuietRegistration DEF desk
<1> QED
  BY <1>2, <1>3, <1>4, <1>5 DEF QuietStep

LEMMA JobWritten ==
  ASSUME Typed, NEW j \in Jobs, NEW r, Sane(r), jobs' = [jobs EXCEPT ![j] = r]
  PROVE  /\ jobs' \in [Jobs -> Job] /\ \A i \in Jobs : Sane(jobs'[i])
         /\ jobs'[j] = r /\ \A i \in Jobs : i # j => jobs'[i] = jobs[i]
BY DEF Typed, Sane

\* The two steps that are not quiet.
LEMMA NoticeStarts ==
  ASSUME Typed, NEW j \in Jobs, RequestAdmin(j)
  PROVE  LET r == [jobs[j] EXCEPT !.pc = "notice"] IN
         /\ jobs' = [jobs EXCEPT ![j] = r] /\ Sane(r)
         /\ r.pc = "notice" /\ Follows(r, jobs[j]) /\ User(j) \in Users
<1>1. Sane(jobs[j]) /\ jobs[j].pc # "idle"
  BY DEF Typed, RequestAdmin
<1> QED
  BY <1>1, GotoSane DEF RequestAdmin, Goto, PCs, Sane, User

LEMMA MemberCreated ==
  ASSUME Typed, Asked, NEW j \in Jobs, CreateMember(j)
  PROVE  /\ Checked(jobs[j].data) /\ User(j) \in Users /\ jobs[j].data \in Data
         /\ \/ Quiet(j) /\ members' = members
            \/ LET r == [jobs[j] EXCEPT !.pc = "created"] IN
               /\ jobs' = [jobs EXCEPT ![j] = r] /\ Sane(r)
               /\ r.pc = "created" /\ Follows(r, jobs[j]) /\ r.data = jobs[j].data
               /\ ~(linking /\ Linked(User(j)))
               /\ members' = members \union {Member(User(j), jobs[j].data, linking)}
<1>1. /\ Sane(jobs[j]) /\ jobs[j].pc = "create" /\ Checked(jobs[j].data) /\ User(j) \in Users
      /\ jobs[j].data \in Data
  BY DEF Typed, CreateMember, Sane, Job, User
<1>2. CASE Goto(j, "refused") /\ members' = members
  BY <1>1, <1>2, GoesQuietly DEF PCs
<1>3. CASE /\ Goto(j, "created") /\ ~(linking /\ Linked(User(j)))
           /\ members' = members \union {Member(User(j), jobs[j].data, linking)}
  <2> DEFINE r == [jobs[j] EXCEPT !.pc = "created"]
  <2>1. Sane(r) /\ r.pc = "created" /\ Follows(r, jobs[j]) /\ r.data = jobs[j].data
    BY <1>1, GotoSane DEF PCs
  <2>2. jobs' = [jobs EXCEPT ![j] = r]
    BY <1>3 DEF Goto
  <2> HIDE DEF r
  <2> QED
    BY <1>1, <1>3, <2>1, <2>2 DEF r
<1> QED
  BY <1>1, <1>2, <1>3 DEF CreateMember
LEMMA QuietWritten ==
  ASSUME Typed, NEW j \in Jobs, Quiet(j)
  PROVE  /\ jobs' \in [Jobs -> Job] /\ \A i \in Jobs : Sane(jobs'[i])
         /\ \A i \in Jobs : i # j => jobs'[i] = jobs[i]
         /\ jobs'[j].pc \notin {"notice", "created"}
         /\ jobs'[j].pc # "idle" => jobs'[j].since <= reopened[jobs'[j].user]
         /\ jobs'[j].said \in {"fallback", "contact"} => StaffKnows(j)
<1>1. PICK r : Becomes(j, r)
  BY DEF Quiet
<1>2. Sane(r) /\ jobs' = [jobs EXCEPT ![j] = r]
  BY <1>1 DEF Becomes
<1>3. /\ jobs' \in [Jobs -> Job] /\ \A i \in Jobs : Sane(jobs'[i])
      /\ jobs'[j] = r /\ \A i \in Jobs : i # j => jobs'[i] = jobs[i]
  BY <1>2, JobWritten
<1> QED
  BY <1>1, <1>3 DEF Becomes

-----------------------------------------------------------------------------
(* Every step keeps the types, the form's checks and its confinement.           *)

JobsTyped == jobs' \in [Jobs -> Job] /\ \A j \in Jobs : Sane(jobs'[j])

LEMMA MemberTypes ==
  ASSUME NEW owner \in Users \union {None}, NEW data \in Data, NEW link \in BOOLEAN
  PROVE  Member(owner, data, link) \in MemberRow
<1>1. data.phone \in Values /\ data.rest \in {"", "given"}
  BY DEF Data
<1> QED
  BY <1>1, Zenon DEF Member, MemberRow

LEMMA StepTyped ==
  ASSUME Typed, Asked, [Next]_vars
  PROVE  Typed'
<1>1. /\ muted \in [Users -> BOOLEAN] /\ waiting \in [Users -> BOOLEAN]
      /\ members \subseteq MemberRow /\ linking \in BOOLEAN
      /\ notices \in [Users -> Nat] /\ reopened \in [Users -> Nat]
      /\ told \subseteq Users \X Values
      /\ \A j \in Jobs : jobs[j].pc # "idle" => User(j) \in Users
      /\ \A j \in Jobs : jobs[j].data \in Data
  BY DEF Typed, Sane, User, Job
<1>2. /\ session' = session => SessionsTyped
      /\ jobs' = jobs => JobsTyped
  BY DEF Typed, SessionsTyped, JobsTyped
<1>3. ASSUME NEW j \in Jobs, QuietStep(j)
      PROVE  Typed'
  <2>1. /\ Quiet(j) /\ SessionsTyped
        /\ UNCHANGED <<muted, waiting, reopened, members, fixed>>
        /\ NotifyAdminRequired(j) \/ UNCHANGED notices
        /\ SendAuthToUser(j) \/ UNCHANGED told
    BY <1>3, QuietSteps
  <2>2. JobsTyped
    BY <2>1, QuietWritten DEF JobsTyped
  <2>3. notices' \in [Users -> Nat]
    BY <1>1, <2>1 DEF NotifyAdminRequired
  <2>4. told' \subseteq Users \X Values
    <3>1. CASE SendAuthToUser(j)
      <4>1. told' = told \union {<<User(j), jobs[j].data.phone>>} /\ User(j) \in Users
        BY <1>1, <3>1 DEF SendAuthToUser
      <4>2. jobs[j].data.phone \in Values
        BY <1>1 DEF Data
      <4> QED
        BY <1>1, <4>1, <4>2
    <3> QED
      BY <1>1, <2>1, <3>1
  <2> QED
    BY <1>1, <2>1, <2>2, <2>3, <2>4 DEF Typed, SessionsTyped, JobsTyped, fixed
<1>4. ASSUME NEW j \in Jobs, RequestAdmin(j)
      PROVE  Typed'
  <2>1. JobsTyped
    <3> DEFINE r == [jobs[j] EXCEPT !.pc = "notice"]
    <3>1. jobs' = [jobs EXCEPT ![j] = r] /\ Sane(r)
      BY <1>4, NoticeStarts
    <3> HIDE DEF r
    <3> QED
      BY <3>1, JobWritten DEF JobsTyped
  <2>2. waiting' \in [Users -> BOOLEAN]
    BY <1>1, <1>4 DEF RequestAdmin
  <2> QED
    BY <1>1, <1>2, <1>4, <2>1, <2>2 DEF RequestAdmin, Typed, SessionsTyped, JobsTyped, fixed
<1>5. ASSUME NEW j \in Jobs, CreateMember(j)
      PROVE  Typed'
  <2>1. /\ User(j) \in Users /\ jobs[j].data \in Data /\ JobsTyped
        /\ \/ members' = members
           \/ members' = members \union {Member(User(j), jobs[j].data, linking)}
    <3> DEFINE r == [jobs[j] EXCEPT !.pc = "created"]
    <3>1. /\ User(j) \in Users /\ jobs[j].data \in Data
          /\ \/ Quiet(j) /\ members' = members
             \/ /\ jobs' = [jobs EXCEPT ![j] = r] /\ Sane(r)
                /\ members' = members \union {Member(User(j), jobs[j].data, linking)}
      BY <1>5, MemberCreated
    <3> HIDE DEF r
    <3> QED
      BY <3>1, QuietWritten, JobWritten DEF JobsTyped
  <2>2. members' \subseteq MemberRow
    BY <1>1, <2>1, MemberTypes
  <2> QED
    BY <1>1, <1>2, <1>5, <2>1, <2>2 DEF CreateMember, Typed, SessionsTyped, JobsTyped, desk, fixed
<1>6. ASSUME NEW u \in Users, AdminReplies(u) \/ PauseBot(u) \/ ResumeUnmutes(u) \/ ResumeOpens(u)
                             \/ SessionExpires(u)
      PROVE  Typed'
  <2>1. SessionsTyped
    BY <1>2, <1>6, SessionCleared DEF AdminReplies, PauseBot, ResumeUnmutes, ResumeOpens, TakeOut,
         SessionExpires
  <2>2. /\ \E b \in BOOLEAN : muted' = muted \/ muted' = [muted EXCEPT ![u] = b]
        /\ waiting' = waiting \/ waiting' = [waiting EXCEPT ![u] = FALSE]
        /\ reopened' = reopened \/ reopened' = [reopened EXCEPT ![u] = reopened[u] + 1]
    BY <1>6 DEF AdminReplies, PauseBot, ResumeUnmutes, ResumeOpens, TakeOut,
         SessionExpires, desk
  <2>4. muted' \in [Users -> BOOLEAN] /\ waiting' \in [Users -> BOOLEAN]
    BY <1>1, <2>2
  <2>5. reopened' \in [Users -> Nat]
    BY <1>1, <2>2
  <2>3. UNCHANGED <<jobs, members, linking, notices, told>>
    BY <1>6 DEF AdminReplies, PauseBot, ResumeUnmutes, ResumeOpens, TakeOut,
         SessionExpires, desk, fixed
  <2> QED
    BY <1>1, <1>2, <2>1, <2>3, <2>4, <2>5 DEF Typed, SessionsTyped, JobsTyped
<1>7. ASSUME NEW phone \in Phones, Register([phone |-> phone, rest |-> "given"])
      PROVE  Typed'
  <2>1. [phone |-> phone, rest |-> "given"] \in Data /\ None \in Users \union {None}
    BY DEF Data, Values
  <2>2. members' \subseteq MemberRow
    BY <1>1, <1>7, <2>1, MemberTypes DEF Register
  <2> QED
    BY <1>1, <1>2, <1>7, <2>2 DEF Register, Typed, SessionsTyped, JobsTyped, desk, fixed
<1>8. CASE ToggleRegistration \/ UNCHANGED vars
  BY <1>1, <1>2, <1>8 DEF ToggleRegistration, vars, Typed, SessionsTyped, JobsTyped, desk, fixed
<1> QED
  BY <1>3, <1>4, <1>5, <1>6, <1>7, <1>8 DEF Next, QuietStep, Handover
-----------------------------------------------------------------------------
(* Every step keeps the staff asked, the created members and the sound rows.    *)

LEMMA QuietKeepsAsked ==
  ASSUME Typed, Asked, NEW j \in Jobs, Quiet(j), UNCHANGED <<waiting, reopened>>
  PROVE  Asked'
<1>1. /\ \A i \in Jobs : i # j => jobs'[i] = jobs[i]
      /\ jobs'[j].pc \notin {"notice", "created"}
      /\ jobs'[j].pc # "idle" => jobs'[j].since <= reopened[jobs'[j].user]
  BY QuietWritten
<1> QED
  BY <1>1 DEF Asked, User

LEMMA StepKeepsAsked ==
  ASSUME Typed, Asked, [Next]_vars
  PROVE  Asked'
<1>1. ASSUME NEW j \in Jobs, QuietStep(j)
      PROVE  Asked'
  BY <1>1, QuietSteps, QuietKeepsAsked
<1>2. ASSUME NEW j \in Jobs, NEW r, Sane(r), jobs' = [jobs EXCEPT ![j] = r],
             Follows(r, jobs[j]), jobs[j].pc # "idle", reopened' = reopened,
             \A u \in Users : waiting[u] => waiting'[u],
             r.pc = "notice" => waiting'[User(j)]
      PROVE  Asked'
  <2>1. /\ jobs'[j] = r /\ \A i \in Jobs : i # j => jobs'[i] = jobs[i]
        /\ \A i \in Jobs : jobs[i].pc # "idle" => User(i) \in Users
        /\ r.pc # "idle" => r.user = User(j)
    BY <1>2, JobWritten DEF Typed, Sane, User, Follows
  <2> QED
    BY <1>2, <2>1 DEF Asked, User, Follows
<1>3. ASSUME NEW j \in Jobs, RequestAdmin(j)
      PROVE  Asked'
  <2> DEFINE r == [jobs[j] EXCEPT !.pc = "notice"]
  <2>1. /\ jobs' = [jobs EXCEPT ![j] = r] /\ Sane(r)
        /\ Follows(r, jobs[j]) /\ User(j) \in Users
    BY <1>3, NoticeStarts
  <2> HIDE DEF r
  <2>2. /\ reopened' = reopened /\ waiting'[User(j)] /\ jobs[j].pc # "idle"
        /\ \A u \in Users : waiting[u] => waiting'[u]
    BY <1>3, <2>1 DEF RequestAdmin, Typed
  <2> QED
    BY <1>2, <2>1, <2>2
<1>4. ASSUME NEW j \in Jobs, CreateMember(j)
      PROVE  Asked'
  <2>1. UNCHANGED <<waiting, reopened>> /\ jobs[j].pc # "idle"
    BY <1>4 DEF CreateMember, desk
  <2> DEFINE r == [jobs[j] EXCEPT !.pc = "created"]
  <2>2. \/ Quiet(j)
        \/ jobs' = [jobs EXCEPT ![j] = r] /\ Sane(r) /\ r.pc = "created" /\ Follows(r, jobs[j])
    BY <1>4, MemberCreated
  <2> HIDE DEF r
  <2> QED
    BY <1>2, <2>1, <2>2, QuietKeepsAsked
<1>5. ASSUME NEW u \in Users, AdminReplies(u) \/ ResumeOpens(u)
      PROVE  Asked'
  <2>1. /\ jobs' = jobs
        /\ \A i \in Jobs : jobs[i].pc # "idle" =>
             /\ User(i) \in Users /\ jobs[i].since \in Nat /\ reopened[User(i)] \in Nat
    BY <1>5 DEF AdminReplies, ResumeOpens, TakeOut, Typed, Sane, User, Job
  <2>2. \A v \in Users :
          \/ waiting'[v] = waiting[v] /\ reopened'[v] = reopened[v]
          \/ ~waiting[v] /\ reopened'[v] = reopened[v]
          \/ reopened'[v] = reopened[v] + 1
    BY <1>5 DEF AdminReplies, ResumeOpens, TakeOut, Typed
  <2>3. ASSUME NEW i \in Jobs
        PROVE  /\ jobs[i].pc # "idle" => jobs[i].since <= reopened'[User(i)]
               /\ jobs[i].pc = "notice" => waiting'[User(i)] \/ reopened'[User(i)] > jobs[i].since
    BY <2>1, <2>2 DEF Asked
  <2> QED
    BY <2>1, <2>3 DEF Asked, User
<1>6. CASE \/ \E u \in Users : PauseBot(u) \/ ResumeUnmutes(u) \/ SessionExpires(u)
           \/ \E phone \in Phones : Register([phone |-> phone, rest |-> "given"])
           \/ ToggleRegistration \/ UNCHANGED vars
  <2>1. UNCHANGED <<jobs, waiting, reopened>>
    BY <1>6 DEF PauseBot, ResumeUnmutes, SessionExpires, Register, ToggleRegistration, vars, desk
  <2> QED
    BY <2>1 DEF Asked, User
<1> QED
  BY <1>1, <1>3, <1>4, <1>5, <1>6 DEF Next, QuietStep, Handover

LEMMA QuietKeepsCreated ==
  ASSUME Typed, Created, NEW j \in Jobs, Quiet(j), members \subseteq members'
  PROVE  Created'
<1>1. /\ \A i \in Jobs : i # j => jobs'[i] = jobs[i]
      /\ jobs'[j].pc \notin {"notice", "created"}
  BY QuietWritten
<1> QED
  BY <1>1 DEF Created, User

LEMMA StepKeepsCreated ==
  ASSUME Typed, Asked, Created, [Next]_vars
  PROVE  Created'
<1>1. ASSUME NEW j \in Jobs, QuietStep(j)
      PROVE  Created'
  <2>1. Quiet(j) /\ members' = members
    BY <1>1, QuietSteps
  <2> QED
    BY <2>1, QuietKeepsCreated
<1>2. ASSUME NEW j \in Jobs, RequestAdmin(j)
      PROVE  Created'
  <2> DEFINE r == [jobs[j] EXCEPT !.pc = "notice"]
  <2>1. jobs' = [jobs EXCEPT ![j] = r] /\ Sane(r) /\ r.pc = "notice" /\ members' = members
    BY <1>2, NoticeStarts DEF RequestAdmin
  <2> HIDE DEF r
  <2>2. jobs'[j] = r /\ \A i \in Jobs : i # j => jobs'[i] = jobs[i]
    BY <2>1, JobWritten
  <2> QED
    BY <2>1, <2>2 DEF Created, User
<1>3. ASSUME NEW j \in Jobs, CreateMember(j)
      PROVE  Created'
  <2> DEFINE r == [jobs[j] EXCEPT !.pc = "created"]
             m == Member(User(j), jobs[j].data, linking)
  <2>1. CASE Quiet(j) /\ members' = members
    BY <2>1, QuietKeepsCreated
  <2>2. CASE /\ jobs' = [jobs EXCEPT ![j] = r] /\ Sane(r)
             /\ r.pc = "created" /\ Follows(r, jobs[j]) /\ r.data = jobs[j].data
             /\ members' = members \union {m}
    <3> HIDE DEF r
    <3>1. jobs'[j] = r /\ \A i \in Jobs : i # j => jobs'[i] = jobs[i]
      BY <2>2, JobWritten
    <3>2. m.owner = User(j) /\ m.phone = jobs[j].data.phone
      BY DEF Member
    <3> HIDE DEF m
    <3>3. r.user = User(j) /\ m \in members' /\ members \subseteq members'
      BY <2>2 DEF Follows, User
    <3> QED
      BY <2>2, <3>1, <3>2, <3>3 DEF Created, User
  <2> QED
    BY <1>3, <2>1, <2>2, MemberCreated
<1>4. CASE \/ \E u \in Users : AdminReplies(u) \/ PauseBot(u) \/ ResumeUnmutes(u) \/ ResumeOpens(u)
                             \/ SessionExpires(u)
           \/ \E phone \in Phones : Register([phone |-> phone, rest |-> "given"])
           \/ ToggleRegistration \/ UNCHANGED vars
  <2>1. jobs' = jobs /\ members \subseteq members'
    BY <1>4 DEF AdminReplies, PauseBot, ResumeUnmutes, ResumeOpens, TakeOut,
         SessionExpires, Register, ToggleRegistration, vars
  <2> QED
    BY <2>1 DEF Created, User
<1> QED
  BY <1>1, <1>2, <1>3, <1>4 DEF Next, QuietStep, Handover
LEMMA StepKeepsSound ==
  ASSUME Typed, Asked, Created, RegistrationsAreSound, [Next]_vars
  PROVE  RegistrationsAreSound'
<1>1. ASSUME members' = members, told' = told
      PROVE  RegistrationsAreSound'
  BY <1>1 DEF RegistrationsAreSound
<1>2. ASSUME NEW owner, NEW data, NEW link \in BOOLEAN, Checked(data),
             link => ~Linked(owner),
             members' = members \union {Member(owner, data, link)}, told' = told
      PROVE  RegistrationsAreSound'
  <2> DEFINE new == Member(owner, data, link)
  <2>1. /\ new.owner = owner /\ new.phone \in Phones /\ new.rest = "given" /\ new.link = link
        /\ members' = members \union {new}
    BY <1>2 DEF Member, Checked
  <2> HIDE DEF new
  <2>2. \A m \in members' : m.phone \in Phones /\ m.rest = "given"
    BY <2>1 DEF RegistrationsAreSound
  <2>3. ASSUME NEW m \in members', NEW n \in members', m.link, n.link, m.owner = n.owner
        PROVE  m = n
    BY <1>2, <2>1, <2>3 DEF RegistrationsAreSound, Linked
  <2>4. \A t \in told' : \E m \in members' : m.owner = t[1] /\ m.phone = t[2]
    BY <1>2, <2>1 DEF RegistrationsAreSound
  <2> QED
    BY <2>2, <2>3, <2>4 DEF RegistrationsAreSound
<1>3. ASSUME NEW j \in Jobs, QuietStep(j)
      PROVE  RegistrationsAreSound'
  <2>1. members' = members /\ (SendAuthToUser(j) \/ told' = told)
    BY <1>3, QuietSteps
  <2>2. CASE SendAuthToUser(j)
    <3>1. /\ told' = told \union {<<User(j), jobs[j].data.phone>>}
          /\ \E m \in members : m.owner = User(j) /\ m.phone = jobs[j].data.phone
      BY <2>2 DEF SendAuthToUser, Created
    <3> QED
      BY <2>1, <3>1 DEF RegistrationsAreSound
  <2> QED
    BY <1>1, <2>1, <2>2
<1>4. ASSUME NEW j \in Jobs, CreateMember(j)
      PROVE  RegistrationsAreSound'
  <2>1. /\ Checked(jobs[j].data) /\ told' = told
        /\ \/ members' = members
           \/ /\ ~(linking /\ Linked(User(j)))
              /\ members' = members \union {Member(User(j), jobs[j].data, linking)}
    BY <1>4, MemberCreated DEF CreateMember
  <2>2. linking \in BOOLEAN
    BY DEF Typed
  <2> QED
    BY <1>1, <1>2, <2>1, <2>2
<1>5. ASSUME NEW phone \in Phones, Register([phone |-> phone, rest |-> "given"])
      PROVE  RegistrationsAreSound'
  <2>1. /\ Checked([phone |-> phone, rest |-> "given"]) /\ told' = told
        /\ members' = members \union {Member(None, [phone |-> phone, rest |-> "given"], FALSE)}
    BY <1>5 DEF Register, Checked
  <2> QED
    BY <1>2, <2>1
<1>6. CASE \/ \E j \in Jobs : RequestAdmin(j)
           \/ \E u \in Users : AdminReplies(u) \/ PauseBot(u) \/ ResumeUnmutes(u) \/ ResumeOpens(u)
                             \/ SessionExpires(u)
           \/ ToggleRegistration \/ UNCHANGED vars
  BY <1>1, <1>6 DEF RequestAdmin, AdminReplies, PauseBot, ResumeUnmutes, ResumeOpens, TakeOut,
         SessionExpires, ToggleRegistration, vars
<1> QED
  BY <1>3, <1>4, <1>5, <1>6 DEF Next, QuietStep, Handover

-----------------------------------------------------------------------------
(* Every step keeps the count of the notices.                                   *)

\* The handlings about to write a notice on u.
Telling(u) == {j \in Jobs : User(j) = u /\ jobs[j].pc = "notice"}
Owed(u) == reopened[u] + (IF waiting[u] THEN 1 ELSE 0)

LEMMA TellingFinite ==
  ASSUME NEW T \in SUBSET Jobs, NEW j
  PROVE  /\ IsFiniteSet(T) /\ Cardinality(T) \in Nat
         /\ \A S \in SUBSET T : Cardinality(S) <= Cardinality(T) /\ Cardinality(S) \in Nat
         /\ j \in T => Cardinality(T \ {j}) = Cardinality(T) - 1
         /\ j \notin T => Cardinality(T \union {j}) = Cardinality(T) + 1
<1>1. IsFiniteSet(T)
  BY JobsAssumption, FS_Subset
<1>2. \A S \in SUBSET T : Cardinality(S) <= Cardinality(T) /\ Cardinality(S) \in Nat
  BY <1>1, FS_Subset, FS_CardinalityType
<1> QED
  BY <1>1, <1>2, FS_CardinalityType, FS_AddElement, FS_RemoveElement

\* No notice is due that was not.
LEMMA NoticesStand ==
  ASSUME Typed, OneNoticePerRequest, UNCHANGED notices,
         \A u \in Users : Telling(u)' \subseteq Telling(u) /\ Owed(u)' = Owed(u)
  PROVE  OneNoticePerRequest'
<1> SUFFICES ASSUME NEW u \in Users
             PROVE  notices'[u] + Cardinality(Telling(u)') <= Owed(u)'
  BY DEF OneNoticePerRequest, Telling, Owed
<1>1. Telling(u) \in SUBSET Jobs /\ Telling(u)' \in SUBSET Telling(u)
  BY DEF Telling
<1>2. Cardinality(Telling(u)') <= Cardinality(Telling(u))
      /\ Cardinality(Telling(u)') \in Nat /\ Cardinality(Telling(u)) \in Nat
  BY <1>1, TellingFinite
<1>3. notices[u] + Cardinality(Telling(u)) <= Owed(u) /\ notices[u] \in Nat /\ Owed(u) \in Nat
  BY DEF OneNoticePerRequest, Telling, Owed, Typed
<1> QED
  BY <1>2, <1>3

\* A handling that writes no notice next.
LEMMA QuietTelling ==
  ASSUME Typed, NEW j \in Jobs, Quiet(j), NEW u
  PROVE  Telling(u)' = Telling(u) \ {j}
<1>1. /\ \A i \in Jobs : i # j => jobs'[i] = jobs[i]
      /\ jobs'[j].pc # "notice"
  BY QuietWritten
<1> QED
  BY <1>1 DEF Telling, User

LEMMA StepKeepsOneNotice ==
  ASSUME Typed, Asked, OneNoticePerRequest, [Next]_vars
  PROVE  OneNoticePerRequest'
<1>1. \A u \in Users : /\ notices[u] + Cardinality(Telling(u)) <= Owed(u)
                       /\ notices[u] \in Nat /\ Owed(u) \in Nat
                       /\ Telling(u) \in SUBSET Jobs /\ Cardinality(Telling(u)) \in Nat
  <2>1. \A u \in Users : Telling(u) \in SUBSET Jobs
    BY DEF Telling
  <2>2. \A u \in Users : Cardinality(Telling(u)) \in Nat
    BY <2>1, TellingFinite
  <2>3. \A u \in Users : notices[u] + Cardinality(Telling(u)) <= Owed(u)
    BY DEF OneNoticePerRequest, Telling, Owed
  <2>4. \A u \in Users : notices[u] \in Nat /\ Owed(u) \in Nat
    BY DEF Owed, Typed
  <2> QED
    BY <2>1, <2>2, <2>3, <2>4
<1>2. ASSUME NEW j \in Jobs, QuietStep(j), notices' = notices
      PROVE  OneNoticePerRequest'
  <2>1. Quiet(j) /\ UNCHANGED <<waiting, reopened>>
    BY <1>2, QuietSteps
  <2>2. \A u \in Users : Telling(u)' \subseteq Telling(u) /\ Owed(u)' = Owed(u)
    BY <2>1, QuietTelling DEF Owed
  <2> QED
    BY <1>2, <2>2, NoticesStand
<1>3. ASSUME NEW j \in Jobs, NotifyAdminRequired(j)
      PROVE  OneNoticePerRequest'
  <2>1. /\ Quiet(j) /\ UNCHANGED <<waiting, reopened>> /\ User(j) \in Users
        /\ jobs[j].pc = "notice"
        /\ notices' = [notices EXCEPT ![User(j)] = notices[User(j)] + 1]
    BY <1>3, QuietSteps DEF QuietStep, NotifyAdminRequired, Typed, Sane, User
  <2> SUFFICES ASSUME NEW u \in Users
               PROVE  notices'[u] + Cardinality(Telling(u)') <= Owed(u)'
    BY DEF OneNoticePerRequest, Telling, Owed
  <2>2. Telling(u)' = Telling(u) \ {j} /\ Owed(u)' = Owed(u)
    BY <2>1, QuietTelling DEF Owed
  <2>3. CASE u = User(j)
    <3>1. j \in Telling(u)
      BY <2>1, <2>3 DEF Telling
    <3>2. Cardinality(Telling(u) \ {j}) = Cardinality(Telling(u)) - 1
      BY <1>1, <3>1, TellingFinite
    <3>3. notices'[u] = notices[u] + 1
      BY <2>1, <2>3 DEF Typed
    <3> QED
      BY <1>1, <2>2, <3>2, <3>3
  <2>4. CASE u # User(j)
    <3>1. Telling(u) \ {j} = Telling(u)
      BY <2>4 DEF Telling
    <3>2. notices'[u] = notices[u]
      BY <2>1, <2>4 DEF Typed
    <3> QED
      BY <1>1, <2>2, <3>1, <3>2
  <2> QED
    BY <2>3, <2>4
<1>4. ASSUME NEW j \in Jobs, RequestAdmin(j)
      PROVE  OneNoticePerRequest'
  <2> DEFINE r == [jobs[j] EXCEPT !.pc = "notice"]
  <2>1. /\ jobs' = [jobs EXCEPT ![j] = r] /\ Sane(r) /\ r.pc = "notice"
        /\ r.user = User(j) /\ User(j) \in Users
    BY <1>4, NoticeStarts DEF Follows, User
  <2> HIDE DEF r
  <2>2. jobs'[j] = r /\ \A i \in Jobs : i # j => jobs'[i] = jobs[i]
    BY <2>1, JobWritten
  <2>3. /\ jobs[j].pc = "handover" /\ ~waiting[User(j)] /\ UNCHANGED <<notices, reopened>>
        /\ waiting' = [waiting EXCEPT ![User(j)] = TRUE]
    BY <1>4 DEF RequestAdmin
  <2> SUFFICES ASSUME NEW u \in Users
               PROVE  notices'[u] + Cardinality(Telling(u)') <= Owed(u)'
    BY DEF OneNoticePerRequest, Telling, Owed
  <2>4. CASE u = User(j)
    <3>1. Telling(u)' = Telling(u) \union {j} /\ j \notin Telling(u)
      BY <2>1, <2>2, <2>3, <2>4 DEF Telling, User
    <3>2. Cardinality(Telling(u) \union {j}) = Cardinality(Telling(u)) + 1
      BY <1>1, <3>1, TellingFinite
    <3>3. Owed(u)' = Owed(u) + 1
      BY <2>1, <2>3, <2>4 DEF Owed, Typed
    <3> QED
      BY <1>1, <2>3, <3>1, <3>2, <3>3
  <2>5. CASE u # User(j)
    <3>1. Telling(u)' = Telling(u)
      BY <2>1, <2>2, <2>3, <2>5 DEF Telling, User
    <3>2. Owed(u)' = Owed(u)
      BY <2>1, <2>3, <2>5 DEF Owed, Typed
    <3> QED
      BY <1>1, <2>3, <3>1, <3>2
  <2> QED
    BY <2>4, <2>5
<1>5. ASSUME NEW j \in Jobs, CreateMember(j)
      PROVE  OneNoticePerRequest'
  <2>1. UNCHANGED <<notices, waiting, reopened>> /\ jobs[j].pc = "create"
    BY <1>5 DEF CreateMember, desk
  <2>2. /\ \A i \in Jobs : i # j => jobs'[i] = jobs[i]
        /\ jobs'[j].pc # "notice"
    <3> DEFINE r == [jobs[j] EXCEPT !.pc = "created"]
    <3>1. Quiet(j) \/ (jobs' = [jobs EXCEPT ![j] = r] /\ Sane(r) /\ r.pc = "created")
      BY <1>5, MemberCreated
    <3> HIDE DEF r
    <3> QED
      BY <3>1, QuietWritten, JobWritten
  <2>3. \A u \in Users : Telling(u)' \subseteq Telling(u) /\ Owed(u)' = Owed(u)
    BY <2>1, <2>2 DEF Telling, Owed, User
  <2> QED
    BY <2>1, <2>3, NoticesStand
<1>6. ASSUME NEW u \in Users, AdminReplies(u) \/ ResumeOpens(u)
      PROVE  OneNoticePerRequest'
  <2>1. UNCHANGED <<jobs, notices>>
    BY <1>6 DEF AdminReplies, ResumeOpens, TakeOut
  <2>2. \A v \in Users : Owed(v)' \in Nat /\ Owed(v)' >= Owed(v)
    BY <1>6 DEF AdminReplies, ResumeOpens, TakeOut, Owed, Typed
  <2>3. \A v \in Users : Telling(v)' = Telling(v)
    BY <2>1 DEF Telling, User
  <2> SUFFICES ASSUME NEW v \in Users
               PROVE  notices'[v] + Cardinality(Telling(v)') <= Owed(v)'
    BY DEF OneNoticePerRequest, Telling, Owed
  <2> QED
    BY <1>1, <2>1, <2>2, <2>3
<1>7. CASE \/ \E u \in Users : PauseBot(u) \/ ResumeUnmutes(u) \/ SessionExpires(u)
           \/ \E phone \in Phones : Register([phone |-> phone, rest |-> "given"])
           \/ ToggleRegistration \/ UNCHANGED vars
  <2>1. UNCHANGED <<jobs, notices, waiting, reopened>>
    BY <1>7 DEF PauseBot, ResumeUnmutes, SessionExpires, Register, ToggleRegistration, vars, desk
  <2>2. \A u \in Users : Telling(u)' \subseteq Telling(u) /\ Owed(u)' = Owed(u)
    BY <2>1 DEF Telling, Owed, User
  <2> QED
    BY <2>1, <2>2, NoticesStand
<1>8. ASSUME NEW j \in Jobs, QuietStep(j)
      PROVE  OneNoticePerRequest'
  BY <1>2, <1>3, <1>8, QuietSteps
<1> QED
  BY <1>4, <1>5, <1>6, <1>7, <1>8 DEF Next, QuietStep, Handover
-----------------------------------------------------------------------------
(* The results.                                                                *)

LEMMA Inductive ==
  /\ Init => IInv
  /\ IInv /\ [Next]_vars => IInv'
<1>1. ASSUME Init
      PROVE  IInv
  <2>1. Typed
    <3>1. Idle.pc = "idle" /\ Idle.copy = None
      BY DEF Idle
    <3>2. Sane(Idle) /\ Idle \in Job
      BY <3>1, IdleTypes DEF Sane, Advanced
    <3>3. jobs \in [Jobs -> Job] /\ \A j \in Jobs : Sane(jobs[j])
      BY <1>1, <3>2 DEF Init
    <3>4. session \in [Users -> Sessions \union {None}] /\ \A u \in Users : Advanced(session[u])
      <4> DEFINE s == [flow |-> "REGISTER", step |-> "SEND", data |-> NoData]
      <4>1. NoData \in Data
        BY DEF NoData, Data, Values
      <4>2. s \in Sessions /\ Advanced(s) /\ Advanced(None)
        BY <4>1 DEF Sessions, Steps, Advanced
      <4>3. session \in [Users -> {None, s}]
        BY <1>1 DEF Init
      <4> HIDE DEF s
      <4> QED
        BY <4>2, <4>3
    <3> QED
      BY <1>1, <3>3, <3>4 DEF Init, Typed
  <2>2. \A j \in Jobs : jobs[j].pc = "idle"
    BY <1>1 DEF Init, Idle
  <2>3. Asked /\ Created
    BY <2>2 DEF Asked, Created
  <2>4. OneNoticePerRequest
    <3> SUFFICES ASSUME NEW u \in Users
                 PROVE  notices[u] + Cardinality(Telling(u)) <= Owed(u)
      BY DEF OneNoticePerRequest, Telling, Owed
    <3>1. Telling(u) = {}
      BY <2>2 DEF Telling
    <3>2. Cardinality(Telling(u)) = 0
      BY <3>1, FS_EmptySet
    <3>3. notices[u] = 0 /\ Owed(u) = 0
      BY <1>1 DEF Init, Owed
    <3> QED
      BY <3>2, <3>3
  <2>5. RegistrationsAreSound
    BY <1>1 DEF Init, RegistrationsAreSound
  <2> QED
    BY <2>1, <2>3, <2>4, <2>5 DEF IInv
<1>2. ASSUME IInv, [Next]_vars
      PROVE  IInv'
  BY <1>2, StepTyped, StepKeepsAsked, StepKeepsCreated, StepKeepsOneNotice, StepKeepsSound
     DEF IInv
<1> QED
  BY <1>1, <1>2

THEOREM Invariant == Spec => []IInv
BY Inductive, PTL DEF Spec

\* Sessions, rows and the locals of a handling keep their types, for any customers,
\* messages and number of handlings.
THEOREM TypeCorrect == Spec => []TypeOK
<1>1. IInv => TypeOK
  BY Zenon DEF IInv, Typed, Asked, TypeOK, Sane, Job, User, MemberRow
<1> QED
  BY <1>1, Invariant, PTL

\* However many handings-over of a customer run at once, fail or are repeated, the staff
\* gets at most one notice for each time the conversation enters its queue (requestAdmin's
\* conditional update), which it leaves when an admin answers or resumes the bot.
THEOREM StaffToldOnce == Spec => []OneNoticePerRequest
<1>1. IInv => OneNoticePerRequest
  BY DEF IInv
<1> QED
  BY <1>1, Invariant, PTL

\* A form of a customer in the registration flow never reaches search, classifier or
\* answer (the gates before the search, chatbot/intent).
THEOREM FormsConfined == Spec => []FormsStayInTheFlow
<1>1. IInv => FormsStayInTheFlow
  BY DEF IInv, Typed, Sane, FormsStayInTheFlow
<1> QED
  BY <1>1, Invariant, PTL

\* Members hold checked data, a LINE account is linked to one of them, and credentials
\* reach only the customer whose form created the member (registration.service).
THEOREM MembersAreSound == Spec => []RegistrationsAreSound
<1>1. IInv => RegistrationsAreSound
  BY DEF IInv
<1> QED
  BY <1>1, Invariant, PTL

\* Who is told that the staff will answer is in its queue, or an admin took him out of it
\* since his message came in, by an answer or by resuming the bot (requestAdmin, before the
\* reply, and resumeBot, which opens a conversation whatever its status).
THEOREM StaffIsAskedAlways == Spec => StaffIsAsked
<1>1. IInv /\ [Next]_vars =>
        [\A j \in Jobs :
           jobs[j].pc # "idle" /\ jobs'[j].said \in {"fallback", "contact"} /\ jobs'[j] # jobs[j]
           => \/ channel[User(j)] = "PREVIEW"
              \/ waiting'[User(j)]
              \/ reopened'[User(j)] > jobs[j].since]_vars
  <2> SUFFICES ASSUME IInv, Next, NEW j \in Jobs, jobs[j].pc # "idle",
                      jobs'[j].said \in {"fallback", "contact"}, jobs'[j] # jobs[j]
               PROVE  \/ channel[User(j)] = "PREVIEW"
                      \/ waiting'[User(j)]
                      \/ reopened'[User(j)] > jobs[j].since
    BY DEF vars
  <2>1. Typed /\ Asked
    BY DEF IInv
  <2>2. ASSUME NEW i \in Jobs, Quiet(i), UNCHANGED <<waiting, reopened>>
        PROVE  StaffKnows(j) /\ UNCHANGED <<waiting, reopened>>
    BY <2>1, <2>2, QuietWritten
  <2>3. ASSUME NEW i \in Jobs, NEW r, Sane(r), r.pc # "idle", jobs' = [jobs EXCEPT ![i] = r]
        PROVE  FALSE
    BY <2>1, <2>3, JobWritten DEF Sane
  <2>4. ASSUME NEW i \in Jobs, QuietStep(i)
        PROVE  StaffKnows(j) /\ UNCHANGED <<waiting, reopened>>
    BY <2>1, <2>2, <2>4, QuietSteps
  <2>5. ASSUME NEW i \in Jobs, RequestAdmin(i)
        PROVE  FALSE
    <3> DEFINE r == [jobs[i] EXCEPT !.pc = "notice"]
    <3>1. jobs' = [jobs EXCEPT ![i] = r] /\ Sane(r) /\ r.pc = "notice"
      BY <2>1, <2>5, NoticeStarts
    <3> HIDE DEF r
    <3> QED
      BY <2>3, <3>1
  <2>6. ASSUME NEW i \in Jobs, CreateMember(i)
        PROVE  StaffKnows(j) /\ UNCHANGED <<waiting, reopened>>
    <3> DEFINE r == [jobs[i] EXCEPT !.pc = "created"]
    <3>1. \/ Quiet(i)
          \/ jobs' = [jobs EXCEPT ![i] = r] /\ Sane(r) /\ r.pc = "created"
      BY <2>1, <2>6, MemberCreated
    <3>2. UNCHANGED <<waiting, reopened>>
      BY <2>6 DEF CreateMember, desk
    <3> HIDE DEF r
    <3> QED
      BY <2>2, <2>3, <3>1, <3>2
  <2>7. CASE \/ \E u \in Users : AdminReplies(u) \/ PauseBot(u) \/ ResumeUnmutes(u) \/ ResumeOpens(u)
                             \/ SessionExpires(u)
             \/ \E phone \in Phones : Register([phone |-> phone, rest |-> "given"])
             \/ ToggleRegistration
    BY <2>7 DEF AdminReplies, PauseBot, ResumeUnmutes, ResumeOpens, TakeOut,
         SessionExpires, Register, ToggleRegistration
  <2>8. ASSUME StaffKnows(j), UNCHANGED <<waiting, reopened>>
        PROVE  \/ channel[User(j)] = "PREVIEW"
               \/ waiting'[User(j)]
               \/ reopened'[User(j)] > jobs[j].since
    BY <2>8 DEF StaffKnows
  <2> QED
    BY <2>4, <2>5, <2>6, <2>7, <2>8 DEF Next, QuietStep, Handover
<1> QED
  BY <1>1, Invariant, PTL DEF Spec, StaffIsAsked

-----------------------------------------------------------------------------
(* Knowledge: the lists its search ranks.                                    *)

\* A set of pairs that orders S strictly.
Strict(S, R) ==
  /\ \A x \in S : <<x, x>> \notin R
  /\ \A x, y \in S : x # y => <<x, y>> \in R \/ <<y, x>> \in R
  /\ \A x, y, z \in S : <<x, y>> \in R /\ <<y, z>> \in R => <<x, z>> \in R

Place(S, R) == [x \in S |-> 1 + Cardinality({y \in S : <<y, x>> \in R})]

\* The places of n elements are 1 .. n, each once.
LEMMA Places ==
  ASSUME NEW S, IsFiniteSet(S), NEW R, Strict(S, R)
  PROVE  Place(S, R) \in Injection(S, 1 .. Cardinality(S))
                            \intersect Surjection(S, 1 .. Cardinality(S))
<1> DEFINE Below(x) == {y \in S : <<y, x>> \in R}
           n == Cardinality(S)
           P == Place(S, R)
<1>1. n \in Nat
  BY FS_CardinalityType
<1>2. \A x \in S : Cardinality(Below(x)) \in Nat /\ Cardinality(Below(x)) < n
  <2> TAKE x \in S
  <2>1. Below(x) \in SUBSET S /\ x \notin Below(x)
    BY DEF Strict
  <2>2. Below(x) # S
    BY <2>1
  <2> HIDE DEF Below
  <2>3. IsFiniteSet(Below(x)) /\ Cardinality(Below(x)) <= n
        /\ Cardinality(Below(x)) # n
    BY <2>1, <2>2, FS_Subset
  <2>4. Cardinality(Below(x)) \in Nat
    BY <2>3, FS_CardinalityType
  <2> QED
    BY <1>1, <2>3, <2>4
<1>3. \A x, y \in S : <<x, y>> \in R => Cardinality(Below(x)) < Cardinality(Below(y))
  <2> TAKE x, y \in S
  <2> HAVE <<x, y>> \in R
  <2>1. Below(x) \in SUBSET Below(y) /\ x \in Below(y) /\ x \notin Below(x)
    BY DEF Strict
  <2>2. Below(y) \in SUBSET S
    OBVIOUS
  <2> HIDE DEF Below
  <2>3. IsFiniteSet(Below(y)) /\ Below(x) # Below(y)
    BY <2>1, <2>2, FS_Subset
  <2>4. Cardinality(Below(x)) <= Cardinality(Below(y))
        /\ Cardinality(Below(x)) # Cardinality(Below(y))
    BY <2>1, <2>3, FS_Subset
  <2> QED
    BY <1>2, <2>4
<1>4. P \in [S -> 1 .. n]
  <2>1. \A x \in S : P[x] = 1 + Cardinality(Below(x))
    BY DEF Place
  <2>2. \A x \in S : P[x] \in 1 .. n
    <3> HIDE DEF P, Below, n
    <3> QED BY <1>1, <1>2, <2>1
  <2> QED
    BY <2>2 DEF Place
<1>5. \A x, y \in S : P[x] = P[y] => x = y
  <2> TAKE x, y \in S
  <2> HAVE P[x] = P[y]
  <2>1. Cardinality(Below(x)) = Cardinality(Below(y))
    BY <1>2 DEF Place
  <2>2. ~ (Cardinality(Below(x)) < Cardinality(Below(y)))
        /\ ~ (Cardinality(Below(y)) < Cardinality(Below(x)))
    BY <1>2, <2>1
  <2>3. <<x, y>> \notin R /\ <<y, x>> \notin R
    BY <1>3, <2>2
  <2> QED
    BY <2>3 DEF Strict
<1>6. P \in Injection(S, 1 .. n)
  BY <1>4, <1>5 DEF Injection, IsInjective
<1>7. IsFiniteSet(1 .. n) /\ Cardinality(1 .. n) = n
  BY <1>1, FS_Interval
<1> HIDE DEF P, n
<1>8. P \in Surjection(S, 1 .. n)
  BY <1>6, <1>7, FS_Injection DEF n
<1> QED
  BY <1>6, <1>8 DEF P, n

\* A list whose i-th element is the one with place i has every element of S.
LEMMA ListOfPlaces ==
  ASSUME NEW S, IsFiniteSet(S), NEW R, Strict(S, R), NEW s,
         s = [i \in 1 .. Cardinality(S) |-> s[i]],
         \A i \in 1 .. Cardinality(S) : (\E x \in S : Place(S, R)[x] = i) =>
           s[i] \in S /\ Place(S, R)[s[i]] = i
  PROVE  s \in Seq(S) /\ Len(s) = Cardinality(S) /\ Elements(s) = S
<1> DEFINE n == Cardinality(S)
           P == Place(S, R)
<1>1. n \in Nat
  BY FS_CardinalityType
<1>2. P \in [S -> 1 .. n] /\ (\A x, y \in S : P[x] = P[y] => x = y)
      /\ (\A i \in 1 .. n : \E x \in S : P[x] = i)
  <2>1. P \in Injection(S, 1 .. n) /\ P \in Surjection(S, 1 .. n)
    BY Places
  <2> QED
    BY <2>1 DEF Injection, IsInjective, Surjection
<1>3. \A i \in 1 .. n : s[i] \in S /\ P[s[i]] = i
  BY <1>2
<1> HIDE DEF P
<1>4. s \in [1 .. n -> S]
  BY <1>3
<1>5. s \in Seq(S) /\ Len(s) = n
  BY <1>1, <1>4
<1>6. \A x \in S : \E i \in 1 .. n : s[i] = x
  BY <1>2, <1>3
<1>7. Elements(s) = S
  <2>1. DOMAIN s = 1 .. n
    BY <1>4
  <2> HIDE DEF n
  <2> QED
    BY <1>3, <1>6, <2>1 DEF Elements
<1> QED
  BY <1>5, <1>7

\* A prefix holds what the list holds, and all of it when it is short enough.
LEMMA PrefixFacts ==
  ASSUME NEW T, NEW s \in Seq(T), NEW n \in Nat
  PROVE  /\ Prefix(s, n) \in Seq(T)
         /\ Elements(Prefix(s, n)) \subseteq Elements(s)
         /\ Len(Prefix(s, n)) = (IF Len(s) < n THEN Len(s) ELSE n)
         /\ Len(s) <= n => Elements(Prefix(s, n)) = Elements(s)
<1> DEFINE m == IF Len(s) < n THEN Len(s) ELSE n
<1>1. m \in 0 .. Len(s) /\ Len(s) \in Nat
  OBVIOUS
<1>2. Prefix(s, n) = SubSeq(s, 1, m)
  BY DEF Prefix
<1>3. SubSeq(s, 1, m) = [i \in 1 .. m |-> s[i]]
  <2> HIDE DEF m
  <2> QED BY <1>1
<1>4. DOMAIN s = 1 .. Len(s)
  OBVIOUS
<1>5. /\ [i \in 1 .. m |-> s[i]] \in Seq(T)
      /\ Len([i \in 1 .. m |-> s[i]]) = m
  <2> HIDE DEF m
  <2> QED BY <1>1
<1>6. Elements([i \in 1 .. m |-> s[i]]) = {s[i] : i \in 1 .. m}
  <2> HIDE DEF m
  <2> QED BY DEF Elements
<1>7. Elements(s) = {s[i] : i \in 1 .. Len(s)}
  BY <1>4 DEF Elements
<1>8. 1 .. m \subseteq 1 .. Len(s) /\ (Len(s) <= n => m = Len(s))
  BY <1>1
<1> DEFINE p == [i \in 1 .. m |-> s[i]]
<1>9. p \in Seq(T) /\ Len(p) = m
  BY <1>5
<1>10. Elements(p) \subseteq Elements(s) /\ (Len(s) <= n => Elements(p) = Elements(s))
  <2> HIDE DEF m
  <2> QED BY <1>6, <1>7, <1>8
<1>11. Prefix(s, n) = p
  BY <1>2, <1>3
<1> HIDE DEF p
<1> QED
  BY <1>9, <1>10, <1>11

\* The rows of a table, each at most once.
StoredRow == [row : Rows, wording : AllWordings, version : Nat]
Keyed(S) == \A a, b \in S : a.row = b.row => a = b

\* A read of a table within its limit brings all of its rows.
LEMMA ScannedFacts ==
  ASSUME NEW stored, IsFiniteSet(stored), stored \subseteq StoredRow, Keyed(stored)
  PROVE  /\ Scanned(stored) \in Seq(StoredRow)
         /\ Elements(Scanned(stored)) \subseteq stored
         /\ Len(Scanned(stored)) < MaxScanned => Elements(Scanned(stored)) = stored
         /\ Cardinality(stored) <= MaxScanned => Elements(Scanned(stored)) = stored
<1> DEFINE before(a, b) == \/ a.wording.priority > b.wording.priority
                           \/ a.wording.priority = b.wording.priority
                                /\ Order[a.row] < Order[b.row]
           R == {p \in stored \X stored : before(p[1], p[2])}
           list == Ranked(stored, before)
<1>1. \A a \in stored : a.row \in Rows /\ a.wording.priority \in Nat /\ Order[a.row] \in Nat
  BY RowsAssumption, WordingsAssumption DEF StoredRow
<1>2. \A a, b \in stored : a # b => Order[a.row] # Order[b.row]
  BY <1>1, RowsAssumption DEF Keyed
<1>3. \A a, b \in stored : <<a, b>> \in R <=> before(a, b)
  OBVIOUS
<1>4. Strict(stored, R)
  <2> HIDE DEF R
  <2> QED BY <1>1, <1>2, <1>3 DEF Strict
<1>5. \A x \in stored : Place(stored, R)[x] = 1 + Cardinality({y \in stored : before(y, x)})
  <2> TAKE x \in stored
  <2>1. {y \in stored : <<y, x>> \in R} = {y \in stored : before(y, x)}
    BY <1>3
  <2> QED
    BY <2>1 DEF Place
<1>6. list = [i \in 1 .. Cardinality(stored) |->
               CHOOSE x \in stored : 1 + Cardinality({y \in stored : before(y, x)}) = i]
  BY DEF Ranked
<1>7. \A i \in 1 .. Cardinality(stored) :
        (\E x \in stored : Place(stored, R)[x] = i) =>
          list[i] \in stored /\ Place(stored, R)[list[i]] = i
  <2> TAKE i \in 1 .. Cardinality(stored)
  <2> HAVE \E x \in stored : Place(stored, R)[x] = i
  <2> DEFINE place(x) == 1 + Cardinality({y \in stored : before(y, x)})
  <2>1. list[i] = CHOOSE x \in stored : place(x) = i
    BY <1>6
  <2>2. \E x \in stored : place(x) = i
    BY <1>5
  <2>3. \A x \in stored : Place(stored, R)[x] = place(x)
    BY <1>5
  <2> HIDE DEF place, R, list
  <2> QED BY <2>1, <2>2, <2>3
<1>8. list \in Seq(stored) /\ Len(list) = Cardinality(stored) /\ Elements(list) = stored
  <2>1. list = [i \in 1 .. Cardinality(stored) |-> list[i]]
    BY <1>6
  <2> HIDE DEF R, list
  <2> QED BY <1>4, <1>7, <2>1, ListOfPlaces
<1>9. Scanned(stored) = Prefix(list, MaxScanned)
  BY DEF Scanned
<1> HIDE DEF list
<1>10. MaxScanned \in Nat
  BY CapsAssumption
<1>11. list \in Seq(StoredRow)
  BY <1>8
<1>12. Prefix(list, MaxScanned) \in Seq(StoredRow)
  BY <1>10, <1>11, PrefixFacts
<1>13. /\ Elements(Prefix(list, MaxScanned)) \subseteq Elements(list)
       /\ Len(Prefix(list, MaxScanned)) = (IF Len(list) < MaxScanned THEN Len(list) ELSE MaxScanned)
       /\ Len(list) <= MaxScanned => Elements(Prefix(list, MaxScanned)) = Elements(list)
  BY <1>8, <1>10, PrefixFacts
<1>14. Cardinality(stored) \in Nat
  BY FS_CardinalityType
<1> QED
  BY <1>8, <1>9, <1>10, <1>12, <1>13, <1>14
-----------------------------------------------------------------------------
(* The matches of one table.                                                 *)

KnowledgeItem ==
  [row : Rows, wording : AllWordings, version : Nat,
   questions : {w.questions : w \in AllWordings}, priority : Nat,
   topic : {w.topic : w \in AllWordings} \union {"none"}, raw : Nat, sim : Nat,
   exact : BOOLEAN, direct : BOOLEAN, ambiguous : BOOLEAN,
   types : SUBSET {"EXACT", "KEYWORD", "EMBEDDING"}]

\* The elements of a list are of its type, and no more than its length.
LEMMA ElementsFacts ==
  ASSUME NEW T, NEW s \in Seq(T)
  PROVE  /\ Elements(s) \subseteq T
         /\ IsFiniteSet(Elements(s)) /\ Cardinality(Elements(s)) <= Len(s)
<1>1. DOMAIN s = 1 .. Len(s) /\ Len(s) \in Nat
  OBVIOUS
<1>2. Elements(s) = {s[i] : i \in 1 .. Len(s)}
  BY <1>1 DEF Elements
<1>3. IsFiniteSet(1 .. Len(s)) /\ Cardinality(1 .. Len(s)) = Len(s)
  BY <1>1, FS_Interval
<1>4. s \in Surjection(1 .. Len(s), Elements(s))
  BY <1>1, <1>2 DEF Surjection
<1>5. IsFiniteSet(Elements(s)) /\ Cardinality(Elements(s)) <= Cardinality(1 .. Len(s))
  BY <1>3, <1>4, FS_Surjection
<1> QED
  BY <1>1, <1>2, <1>3, <1>5

\* An item repeats what its row says.
LEMMA ToItemFacts ==
  ASSUME NEW s \in StoredRow, NEW query, NEW safe \in BOOLEAN, NEW ambiguous \in BOOLEAN
  PROVE  LET i == ToKnowledgeItem(s, query, safe, ambiguous) IN
         /\ i \in KnowledgeItem
         /\ i.row = s.row /\ i.wording = s.wording /\ i.version = s.version
         /\ i.questions = i.wording.questions /\ i.priority = i.wording.priority
         /\ i.topic = (IF i.row \in Facts THEN i.wording.topic ELSE "none")
         /\ i.raw = i.wording.raw /\ i.sim = 0
         /\ i.exact = IsExactMatch(s.wording, query)
         /\ i.direct = (i.exact /\ safe) /\ i.ambiguous = (i.exact /\ ambiguous)
<1>1. s.row \in Rows /\ s.wording \in AllWordings /\ s.version \in Nat
  BY DEF StoredRow
<1>2. s.wording.priority \in Nat /\ s.wording.raw \in Nat
  BY <1>1, WordingsAssumption
<1>3. IsExactMatch(s.wording, query) \in BOOLEAN
  BY DEF IsExactMatch
<1> DEFINE i == ToKnowledgeItem(s, query, safe, ambiguous)
<1>4. i = [row |-> s.row, wording |-> s.wording, version |-> s.version,
           questions |-> s.wording.questions, priority |-> s.wording.priority,
           topic |-> IF s.row \in Facts THEN s.wording.topic ELSE "none",
           raw |-> s.wording.raw, sim |-> 0, exact |-> IsExactMatch(s.wording, query),
           direct |-> IsExactMatch(s.wording, query) /\ safe,
           ambiguous |-> IsExactMatch(s.wording, query) /\ ambiguous,
           types |-> {IF IsExactMatch(s.wording, query) THEN "EXACT" ELSE "KEYWORD"}]
  BY DEF ToKnowledgeItem
<1>5. i \in KnowledgeItem
  BY <1>1, <1>2, <1>3, <1>4 DEF KnowledgeItem
<1> QED
  BY <1>4, <1>5

\* The rows of a scan a query finds, and those it finds exactly.
Matched(query, scanned) ==
  {s \in Elements(scanned) :
     s.wording.usable /\ (IsExactMatch(s.wording, query) \/ s.wording.raw > 0)}
Exactly(query, scanned) == {s \in Matched(query, scanned) : IsExactMatch(s.wording, query)}
Ambiguity(query, scanned, source) ==
  source = "ANSWER_PATTERN"
    /\ Cardinality({s.wording.answer : s \in Exactly(query, scanned)}) > 1

\* What one table offers a question, and that it is all there is when the table is
\* within the limit of one search.
LEMMA MatchesFacts ==
  ASSUME NEW scanned \in Seq(StoredRow), Keyed(Elements(scanned)), NEW query, NEW source
  PROVE  LET items == FindMatchesFromPatterns(query, scanned, source)
             ambiguous == Ambiguity(query, scanned, source)
             safe == SafeDirect(source, scanned, ambiguous)
         IN  /\ items \in Seq(KnowledgeItem)
             /\ \A i \in Elements(items) :
                  \E s \in Matched(query, scanned) : i = ToKnowledgeItem(s, query, safe, ambiguous)
             /\ Cardinality(Elements(scanned)) <= MaxCandidates =>
                  \A s \in Matched(query, scanned) :
                    ToKnowledgeItem(s, query, safe, ambiguous) \in Elements(items)
<1> DEFINE matched == Matched(query, scanned)
           exact == {s \in matched : IsExactMatch(s.wording, query)}
           before(a, b) ==
             IF (a \in exact) # (b \in exact) THEN a \in exact
             ELSE IF a \notin exact /\ a.wording.raw # b.wording.raw
               THEN a.wording.raw > b.wording.raw
             ELSE \/ a.wording.priority > b.wording.priority
                  \/ a.wording.priority = b.wording.priority
                       /\ Order[a.row] < Order[b.row]
           R == {p \in matched \X matched : before(p[1], p[2])}
           list == Ranked(matched, before)
           kept == Prefix(list, MaxCandidates)
           ambiguous == Ambiguity(query, scanned, source)
           safe == SafeDirect(source, scanned, ambiguous)
           items == FindMatchesFromPatterns(query, scanned, source)
<1>1. /\ matched \subseteq Elements(scanned) /\ Elements(scanned) \subseteq StoredRow
      /\ IsFiniteSet(matched) /\ Cardinality(matched) <= Cardinality(Elements(scanned))
      /\ IsFiniteSet(Elements(scanned))
  <2>1. matched \subseteq Elements(scanned)
    BY DEF Matched
  <2>2. Elements(scanned) \subseteq StoredRow /\ IsFiniteSet(Elements(scanned))
    BY ElementsFacts
  <2> HIDE DEF matched
  <2> QED
    BY <2>1, <2>2, FS_Subset
<1>2. \A a \in matched : /\ a.row \in Rows /\ Order[a.row] \in Nat
                         /\ a.wording.priority \in Nat /\ a.wording.raw \in Nat
  BY <1>1, RowsAssumption, WordingsAssumption DEF StoredRow
<1>3. \A a, b \in matched : a # b => Order[a.row] # Order[b.row]
  BY <1>1, <1>2, RowsAssumption DEF Keyed
<1>4. \A a, b \in matched : <<a, b>> \in R <=> before(a, b)
  OBVIOUS
<1>5. Strict(matched, R)
  <2> HIDE DEF matched, R, exact
  <2>1. \A x \in matched : ~before(x, x)
    BY <1>2
  <2>2. \A x, y \in matched : x # y => before(x, y) \/ before(y, x)
    BY <1>2, <1>3
  <2>3. \A x, y, z \in matched : before(x, y) /\ before(y, z) => before(x, z)
    BY <1>2
  <2> HIDE DEF before
  <2> QED
    BY <1>4, <2>1, <2>2, <2>3 DEF Strict
<1>6. \A x \in matched : Place(matched, R)[x] = 1 + Cardinality({y \in matched : before(y, x)})
  <2> TAKE x \in matched
  <2>1. {y \in matched : <<y, x>> \in R} = {y \in matched : before(y, x)}
    BY <1>4
  <2> QED
    BY <2>1 DEF Place
<1>7. list = [i \in 1 .. Cardinality(matched) |->
               CHOOSE x \in matched : 1 + Cardinality({y \in matched : before(y, x)}) = i]
  BY DEF Ranked
<1>8. list \in Seq(matched) /\ Elements(list) = matched /\ Len(list) = Cardinality(matched)
  <2>1. ASSUME NEW i \in 1 .. Cardinality(matched),
               \E x \in matched : Place(matched, R)[x] = i
        PROVE  list[i] \in matched /\ Place(matched, R)[list[i]] = i
    <3> DEFINE place(x) == 1 + Cardinality({y \in matched : before(y, x)})
    <3>1. list[i] = CHOOSE x \in matched : place(x) = i
      BY <1>7
    <3>2. \E x \in matched : place(x) = i
      BY <1>6, <2>1
    <3>3. \A x \in matched : Place(matched, R)[x] = place(x)
      BY <1>6
    <3> HIDE DEF place, R, list, matched
    <3> QED BY <3>1, <3>2, <3>3
  <2>2. list = [i \in 1 .. Cardinality(matched) |-> list[i]]
    BY <1>7
  <2> HIDE DEF R, list, matched
  <2> QED BY <1>1, <1>5, <2>1, <2>2, ListOfPlaces
<1>9. /\ kept \in Seq(matched) /\ Elements(kept) \subseteq matched
      /\ Len(list) <= MaxCandidates => Elements(kept) = matched
  <2> HIDE DEF list, matched
  <2>1. MaxCandidates \in Nat
    BY CapsAssumption
  <2> QED BY <1>8, <2>1, PrefixFacts
<1>10. items = [i \in DOMAIN kept |-> ToKnowledgeItem(kept[i], query, safe, ambiguous)]
  BY DEF FindMatchesFromPatterns, Matched, Ambiguity, Exactly
<1>11. ambiguous \in BOOLEAN /\ safe \in BOOLEAN
  BY DEF Ambiguity, SafeDirect
<1> HIDE DEF kept, matched, ambiguous, safe, items, list
<1>12. DOMAIN kept = 1 .. Len(kept) /\ Len(kept) \in Nat
       /\ \A i \in DOMAIN kept : kept[i] \in matched
  BY <1>9
<1>13. \A s \in matched : ToKnowledgeItem(s, query, safe, ambiguous) \in KnowledgeItem
  BY <1>1, <1>11, ToItemFacts
<1>14. items \in Seq(KnowledgeItem)
  BY <1>10, <1>12, <1>13
<1>15. \A i \in Elements(items) :
         \E s \in matched : i = ToKnowledgeItem(s, query, safe, ambiguous)
  BY <1>10, <1>12 DEF Elements
<1>16. ASSUME Cardinality(Elements(scanned)) <= MaxCandidates, NEW s \in matched
       PROVE  ToKnowledgeItem(s, query, safe, ambiguous) \in Elements(items)
  <2>1. /\ Cardinality(matched) \in Nat /\ Cardinality(Elements(scanned)) \in Nat
        /\ MaxCandidates \in Nat
    BY <1>1, FS_CardinalityType, CapsAssumption
  <2>2. Elements(kept) = matched
    BY <1>1, <1>8, <1>9, <1>16, <2>1
  <2>3. PICK i \in DOMAIN kept : kept[i] = s
    BY <2>2 DEF Elements
  <2> QED
    BY <1>10, <2>3 DEF Elements
<1> QED
  BY <1>14, <1>15, <1>16 DEF matched, ambiguous, safe, items

\* The least element of a set of numbers, and induction: a set of numbers that
\* has 0 and the successor of each of its elements has them all.
LEMMA LeastNumber ==
  ASSUME NEW T \in SUBSET Nat, T # {}
  PROVE  \E x \in T : \A y \in T : x <= y
<1> DEFINE R == OpToRel(<, Nat)
<1>1. IsWellFoundedOn(R, Nat)
  BY NatLessThanWellFounded
<1>2. \E x \in T : \A y \in T : ~ (<<y, x>> \in R)
  <2> HIDE DEF R
  <2> QED BY <1>1, WFMin
<1>3. \A x, y \in Nat : <<y, x>> \in R <=> y < x
  BY DEF OpToRel
<1>4. PICK x \in T : \A y \in T : ~ (<<y, x>> \in R)
  BY <1>2
<1>5. \A y \in T : ~ (y < x)
  <2> HIDE DEF R
  <2> QED BY <1>3, <1>4
<1> QED
  BY <1>5

\* Induction up to a number, for a set of the numbers that are reached.
LEMMA NumberInduction ==
  ASSUME NEW T \in SUBSET Nat, 0 \in T, \A n \in T : n + 1 \in T
  PROVE  T = Nat
<1> SUFFICES ASSUME Nat \ T # {} PROVE FALSE
  OBVIOUS
<1>1. PICK x \in Nat \ T : \A y \in Nat \ T : x <= y
  BY LeastNumber
<1> QED
  BY <1>1, x - 1 \in Nat
-----------------------------------------------------------------------------
(* Results.                                                                 *)

Routes == {"none", "DIRECT", "RAG", "LOW_CONFIDENCE"}
Reasons == {"none", "CONFLICTING_CANDIDATES", "NO_USABLE_EVIDENCE", "RETRIEVAL_ERROR",
            "BELOW_MIN_VECTOR_SIMILARITY", "MISSING_USER_INFORMATION"}
ResultType == [route : Routes, reason : Reasons, selected : Seq(KnowledgeItem)]

\* A direct result holds the one item it answers with.
LEMMA DirectFacts ==
  ASSUME NEW items \in Seq(KnowledgeItem)
  PROVE  LET d == DirectResult(items) IN
         /\ d \in ResultType
         /\ d.route # "DIRECT" => d.selected = <<>>
         /\ d.route = "DIRECT" => /\ d.selected[1] \in Elements(items)
                                  /\ d.selected[1].direct
                                  /\ d.selected = <<d.selected[1]>>
<1> DEFINE presets == {i \in DOMAIN items : items[i].direct /\ items[i].wording.preset}
           d == DirectResult(items)
<1>1. \/ d = Result("LOW_CONFIDENCE", "CONFLICTING_CANDIDATES", <<>>)
      \/ d = Undefined
      \/ presets # {} /\ d = Result("DIRECT", "none", <<items[Min(presets)]>>)
  BY DEF DirectResult
<1>2. CASE d = Result("LOW_CONFIDENCE", "CONFLICTING_CANDIDATES", <<>>)
  <2>1. <<>> \in Seq(KnowledgeItem)
    OBVIOUS
  <2>2. d \in ResultType /\ d.route = "LOW_CONFIDENCE" /\ d.selected = <<>>
    <3> HIDE DEF d
    <3> QED BY <1>2, <2>1 DEF Result, ResultType, Routes, Reasons
  <2> QED
    BY <2>2
<1>3. CASE d = Undefined
  <2>1. <<>> \in Seq(KnowledgeItem)
    OBVIOUS
  <2>2. d \in ResultType /\ d.route = "none" /\ d.selected = <<>>
    <3> HIDE DEF d
    <3> QED BY <1>3, <2>1 DEF Undefined, Result, ResultType, Routes, Reasons
  <2> QED
    BY <2>2
<1>4. CASE presets # {} /\ d = Result("DIRECT", "none", <<items[Min(presets)]>>)
  <2>1. presets \in SUBSET Nat
    OBVIOUS
  <2>2. \E x \in presets : \A y \in presets : x <= y
    <3> HIDE DEF presets
    <3> QED BY <1>4, <2>1, LeastNumber
  <2>3. Min(presets) \in presets
    <3> HIDE DEF presets
    <3> QED BY <2>2 DEF Min
  <2> DEFINE x == items[Min(presets)]
  <2>4. x \in KnowledgeItem /\ x \in Elements(items) /\ x.direct
    <3>1. Min(presets) \in DOMAIN items /\ x.direct
      BY <2>3
    <3>2. x \in KnowledgeItem
      BY <3>1
    <3>3. x \in Elements(items)
      BY <3>1 DEF Elements
    <3> QED BY <3>1, <3>2, <3>3
  <2>5. d = Result("DIRECT", "none", <<x>>)
    BY <1>4
  <2> HIDE DEF x
  <2>6. <<x>> \in Seq(KnowledgeItem) /\ <<x>>[1] = x
    BY <2>4
  <2>7. d \in ResultType /\ d.route = "DIRECT" /\ d.selected = <<x>>
    <3> HIDE DEF d
    <3> QED BY <2>5, <2>6 DEF Result, ResultType, Routes, Reasons
  <2>8. d.selected[1] = x
    BY <2>6, <2>7
  <2> QED
    BY <2>4, <2>7, <2>8
<1> QED
  BY <1>1, <1>2, <1>3, <1>4

\* A direct answer is what every exact match of the table says.
LEMMA DirectUnique ==
  ASSUME NEW stored, IsFiniteSet(stored), stored \subseteq StoredRow, Keyed(stored), NEW query,
         DirectResult(FindMatchesFromPatterns(query, Scanned(stored),
                                              "ANSWER_PATTERN")).route = "DIRECT"
  PROVE  Cardinality({s.wording.answer : s \in
           {s \in stored : s.wording.usable /\ IsExactMatch(s.wording, query)}}) = 1
<1> DEFINE scanned == Scanned(stored)
           items == FindMatchesFromPatterns(query, scanned, "ANSWER_PATTERN")
           ambiguous == Ambiguity(query, scanned, "ANSWER_PATTERN")
           safe == SafeDirect("ANSWER_PATTERN", scanned, ambiguous)
           exact == Exactly(query, scanned)
           answers == {s.wording.answer : s \in exact}
<1>1. /\ scanned \in Seq(StoredRow) /\ Elements(scanned) \subseteq stored
      /\ Len(scanned) < MaxScanned => Elements(scanned) = stored
  BY ScannedFacts
<1>2. Keyed(Elements(scanned))
  BY <1>1 DEF Keyed
<1> HIDE DEF scanned
<1>3. /\ items \in Seq(KnowledgeItem)
      /\ \A i \in Elements(items) :
           \E s \in Matched(query, scanned) : i = ToKnowledgeItem(s, query, safe, ambiguous)
  BY <1>1, <1>2, MatchesFacts
<1>4. DirectResult(items).route = "DIRECT"
  BY DEF scanned
<1> HIDE DEF items
<1>5. PICK i \in Elements(items) : i.direct
  BY <1>3, <1>4, DirectFacts
<1>6. PICK s \in Matched(query, scanned) : i = ToKnowledgeItem(s, query, safe, ambiguous)
  BY <1>3, <1>5
<1>7. s \in StoredRow /\ ambiguous \in BOOLEAN /\ safe \in BOOLEAN
  <2>1. s \in Elements(scanned) /\ Elements(scanned) \subseteq StoredRow
    BY <1>1, <1>6, ElementsFacts DEF Matched
  <2> QED
    BY <2>1 DEF Ambiguity, SafeDirect
<1>8. IsExactMatch(s.wording, query) /\ safe
  <2> HIDE DEF safe, ambiguous
  <2> DEFINE it == ToKnowledgeItem(s, query, safe, ambiguous)
  <2>1. it.exact = IsExactMatch(s.wording, query) /\ it.direct = (it.exact /\ safe)
    BY <1>7, ToItemFacts
  <2> HIDE DEF it
  <2> QED BY <1>5, <1>6, <2>1 DEF it
<1>9. s \in exact /\ Elements(scanned) = stored /\ ~ (Cardinality(answers) > 1)
  BY <1>1, <1>6, <1>8 DEF Exactly, SafeDirect, Ambiguity
<1>10. exact = {t \in stored : t.wording.usable /\ IsExactMatch(t.wording, query)}
  BY <1>9 DEF Exactly, Matched
<1>11. IsFiniteSet(exact)
  <2>1. exact \subseteq stored
    BY <1>10
  <2> HIDE DEF exact
  <2> QED BY <2>1, FS_Subset
<1>12. IsFiniteSet(answers)
  <2> DEFINE f == [x \in exact |-> x.wording.answer]
  <2> HIDE DEF exact
  <2>1. f \in Surjection(exact, answers)
    BY DEF Surjection
  <2> HIDE DEF f
  <2> QED BY <1>11, <2>1, FS_Surjection
<1>13. Cardinality(answers) \in Nat /\ Cardinality(answers) # 0
  <2>1. answers # {}
    BY <1>9
  <2> HIDE DEF answers
  <2> QED
    BY <1>12, <2>1, FS_CardinalityType, FS_EmptySet
<1>14. Cardinality(answers) = 1
  <2> HIDE DEF answers
  <2> QED BY <1>9, <1>13
<1> QED
  BY <1>10, <1>14
-----------------------------------------------------------------------------
(* The fused ranking.                                                       *)

\* The lexical list of a table has its items, each once.
LEMMA ByRawFacts ==
  ASSUME NEW S \in SUBSET KnowledgeItem, IsFiniteSet(S), Keyed(S)
  PROVE  ByRaw(S) \in Seq(S) /\ Elements(ByRaw(S)) = S
<1> DEFINE before(a, b) == a.raw > b.raw \/ (a.raw = b.raw /\ TieBreak(a, b))
           R == {p \in S \X S : before(p[1], p[2])}
           list == Ranked(S, before)
<1>1. \A a \in S : /\ a.row \in Rows /\ Order[a.row] \in Nat
                   /\ a.priority \in Nat /\ a.raw \in Nat
  BY RowsAssumption DEF KnowledgeItem
<1>2. \A a, b \in S : a # b => Order[a.row] # Order[b.row]
  BY <1>1, RowsAssumption DEF Keyed
<1>3. \A a, b \in S : <<a, b>> \in R <=> before(a, b)
  OBVIOUS
<1>4. Strict(S, R)
  <2> HIDE DEF R
  <2> QED BY <1>1, <1>2, <1>3 DEF Strict, TieBreak
<1> HIDE DEF before
<1>5. \A x \in S : Place(S, R)[x] = 1 + Cardinality({y \in S : before(y, x)})
  <2> TAKE x \in S
  <2>1. {y \in S : <<y, x>> \in R} = {y \in S : before(y, x)}
    BY <1>3
  <2> QED
    BY <2>1 DEF Place
<1>6. list = [i \in 1 .. Cardinality(S) |->
               CHOOSE x \in S : 1 + Cardinality({y \in S : before(y, x)}) = i]
  BY DEF Ranked
<1>7. ASSUME NEW i \in 1 .. Cardinality(S), \E x \in S : Place(S, R)[x] = i
      PROVE  list[i] \in S /\ Place(S, R)[list[i]] = i
  <2> DEFINE place(x) == 1 + Cardinality({y \in S : before(y, x)})
  <2>1. list[i] = CHOOSE x \in S : place(x) = i
    BY <1>6
  <2>2. \E x \in S : place(x) = i
    BY <1>5, <1>7
  <2>3. \A x \in S : Place(S, R)[x] = place(x)
    BY <1>5
  <2> HIDE DEF place, R, list
  <2> QED BY <2>1, <2>2, <2>3
<1>8. list = [i \in 1 .. Cardinality(S) |-> list[i]]
  BY <1>6
<1>9. ByRaw(S) = list
  BY DEF ByRaw, before
<1> HIDE DEF R, list
<1>10. list \in Seq(S) /\ Elements(list) = S
  BY <1>4, <1>7, <1>8, ListOfPlaces
<1> QED
  BY <1>9, <1>10

\* So has the list of the vector search.
LEMMA BySimilarityFacts ==
  ASSUME NEW S \in SUBSET KnowledgeItem, IsFiniteSet(S), Keyed(S)
  PROVE  BySimilarity(S) \in Seq(S) /\ Elements(BySimilarity(S)) = S
<1> DEFINE before(a, b) == a.sim > b.sim \/ (a.sim = b.sim /\ TieBreak(a, b))
           R == {p \in S \X S : before(p[1], p[2])}
           list == Ranked(S, before)
<1>1. \A a \in S : /\ a.row \in Rows /\ Order[a.row] \in Nat
                   /\ a.priority \in Nat /\ a.sim \in Nat
  BY RowsAssumption DEF KnowledgeItem
<1>2. \A a, b \in S : a # b => Order[a.row] # Order[b.row]
  BY <1>1, RowsAssumption DEF Keyed
<1>3. \A a, b \in S : <<a, b>> \in R <=> before(a, b)
  OBVIOUS
<1>4. Strict(S, R)
  <2> HIDE DEF R
  <2> QED BY <1>1, <1>2, <1>3 DEF Strict, TieBreak
<1> HIDE DEF before
<1>5. \A x \in S : Place(S, R)[x] = 1 + Cardinality({y \in S : before(y, x)})
  <2> TAKE x \in S
  <2>1. {y \in S : <<y, x>> \in R} = {y \in S : before(y, x)}
    BY <1>3
  <2> QED
    BY <2>1 DEF Place
<1>6. list = [i \in 1 .. Cardinality(S) |->
               CHOOSE x \in S : 1 + Cardinality({y \in S : before(y, x)}) = i]
  BY DEF Ranked
<1>7. ASSUME NEW i \in 1 .. Cardinality(S), \E x \in S : Place(S, R)[x] = i
      PROVE  list[i] \in S /\ Place(S, R)[list[i]] = i
  <2> DEFINE place(x) == 1 + Cardinality({y \in S : before(y, x)})
  <2>1. list[i] = CHOOSE x \in S : place(x) = i
    BY <1>6
  <2>2. \E x \in S : place(x) = i
    BY <1>5, <1>7
  <2>3. \A x \in S : Place(S, R)[x] = place(x)
    BY <1>5
  <2> HIDE DEF place, R, list
  <2> QED BY <2>1, <2>2, <2>3
<1>8. list = [i \in 1 .. Cardinality(S) |-> list[i]]
  BY <1>6
<1>9. BySimilarity(S) = list
  BY DEF BySimilarity, before
<1> HIDE DEF R, list
<1>10. list \in Seq(S) /\ Elements(list) = S
  BY <1>4, <1>7, <1>8, ListOfPlaces
<1> QED
  BY <1>9, <1>10

\* The rank of a row is a place of the list.
LEMMA RankOfFacts ==
  ASSUME NEW S, NEW list \in Seq(S), Elements(list) = S, NEW row, In(row, S)
  PROVE  RankOf(row, list) \in Nat \ {0}
<1>1. PICK i \in DOMAIN list : list[i].row = row
  BY DEF In, Elements
<1>2. RankOf(row, list) \in DOMAIN list
  BY <1>1 DEF RankOf
<1>3. DOMAIN list = 1 .. Len(list) /\ Len(list) \in Nat
  OBVIOUS
<1> QED
  BY <1>2, <1>3

\* Fractions are ordered transitively, and comparably.
LEMMA Fractions ==
  ASSUME NEW a \in Nat, NEW b \in Nat, NEW c \in Nat,
         NEW p \in Nat \ {0}, NEW q \in Nat \ {0}, NEW r \in Nat \ {0},
         a * q >= b * p, b * r >= c * q
  PROVE  /\ a * r >= c * p
         /\ a * r = c * p => a * q = b * p /\ b * r = c * q
<1>1. (a * q) * r >= (b * p) * r
  OBVIOUS
<1>2. (b * r) * p >= (c * q) * p
  OBVIOUS
<1>3. (b * p) * r = (b * r) * p /\ (a * q) * r = (a * r) * q /\ (c * q) * p = (c * p) * q
  OBVIOUS
<1>4. (a * r) * q >= (c * p) * q
  BY <1>1, <1>2, <1>3
<1>5. a * r >= c * p
  BY <1>4
<1>6. ASSUME a * r = c * p
      PROVE  a * q = b * p /\ b * r = c * q
  <2>1. (a * q) * r = (b * p) * r /\ (b * r) * p = (c * q) * p
    BY <1>1, <1>2, <1>3, <1>6
  <2> QED
    BY <2>1
<1> QED
  BY <1>5, <1>6

\* What is merged of one row: the lexical item's words, or the vector's.
LEMMA MergeFacts ==
  ASSUME NEW lexical \in SUBSET KnowledgeItem, NEW semantic \in SUBSET KnowledgeItem,
         NEW row, In(row, lexical \union semantic)
  PROVE  LET m == Merge(row, lexical, semantic) IN
         /\ m \in KnowledgeItem /\ m.row = row
         /\ In(row, lexical) =>
              \E l \in lexical : /\ l.row = row /\ m.wording = l.wording
                                 /\ m.version = l.version /\ m.exact = l.exact
         /\ ~In(row, lexical) => m \in semantic
         /\ \E o \in lexical \union semantic : /\ o.row = row /\ m.questions = o.questions
                                               /\ m.topic = o.topic
<1> DEFINE m == Merge(row, lexical, semantic)
           l == The(row, lexical)
           v == The(row, semantic)
<1>1. In(row, lexical) => l \in lexical /\ l.row = row
  BY DEF In, The
<1>2. In(row, semantic) => v \in semantic /\ v.row = row
  BY DEF In, The
<1>3. In(row, lexical) \/ In(row, semantic)
  BY DEF In
<1> HIDE DEF l, v
<1>4. CASE ~In(row, semantic)
  <2>1. m = [l EXCEPT !.types = {"KEYWORD"}] /\ In(row, lexical)
    BY <1>3, <1>4 DEF Merge, l
  <2>2. l \in KnowledgeItem /\ l \in lexical /\ l.row = row
    BY <1>1, <2>1
  <2> HIDE DEF m
  <2>3. m \in KnowledgeItem
    BY <2>1, <2>2 DEF KnowledgeItem
  <2>4. /\ m.row = l.row /\ m.wording = l.wording /\ m.version = l.version
        /\ m.exact = l.exact /\ m.questions = l.questions /\ m.topic = l.topic
    BY <2>1, <2>2 DEF KnowledgeItem
  <2> QED
    BY <2>1, <2>2, <2>3, <2>4 DEF m
<1>5. CASE In(row, semantic) /\ ~In(row, lexical)
  <2>1. m = v
    BY <1>5 DEF Merge, v
  <2> QED
    BY <1>2, <1>5, <2>1
<1>6. CASE In(row, semantic) /\ In(row, lexical)
  <2> DEFINE m1 == [l EXCEPT !.sim = v.sim]
             m2 == [m1 EXCEPT !.questions = v.questions]
             m3 == [m2 EXCEPT !.priority = v.priority]
             m4 == [m3 EXCEPT !.topic = v.topic]
             m5 == [m4 EXCEPT !.types = {"KEYWORD", "EMBEDDING"}]
  <2>1. m = m5
    BY <1>6 DEF Merge, l, v
  <2>2. /\ l \in KnowledgeItem /\ l \in lexical /\ l.row = row
        /\ v \in KnowledgeItem /\ v \in semantic /\ v.row = row
    BY <1>1, <1>2, <1>6
  <2>3. v.sim \in Nat /\ v.priority \in Nat /\ v.questions \in {w.questions : w \in AllWordings}
        /\ v.topic \in {w.topic : w \in AllWordings} \union {"none"}
    BY <2>2 DEF KnowledgeItem
  <2>4. /\ m1 \in KnowledgeItem /\ m1.row = l.row /\ m1.wording = l.wording
        /\ m1.version = l.version /\ m1.exact = l.exact
    BY <2>2, <2>3 DEF KnowledgeItem
  <2> HIDE DEF m1
  <2>5. /\ m2 \in KnowledgeItem /\ m2.row = l.row /\ m2.wording = l.wording
        /\ m2.version = l.version /\ m2.exact = l.exact /\ m2.questions = v.questions
    BY <2>3, <2>4 DEF KnowledgeItem
  <2> HIDE DEF m2
  <2>6. /\ m3 \in KnowledgeItem /\ m3.row = l.row /\ m3.wording = l.wording
        /\ m3.version = l.version /\ m3.exact = l.exact /\ m3.questions = v.questions
    BY <2>3, <2>5 DEF KnowledgeItem
  <2> HIDE DEF m3
  <2>7. /\ m4 \in KnowledgeItem /\ m4.row = l.row /\ m4.wording = l.wording
        /\ m4.version = l.version /\ m4.exact = l.exact /\ m4.questions = v.questions
        /\ m4.topic = v.topic
    BY <2>3, <2>6 DEF KnowledgeItem
  <2> HIDE DEF m4
  <2>8. /\ m5 \in KnowledgeItem /\ m5.row = l.row /\ m5.wording = l.wording
        /\ m5.version = l.version /\ m5.exact = l.exact /\ m5.questions = v.questions
        /\ m5.topic = v.topic
    BY <2>7 DEF KnowledgeItem
  <2> HIDE DEF m5, m
  <2> QED
    BY <1>6, <2>1, <2>2, <2>8 DEF m
<1> QED
  BY <1>3, <1>4, <1>5, <1>6

MergedItems(lexical, semantic) ==
  {Merge(row, lexical, semantic) : row \in {i.row : i \in lexical \union semantic}}

\* The merged list has every row of either search, once.
LEMMA RankFacts ==
  ASSUME NEW lexical \in SUBSET KnowledgeItem, NEW semantic \in SUBSET KnowledgeItem,
         IsFiniteSet(lexical), IsFiniteSet(semantic), Keyed(lexical), Keyed(semantic)
  PROVE  /\ Rank(lexical, semantic) \in Seq(KnowledgeItem)
         /\ Elements(Rank(lexical, semantic)) = MergedItems(lexical, semantic)
<1> DEFINE ofPatterns == {i \in lexical : i.row \in Patterns}
           ofFacts == {i \in lexical : i.row \in Facts}
           lists == <<ByRaw(ofPatterns), ByRaw(ofFacts), BySimilarity(semantic)>>
           own(row) == lists[IF row \in Patterns THEN 1 ELSE 2]
           ranks(row) ==
             (IF In(row, lexical) THEN <<RankOf(row, own(row))>> ELSE <<>>)
               \o (IF In(row, semantic) THEN <<RankOf(row, lists[3])>> ELSE <<>>)
           rows == {i.row : i \in lexical \union semantic}
           score == [row \in rows |-> Score(ranks(row))]
           merged == MergedItems(lexical, semantic)
           scored == {[item |-> Merge(row, lexical, semantic), score |-> Score(ranks(row))] :
                        row \in rows}
           before(a, b) ==
             LET na == a.score.n * b.score.d
                 nb == b.score.n * a.score.d
             IN  na > nb \/ (na = nb /\ TieBreak(a.item, b.item))
           R == {p \in scored \X scored : before(p[1], p[2])}
           list == Ranked(scored, before)
           items == [i \in DOMAIN list |-> list[i].item]
<1>1. items = Rank(lexical, semantic)
  BY DEF Rank
<1>2. \A row \in rows : In(row, lexical \union semantic) /\ row \in Rows
                        /\ (In(row, lexical) \/ In(row, semantic))
  BY DEF In, KnowledgeItem
<1>3. /\ ofPatterns \in SUBSET KnowledgeItem /\ IsFiniteSet(ofPatterns) /\ Keyed(ofPatterns)
      /\ ofFacts \in SUBSET KnowledgeItem /\ IsFiniteSet(ofFacts) /\ Keyed(ofFacts)
  <2>1. ofPatterns \subseteq lexical /\ ofFacts \subseteq lexical
    OBVIOUS
  <2> HIDE DEF ofPatterns, ofFacts
  <2>2. IsFiniteSet(ofPatterns) /\ IsFiniteSet(ofFacts)
    BY <2>1, FS_Subset
  <2> QED
    BY <2>1, <2>2 DEF Keyed
<1>4. \A row \in rows : In(row, lexical) => RankOf(row, own(row)) \in Nat \ {0}
  <2> TAKE row \in rows
  <2> HAVE In(row, lexical)
  <2>1. CASE row \in Patterns
    <3>1. In(row, ofPatterns) /\ own(row) = ByRaw(ofPatterns)
      BY <2>1 DEF In
    <3> HIDE DEF ofPatterns, own
    <3>2. ByRaw(ofPatterns) \in Seq(ofPatterns) /\ Elements(ByRaw(ofPatterns)) = ofPatterns
      BY <1>3, ByRawFacts
    <3> QED
      BY <3>1, <3>2, RankOfFacts
  <2>2. CASE row \notin Patterns
    <3>1. In(row, ofFacts) /\ own(row) = ByRaw(ofFacts)
      BY <1>2, <2>2 DEF In, Rows
    <3> HIDE DEF ofFacts, own
    <3>2. ByRaw(ofFacts) \in Seq(ofFacts) /\ Elements(ByRaw(ofFacts)) = ofFacts
      BY <1>3, ByRawFacts
    <3> QED
      BY <3>1, <3>2, RankOfFacts
  <2> QED
    BY <2>1, <2>2
<1>5. \A row \in rows : In(row, semantic) => RankOf(row, lists[3]) \in Nat \ {0}
  <2>1. BySimilarity(semantic) \in Seq(semantic) /\ Elements(BySimilarity(semantic)) = semantic
    BY BySimilarityFacts
  <2>2. lists[3] = BySimilarity(semantic)
    OBVIOUS
  <2> HIDE DEF lists
  <2> QED
    BY <2>1, <2>2, RankOfFacts
<1>6. \A row \in rows : score[row].n \in Nat /\ score[row].d \in Nat \ {0}
  <2> TAKE row \in rows
  <2>1. score[row] = Score(ranks(row))
    OBVIOUS
  <2> DEFINE r1 == RankOf(row, own(row))
             r2 == RankOf(row, lists[3])
  <2>2. /\ In(row, lexical) => r1 \in Nat \ {0}
        /\ In(row, semantic) => r2 \in Nat \ {0}
        /\ In(row, lexical) \/ In(row, semantic)
    BY <1>2, <1>4, <1>5
  <2>3. RankConstant \in Nat
    BY CapsAssumption
  <2>4. ranks(row) = (IF In(row, lexical) THEN <<r1>> ELSE <<>>)
                       \o (IF In(row, semantic) THEN <<r2>> ELSE <<>>)
    OBVIOUS
  <2> HIDE DEF ranks, score, r1, r2
  <2>5. CASE In(row, lexical) /\ In(row, semantic)
    <3>1. Len(ranks(row)) = 2 /\ ranks(row)[1] = r1 /\ ranks(row)[2] = r2
      <4>1. ranks(row) = <<r1>> \o <<r2>> /\ <<r1>> \in Seq(Nat) /\ <<r2>> \in Seq(Nat)
        BY <2>2, <2>4, <2>5
      <4>2. /\ Len(<<r1>> \o <<r2>>) = 2 /\ (<<r1>> \o <<r2>>)[1] = r1
            /\ (<<r1>> \o <<r2>>)[2] = r2 /\ <<r1>> \o <<r2>> \in Seq(Nat)
        BY <4>1
      <4> QED BY <4>1, <4>2
    <3>2. score[row] = [n |-> 2 * RankConstant + r1 + r2,
                        d |-> (RankConstant + r1) * (RankConstant + r2)]
      BY <2>1, <3>1 DEF Score
    <3> DEFINE x == RankConstant + r1
               y == RankConstant + r2
    <3>3. x \in Nat \ {0} /\ y \in Nat \ {0} /\ 2 * RankConstant + r1 + r2 \in Nat
      BY <2>2, <2>3, <2>5
    <3>4. score[row].d = x * y
      BY <3>2
    <3> HIDE DEF x, y
    <3>5. x * y \in Nat \ {0}
      BY <3>3
    <3> QED
      BY <3>2, <3>3, <3>4, <3>5
  <2>6. CASE In(row, lexical) /\ ~In(row, semantic)
    <3>1. ranks(row) = <<r1>>
      BY <2>2, <2>4, <2>6
    <3> QED
      BY <2>1, <2>2, <2>3, <2>6, <3>1 DEF Score
  <2>7. CASE ~In(row, lexical) /\ In(row, semantic)
    <3>1. ranks(row) = <<r2>>
      BY <2>2, <2>4, <2>7
    <3> QED
      BY <2>1, <2>2, <2>3, <2>7, <3>1 DEF Score
  <2> QED
    BY <2>2, <2>5, <2>6, <2>7
<1>7. \A a \in scored : /\ a.item \in merged /\ a.item \in KnowledgeItem
                        /\ a.item.row \in rows /\ a.item.row \in Rows
                        /\ a = [item |-> Merge(a.item.row, lexical, semantic),
                                score |-> score[a.item.row]]
  <2> TAKE a \in scored
  <2>1. PICK row \in rows :
          a = [item |-> Merge(row, lexical, semantic), score |-> Score(ranks(row))]
    OBVIOUS
  <2> HIDE DEF scored, lists, own, ranks, ofPatterns, ofFacts
  <2>2. a.item = Merge(row, lexical, semantic) /\ a.score = score[row]
    BY <2>1
  <2>3. a.item \in KnowledgeItem /\ a.item.row = row
    BY <1>2, <2>2, MergeFacts
  <2>4. a.item \in merged
    BY <2>2 DEF MergedItems
  <2> QED
    BY <1>2, <2>1, <2>2, <2>3, <2>4
<1>8. \A m \in merged : \E a \in scored : m = a.item
  <2> TAKE m \in merged
  <2>1. PICK row \in rows : m = Merge(row, lexical, semantic)
    BY DEF MergedItems
  <2> DEFINE a == [item |-> Merge(row, lexical, semantic), score |-> Score(ranks(row))]
  <2>2. a \in scored
    OBVIOUS
  <2>3. m = a.item
    BY <2>1
  <2> HIDE DEF a, scored
  <2> QED
    BY <2>2, <2>3
<1>9. IsFiniteSet(scored)
  <2>1. IsFiniteSet(lexical \union semantic)
    BY FS_Union
  <2> DEFINE f == [i \in lexical \union semantic |->
                     [item |-> Merge(i.row, lexical, semantic), score |-> Score(ranks(i.row))]]
  <2> HIDE DEF ranks
  <2>2. f \in Surjection(lexical \union semantic, scored)
    BY DEF Surjection
  <2> HIDE DEF f, scored
  <2> QED
    BY <2>1, <2>2, FS_Surjection
<1> HIDE DEF scored, score, lists, own, ranks, ofPatterns, ofFacts, rows, merged
<1>10. \A a \in scored : /\ Order[a.item.row] \in Nat /\ a.item.priority \in Nat
                         /\ a.score.n \in Nat /\ a.score.d \in Nat \ {0}
  <2> TAKE a \in scored
  <2>1. a.score = score[a.item.row] /\ a.item.row \in rows
    BY <1>7
  <2>2. Order[a.item.row] \in Nat /\ a.item.priority \in Nat
    BY <1>7, RowsAssumption DEF KnowledgeItem
  <2> QED
    BY <1>6, <2>1, <2>2
<1>11. \A a, b \in scored : a # b => Order[a.item.row] # Order[b.item.row]
  BY <1>7, RowsAssumption
<1>12. \A a, b \in scored : <<a, b>> \in R <=> before(a, b)
  OBVIOUS
<1>13. Strict(scored, R)
  <2>1. \A x \in scored : ~before(x, x)
    BY <1>10 DEF TieBreak
  <2>2. \A x, y \in scored : x # y => before(x, y) \/ before(y, x)
    <3> TAKE x, y \in scored
    <3> HAVE x # y
    <3>1. TieBreak(x.item, y.item) \/ TieBreak(y.item, x.item)
      BY <1>10, <1>11 DEF TieBreak
    <3> DEFINE p == x.score.n * y.score.d
               q == y.score.n * x.score.d
    <3>2. p \in Nat /\ q \in Nat
      BY <1>10
    <3>3. /\ before(x, y) <=> p > q \/ (p = q /\ TieBreak(x.item, y.item))
          /\ before(y, x) <=> q > p \/ (q = p /\ TieBreak(y.item, x.item))
      OBVIOUS
    <3> HIDE DEF before, p, q
    <3> QED
      BY <3>1, <3>2, <3>3
  <2>3. \A x, y, z \in scored : before(x, y) /\ before(y, z) => before(x, z)
    <3> TAKE x, y, z \in scored
    <3> HAVE before(x, y) /\ before(y, z)
    <3> DEFINE a == x.score.n
               b == y.score.n
               c == z.score.n
               p == x.score.d
               q == y.score.d
               r == z.score.d
    <3>1. /\ a \in Nat /\ b \in Nat /\ c \in Nat
          /\ p \in Nat \ {0} /\ q \in Nat \ {0} /\ r \in Nat \ {0}
      BY <1>10
    <3>2. /\ a * q > b * p \/ (a * q = b * p /\ TieBreak(x.item, y.item))
          /\ b * r > c * q \/ (b * r = c * q /\ TieBreak(y.item, z.item))
          /\ before(x, z) <=> a * r > c * p \/ (a * r = c * p /\ TieBreak(x.item, z.item))
      OBVIOUS
    <3> HIDE DEF before, a, b, c, p, q, r
    <3>3. /\ a * q \in Nat /\ b * p \in Nat /\ b * r \in Nat /\ c * q \in Nat
          /\ a * r \in Nat /\ c * p \in Nat
      BY <3>1
    <3>4. a * q >= b * p /\ b * r >= c * q
      BY <3>2, <3>3
    <3>5. /\ a * r >= c * p
          /\ a * r = c * p => a * q = b * p /\ b * r = c * q
      BY <3>1, <3>4, Fractions
    <3>6. a * r = c * p => TieBreak(x.item, y.item) /\ TieBreak(y.item, z.item)
      BY <3>2, <3>3, <3>5
    <3>7. TieBreak(x.item, y.item) /\ TieBreak(y.item, z.item) => TieBreak(x.item, z.item)
      BY <1>10 DEF TieBreak
    <3> QED
      BY <3>2, <3>3, <3>5, <3>6, <3>7
  <2> HIDE DEF before, R
  <2> QED
    BY <1>12, <2>1, <2>2, <2>3 DEF Strict
<1> HIDE DEF before
<1>14. \A x \in scored : Place(scored, R)[x] = 1 + Cardinality({y \in scored : before(y, x)})
  <2> TAKE x \in scored
  <2>1. {y \in scored : <<y, x>> \in R} = {y \in scored : before(y, x)}
    BY <1>12
  <2> QED
    BY <2>1 DEF Place
<1>15. list = [i \in 1 .. Cardinality(scored) |->
                 CHOOSE x \in scored : 1 + Cardinality({y \in scored : before(y, x)}) = i]
  BY DEF Ranked
<1>16. ASSUME NEW i \in 1 .. Cardinality(scored), \E x \in scored : Place(scored, R)[x] = i
       PROVE  list[i] \in scored /\ Place(scored, R)[list[i]] = i
  <2> DEFINE place(x) == 1 + Cardinality({y \in scored : before(y, x)})
  <2>1. list[i] = CHOOSE x \in scored : place(x) = i
    BY <1>15
  <2>2. \E x \in scored : place(x) = i
    BY <1>14, <1>16
  <2>3. \A x \in scored : Place(scored, R)[x] = place(x)
    BY <1>14
  <2> HIDE DEF place, R, list
  <2> QED BY <2>1, <2>2, <2>3
<1>17. list = [i \in 1 .. Cardinality(scored) |-> list[i]]
  BY <1>15
<1> HIDE DEF R, list
<1>18. list \in Seq(scored) /\ Elements(list) = scored
  BY <1>9, <1>13, <1>16, <1>17, ListOfPlaces
<1>19. items \in Seq(KnowledgeItem) /\ Elements(items) = merged
  <2>1. DOMAIN list = 1 .. Len(list) /\ Len(list) \in Nat
        /\ \A i \in 1 .. Len(list) : list[i] \in scored
    BY <1>18
  <2>2. DOMAIN items = 1 .. Len(list)
        /\ \A i \in 1 .. Len(list) : items[i] = list[i].item
    BY <2>1
  <2>3. items = [i \in 1 .. Len(list) |-> items[i]]
    BY <2>1
  <2> HIDE DEF items
  <2>4. \A i \in 1 .. Len(list) : items[i] \in KnowledgeItem /\ items[i] \in merged
    BY <1>7, <2>1, <2>2
  <2>5. items \in Seq(KnowledgeItem)
    BY <2>1, <2>3, <2>4
  <2>6. \A m \in merged : \E i \in 1 .. Len(list) : items[i] = m
    <3> TAKE m \in merged
    <3>1. PICK a \in scored : m = a.item
      BY <1>8
    <3>2. PICK i \in 1 .. Len(list) : list[i] = a
      BY <1>18, <2>1 DEF Elements
    <3> QED
      BY <2>2, <3>1, <3>2
  <2> QED
    BY <2>2, <2>4, <2>5, <2>6 DEF Elements
<1> QED
  BY <1>1, <1>19 DEF merged
-----------------------------------------------------------------------------
(* The evidence chosen of the merged list.                                  *)

\* What is selected was offered.
LEMMA SelectFacts ==
  ASSUME NEW items \in Seq(KnowledgeItem)
  PROVE  /\ SelectContexts(items) \in Seq(KnowledgeItem)
         /\ Elements(SelectContexts(items)) \subseteq Elements(items)
<1> DEFINE close(i) == Related(items[1], items[i])
           sooner(i, j) == IF close(i) # close(j) THEN close(i) ELSE i < j
           S == DOMAIN items
           turn == Ranked(S, sooner)
           len == Len(items)
           R == {p \in S \X S : sooner(p[1], p[2])}
<1>1. S = 1 .. len /\ len \in Nat
  OBVIOUS
<1>2. IsFiniteSet(S) /\ Cardinality(S) = len
  BY <1>1, FS_Interval
<1>3. \A i \in S : close(i) \in BOOLEAN
  BY DEF Related
<1>4. \A a, b \in S : <<a, b>> \in R <=> sooner(a, b)
  OBVIOUS
<1>5. Strict(S, R)
  <2> HIDE DEF R, S, len, close
  <2> QED BY <1>1, <1>3, <1>4 DEF Strict
<1> HIDE DEF sooner
<1>6. \A x \in S : Place(S, R)[x] = 1 + Cardinality({y \in S : sooner(y, x)})
  <2> TAKE x \in S
  <2>1. {y \in S : <<y, x>> \in R} = {y \in S : sooner(y, x)}
    BY <1>4
  <2> QED
    BY <2>1 DEF Place
<1>7. turn = [i \in 1 .. Cardinality(S) |->
                CHOOSE x \in S : 1 + Cardinality({y \in S : sooner(y, x)}) = i]
  BY DEF Ranked
<1>8. ASSUME NEW i \in 1 .. Cardinality(S), \E x \in S : Place(S, R)[x] = i
      PROVE  turn[i] \in S /\ Place(S, R)[turn[i]] = i
  <2> DEFINE place(x) == 1 + Cardinality({y \in S : sooner(y, x)})
  <2>1. turn[i] = CHOOSE x \in S : place(x) = i
    BY <1>7
  <2>2. \E x \in S : place(x) = i
    BY <1>6, <1>8
  <2>3. \A x \in S : Place(S, R)[x] = place(x)
    BY <1>6
  <2> HIDE DEF place, R, turn, S
  <2> QED BY <2>1, <2>2, <2>3
<1>9. turn = [i \in 1 .. Cardinality(S) |-> turn[i]]
  BY <1>7
<1>10. turn \in Seq(S) /\ Len(turn) = len
  <2> HIDE DEF R, turn, S
  <2> QED BY <1>2, <1>5, <1>8, <1>9, ListOfPlaces
<1> DEFINE item(n) == items[turn[n]]
<1>11. \A n \in 1 .. len : item(n) \in KnowledgeItem /\ item(n) \in Elements(items)
  <2> TAKE n \in 1 .. len
  <2>1. turn[n] \in S
    <3> HIDE DEF turn, S, len
    <3> QED BY <1>10
  <2> HIDE DEF turn
  <2> QED
    BY <1>1, <2>1 DEF Elements
<1> HIDE DEF turn
<1> DEFINE step(f, n) == IF n = 0 THEN <<>> ELSE Considered(f[n - 1], item(n))
           Chosen(f, m) == f = [n \in 0 .. m |-> step(f, n)]
           T == {m \in Nat : \E f : Chosen(f, m)}
<1>12. 0 \in T
  <2>1. Chosen([n \in 0 .. 0 |-> <<>>], 0)
    <3>1. 0 .. 0 = {0}
      OBVIOUS
    <3> HIDE DEF item
    <3> QED BY <3>1
  <2> QED
    BY <2>1
<1>13. \A m \in T : m + 1 \in T
  <2> TAKE m \in T
  <2>1. PICK f : Chosen(f, m)
    OBVIOUS
  <2> DEFINE g == [n \in 0 .. (m + 1) |-> IF n = m + 1 THEN Considered(f[m], item(n)) ELSE f[n]]
  <2>2. m \in Nat
    OBVIOUS
  <2>3. \A n \in 0 .. (m + 1) : g[n] = step(g, n)
    <3> HIDE DEF item
    <3> TAKE n \in 0 .. (m + 1)
    <3>1. CASE n = m + 1
      BY <2>2, <3>1
    <3>2. CASE n # m + 1
      <4>1. n \in 0 .. m /\ g[n] = f[n]
        BY <2>2, <3>2
      <4>2. f[n] = step(f, n)
        BY <2>1, <4>1
      <4>3. n # 0 => n - 1 \in 0 .. m /\ n - 1 # m + 1 /\ n - 1 \in 0 .. (m + 1)
        BY <2>2, <4>1
      <4>4. n # 0 => g[n - 1] = f[n - 1]
        BY <4>3
      <4> HIDE DEF g
      <4> QED
        BY <4>1, <4>2, <4>4
    <3> QED
      BY <3>1, <3>2
  <2>4. Chosen(g, m + 1)
    <3>1. g = [n \in 0 .. (m + 1) |-> g[n]]
      OBVIOUS
    <3> HIDE DEF g, step
    <3> QED BY <2>3, <3>1
  <2> HIDE DEF Chosen
  <2> QED
    BY <2>2, <2>4
<1>14. T = Nat
  <2>1. T \in SUBSET Nat
    OBVIOUS
  <2> HIDE DEF T
  <2> QED BY <1>12, <1>13, <2>1, NumberInduction
<1>15. \E f : Chosen(f, len)
  <2>1. len \in T
    BY <1>1, <1>14
  <2> QED
    BY <2>1
<1> DEFINE chosen == CHOOSE f : f = [n \in 0 .. len |-> step(f, n)]
<1>16. Chosen(chosen, len)
  <2> HIDE DEF step
  <2> QED BY <1>15
<1>17. SelectContexts(items) = chosen[len]
  BY DEF SelectContexts, turn, sooner
<1> HIDE DEF chosen
<1> DEFINE Good(s) == s \in Seq(KnowledgeItem) /\ Elements(s) \subseteq Elements(items)
           U == {m \in Nat : m <= len => Good(chosen[m])}
<1>18. 0 \in U
  <2>1. chosen[0] = <<>>
    <3>1. 0 \in 0 .. len
      BY <1>1
    <3> QED BY <1>16, <3>1
  <2>2. <<>> \in Seq(KnowledgeItem) /\ Elements(<<>>) = {}
    BY DEF Elements
  <2> QED
    BY <2>1, <2>2
<1>19. \A m \in U : m + 1 \in U
  <2> TAKE m \in U
  <2> SUFFICES ASSUME m + 1 <= len PROVE Good(chosen[m + 1])
    OBVIOUS
  <2>1. m \in Nat /\ m <= len /\ m + 1 \in 0 .. len /\ m + 1 \in 1 .. len /\ m + 1 # 0
        /\ (m + 1) - 1 = m
    BY <1>1
  <2>2. chosen[m + 1] = Considered(chosen[m], item(m + 1))
    <3> HIDE DEF item
    <3> QED BY <1>16, <2>1
  <2>3. Good(chosen[m])
    BY <2>1
  <2>4. item(m + 1) \in KnowledgeItem /\ item(m + 1) \in Elements(items)
    BY <1>11, <2>1
  <2>5. \/ chosen[m + 1] = chosen[m]
        \/ chosen[m + 1] = Append(chosen[m], item(m + 1))
    BY <2>2 DEF Considered
  <2> DEFINE s == chosen[m]
             i == item(m + 1)
  <2>6. Append(s, i) \in Seq(KnowledgeItem) /\ Elements(Append(s, i)) = Elements(s) \union {i}
    <3> HIDE DEF s, i
    <3>1. s \in Seq(KnowledgeItem) /\ i \in KnowledgeItem
      BY <2>3, <2>4 DEF s, i
    <3>2. /\ Append(s, i) \in Seq(KnowledgeItem) /\ DOMAIN Append(s, i) = 1 .. (Len(s) + 1)
          /\ DOMAIN s = 1 .. Len(s) /\ Len(s) \in Nat
          /\ Append(s, i)[Len(s) + 1] = i
          /\ \A n \in 1 .. Len(s) : Append(s, i)[n] = s[n]
      BY <3>1
    <3> QED
      BY <3>2 DEF Elements
  <2> HIDE DEF s, i, item
  <2> QED
    BY <2>3, <2>4, <2>5, <2>6 DEF s, i
<1>20. U = Nat
  <2>1. U \in SUBSET Nat
    OBVIOUS
  <2> HIDE DEF U
  <2> QED BY <1>18, <1>19, <2>1, NumberInduction
<1>21. Good(chosen[len])
  <2>1. len \in U /\ len <= len
    BY <1>1, <1>20
  <2> QED
    BY <2>1
<1> QED
  BY <1>17, <1>21
AboveFloor(lexicalReads) == {i \in lexicalReads : i.exact \/ i.raw >= LexicalFloor}
Near(semantic) == {i \in semantic : i.sim >= VectorFloor}

\* What is chosen was found, and contradicts nothing that was found.
LEMMA UnifiedFacts ==
  ASSUME NEW lexicalReads \in SUBSET KnowledgeItem, NEW semantic \in SUBSET KnowledgeItem,
         IsFiniteSet(lexicalReads), IsFiniteSet(semantic),
         Keyed(lexicalReads), Keyed(semantic), NEW failed \in BOOLEAN
  PROVE  LET result == UnifiedResult(lexicalReads, semantic, failed)
             merged == MergedItems(AboveFloor(lexicalReads), Near(semantic))
         IN  /\ result \in ResultType /\ result.route \in {"RAG", "LOW_CONFIDENCE"}
             /\ failed => result.selected = <<>>
             /\ Elements(result.selected) \subseteq merged
             /\ \A c \in Elements(result.selected), i \in merged :
                  Related(c, i) /\ c.row # i.row =>
                    ~Contradict(c.wording.answer, i.wording.answer)
<1> DEFINE lexical == AboveFloor(lexicalReads)
           near == Near(semantic)
           list == Rank(lexical, near)
           merged == MergedItems(lexical, near)
           selected == SelectContexts(Prefix(list, MaxCandidates))
           companions == {i \in Elements(list) : \E c \in Elements(selected) : Related(c, i)}
           result == UnifiedResult(lexicalReads, semantic, failed)
<1>1. lexical \subseteq lexicalReads /\ near \subseteq semantic
  BY DEF AboveFloor, Near
<1>2. \/ result = Result("LOW_CONFIDENCE", "RETRIEVAL_ERROR", <<>>)
      \/ result = Result("LOW_CONFIDENCE", "CONFLICTING_CANDIDATES", <<>>)
      \/ result = Result("LOW_CONFIDENCE", "NO_USABLE_EVIDENCE", <<>>)
      \/ /\ ~failed /\ ~Conflicts(Elements(selected) \union companions)
         /\ \/ result = Result("RAG", "none", selected)
            \/ result = Result("LOW_CONFIDENCE", "BELOW_MIN_VECTOR_SIMILARITY", selected)
  BY DEF UnifiedResult, PoolResult, AboveFloor, Near
<1> HIDE DEF lexical, near
<1>3. list \in Seq(KnowledgeItem) /\ Elements(list) = merged
  <2>1. IsFiniteSet(lexical) /\ IsFiniteSet(near)
    BY <1>1, FS_Subset
  <2>2. lexical \in SUBSET KnowledgeItem /\ near \in SUBSET KnowledgeItem
        /\ Keyed(lexical) /\ Keyed(near)
    BY <1>1 DEF Keyed
  <2> QED
    BY <2>1, <2>2, RankFacts
<1> HIDE DEF list, merged
<1>4. selected \in Seq(KnowledgeItem) /\ Elements(selected) \subseteq merged
  <2>1. MaxCandidates \in Nat
    BY CapsAssumption
  <2> DEFINE head == Prefix(list, MaxCandidates)
  <2>2. head \in Seq(KnowledgeItem) /\ Elements(head) \subseteq merged
    BY <1>3, <2>1, PrefixFacts
  <2> HIDE DEF head
  <2>3. SelectContexts(head) \in Seq(KnowledgeItem)
        /\ Elements(SelectContexts(head)) \subseteq Elements(head)
    BY <2>2, SelectFacts
  <2> QED
    BY <2>2, <2>3 DEF head
<1>5. <<>> \in Seq(KnowledgeItem) /\ Elements(<<>>) = {}
  BY DEF Elements
<1> HIDE DEF selected, result
<1>6. result \in ResultType /\ result.route \in {"RAG", "LOW_CONFIDENCE"}
  <2>1. ASSUME NEW s \in Seq(KnowledgeItem), NEW route \in {"RAG", "LOW_CONFIDENCE"},
               NEW reason \in Reasons, result = Result(route, reason, s)
        PROVE  result \in ResultType /\ result.route \in {"RAG", "LOW_CONFIDENCE"}
    BY <2>1 DEF Result, ResultType, Routes
  <2>2. {"RETRIEVAL_ERROR", "CONFLICTING_CANDIDATES", "NO_USABLE_EVIDENCE", "none",
         "BELOW_MIN_VECTOR_SIMILARITY"} \subseteq Reasons
    BY DEF Reasons
  <2>3. \A reason \in Reasons :
          result = Result("LOW_CONFIDENCE", reason, <<>>) =>
            result \in ResultType /\ result.route \in {"RAG", "LOW_CONFIDENCE"}
    BY <1>5, <2>1
  <2>4. \A reason \in Reasons, route \in {"RAG", "LOW_CONFIDENCE"} :
          result = Result(route, reason, selected) =>
            result \in ResultType /\ result.route \in {"RAG", "LOW_CONFIDENCE"}
    BY <1>4, <2>1
  <2> QED
    BY <1>2, <2>2, <2>3, <2>4
<1>7. \/ result.selected = <<>>
      \/ /\ ~failed /\ result.selected = selected
         /\ ~Conflicts(Elements(selected) \union companions)
  BY <1>2 DEF Result
<1>8. failed => result.selected = <<>>
  BY <1>2 DEF Result
<1>9. Elements(result.selected) \subseteq merged
  BY <1>4, <1>5, <1>7
<1>10. ASSUME NEW c \in Elements(result.selected), NEW i \in merged, Related(c, i),
              c.row # i.row
       PROVE  ~Contradict(c.wording.answer, i.wording.answer)
  <2>1. c \in Elements(selected) /\ ~Conflicts(Elements(selected) \union companions)
    BY <1>5, <1>7, <1>10
  <2>2. i \in companions
    BY <1>3, <1>10, <2>1
  <2> HIDE DEF companions
  <2> QED
    BY <1>10, <2>1, <2>2 DEF Conflicts
<1> QED
  BY <1>6, <1>8, <1>9, <1>10 DEF result, merged, lexical, near
-----------------------------------------------------------------------------
(* The invariant.                                                           *)

Moments == [Rows -> Nat]
DbRow == [wording : AllWordings \union {Absent}, active : BOOLEAN, version : Nat]
VectorRow == [wording : AllWordings, model : Models, active : BOOLEAN, older : BOOLEAN]
TodoItem == [row : Rows, wording : AllWordings, active : BOOLEAN]
Operation ==
  [kind : {"idle", "create", "update", "reindex", "backfill", "remove"},
   pc : {"idle", "find", "call", "refreshing"}, todo : Seq(TodoItem), data : DbRow,
   remaining : SUBSET Rows, created : BOOLEAN, failed : BOOLEAN, disturbed : BOOLEAN]
RefreshType ==
  [boot : BOOLEAN, read : {Absent} \union Seq(StoredRow), since : Moments]
JobType ==
  [pc : {"idle", "cache", "database", "sources", "answer", "answered"},
   query : Queries \union {Absent}, verbatim : BOOLEAN, failed : BOOLEAN,
   lexical : SUBSET KnowledgeItem, semantic : SUBSET KnowledgeItem,
   pending : SUBSET {"micro", "patterns", "facts"}, result : ResultType,
   cached : BOOLEAN, since : Moments, rivals : SUBSET {w.answer : w \in AllWordings},
   grounds : SUBSET KnowledgeItem, said : {"nothing", "preset", "grounded", "fallback"}]

\* An operation that calls or looks has a row to do it for.
AdminTypeOK ==
  /\ db \in [Rows -> DbRow]
  /\ vectors \in [Rows -> VectorRow \union {Absent}]
  /\ model \in Models
  /\ ops \in [Admins -> Operation]
  /\ \A a \in Admins : ops[a].pc \in {"find", "call"} => ops[a].todo # <<>>

\* A row or an item found in the table as it was at some moment after `since`.
Found(x, since) ==
  /\ since[x.row] <= x.version
  /\ x.version <= db[x.row].version
  /\ x.version = db[x.row].version => Live(x.row) /\ x.wording = db[x.row].wording

Past(since) == \A r \in Rows : since[r] <= db[r].version

\* What the cache holds and what a refresh brings it.
CacheInv ==
  /\ Past(cacheSince) /\ Keyed(Elements(cache.entries))
  /\ \A s \in Elements(cache.entries) : Found(s, cacheSince)
  /\ \A f \in refreshing :
       /\ Past(f.since)
       /\ f.read # Absent => /\ Keyed(Elements(f.read))
                             /\ \A s \in Elements(f.read) : Found(s, f.since)

\* What an item says of its row, by its words or by its vector.
Shaped(i) ==
  /\ i.questions = i.wording.questions
  /\ i.topic = (IF i.row \in Facts THEN i.wording.topic ELSE "none")

\* What a question has collected.
CollectedInv ==
  /\ Past(job.since)
  /\ IsFiniteSet(job.lexical) /\ IsFiniteSet(job.semantic)
  /\ Keyed(job.lexical) /\ Keyed(job.semantic)
  /\ \A i \in job.lexical : /\ Found(i, job.since) /\ Shaped(i) /\ i.raw = i.wording.raw
                            /\ i.exact = IsExactMatch(i.wording, job.query)
  /\ \A i \in job.semantic : Found(i, job.since) /\ Shaped(i)
  /\ job.pc \in {"cache", "database"} =>
       job.lexical = {} /\ job.semantic = {} /\ job.pending = {} /\ ~job.cached
  /\ "micro" \in job.pending => \A i \in job.lexical : i.row \in Patterns
  /\ "patterns" \in job.pending => \A i \in job.semantic : i.row \in Facts
  /\ "facts" \in job.pending => \A i \in job.semantic : i.row \in Patterns

\* A row the question's words reach.
Reached(r) ==
  /\ Live(r) /\ db[r].wording.usable
  /\ \/ IsExactMatch(db[r].wording, job.query)
     \/ db[r].wording.raw > 0 /\ db[r].wording.raw >= LexicalFloor
Small == \A table \in {Patterns, Facts} : Cardinality(ActiveRows(table)) <= MaxCandidates

\* Nothing reached is missing while nothing changes.
CompleteInv ==
  job.pc = "sources" /\ ~job.failed /\ job.since = Versions /\ Small =>
    \A r \in Rows : Reached(r) /\ (r \in Patterns \/ "micro" \notin job.pending) =>
                      In(r, job.lexical)

\* No row the words of the question reach contradicts g.
Unopposed(g) ==
  \A r \in Rows :
    LET item == ToKnowledgeItem(Stored(r), job.query, FALSE, FALSE) IN
    Reached(r) /\ r # g.row /\ Related(g, item) =>
      ~Contradict(g.wording.answer, item.wording.answer)

ConcludedInv ==
  /\ job.pc = "answer" =>
       \A c \in Elements(job.result.selected) : job.since[c.row] <= c.version
  /\ \A g \in job.grounds : job.since[g.row] <= g.version
  /\ job.pc # "answered" => job.grounds = {} /\ job.said = "nothing"
  /\ job.pc = "answer" /\ job.result.route = "DIRECT" =>
       /\ job.result.selected = <<job.result.selected[1]>>
       /\ ~job.cached => Cardinality(job.rivals) = 1
  /\ job.said = "preset" /\ ~job.cached => Cardinality(job.rivals) = 1
  /\ job.pc = "answer" /\ job.result.route # "DIRECT" /\ job.since = Versions /\ Small =>
       \A c \in Elements(job.result.selected) : Unopposed(c)
  /\ job.said = "grounded" /\ job.since = Versions /\ Small =>
       \A g \in job.grounds : Unopposed(g)
-----------------------------------------------------------------------------
(* The types.                                                               *)

OpsOK(os) ==
  /\ os \in [Admins -> Operation]
  /\ \A a \in Admins : os[a].pc \in {"find", "call"} => os[a].todo # <<>>

\* The operation of an administrator who does nothing.
LEMMA IdleTyped == IdleOp \in Operation /\ IdleOp.pc = "idle" /\ IdleOp.todo = <<>>
<1>1. <<>> \in Seq(TodoItem) /\ NoRow \in DbRow
  BY DEF NoRow, DbRow
<1> QED
  BY <1>1 DEF IdleOp, Operation

\* The rows of an operation, each once.
LEMMA InOrderFacts ==
  ASSUME NEW S \in SUBSET TodoItem, IsFiniteSet(S), Keyed(S)
  PROVE  InOrder(S) \in Seq(S) /\ Elements(InOrder(S)) = S
<1> DEFINE before(a, b) == Order[a.row] < Order[b.row]
           R == {p \in S \X S : before(p[1], p[2])}
           list == Ranked(S, before)
<1>1. \A a \in S : a.row \in Rows /\ Order[a.row] \in Nat
  BY RowsAssumption DEF TodoItem
<1>2. \A a, b \in S : a # b => Order[a.row] # Order[b.row]
  BY <1>1, RowsAssumption DEF Keyed
<1>3. \A a, b \in S : <<a, b>> \in R <=> before(a, b)
  OBVIOUS
<1>4. Strict(S, R)
  <2> HIDE DEF R
  <2> QED BY <1>1, <1>2, <1>3 DEF Strict
<1>5. InOrder(S) = list
  BY DEF InOrder, Ranked
<1> HIDE DEF before
<1>6. \A x \in S : Place(S, R)[x] = 1 + Cardinality({y \in S : before(y, x)})
  <2> TAKE x \in S
  <2>1. {y \in S : <<y, x>> \in R} = {y \in S : before(y, x)}
    BY <1>3
  <2> QED
    BY <2>1 DEF Place
<1>7. list = [i \in 1 .. Cardinality(S) |->
               CHOOSE x \in S : 1 + Cardinality({y \in S : before(y, x)}) = i]
  BY DEF Ranked
<1>8. ASSUME NEW i \in 1 .. Cardinality(S), \E x \in S : Place(S, R)[x] = i
      PROVE  list[i] \in S /\ Place(S, R)[list[i]] = i
  <2> DEFINE place(x) == 1 + Cardinality({y \in S : before(y, x)})
  <2>1. list[i] = CHOOSE x \in S : place(x) = i
    BY <1>7
  <2>2. \E x \in S : place(x) = i
    BY <1>6, <1>8
  <2>3. \A x \in S : Place(S, R)[x] = place(x)
    BY <1>6
  <2> HIDE DEF place, R, list
  <2> QED BY <2>1, <2>2, <2>3
<1>9. list = [i \in 1 .. Cardinality(S) |-> list[i]]
  BY <1>7
<1> HIDE DEF R, list
<1>10. list \in Seq(S) /\ Elements(list) = S
  BY <1>4, <1>8, <1>9, ListOfPlaces
<1> QED
  BY <1>5, <1>10

\* An operation that starts has a row to do it for.
LEMMA StartTyped ==
  ASSUME OpsOK(ops), NEW a \in Admins, NEW kind \in {"create", "update", "reindex", "backfill"},
         NEW pc \in {"find", "call"}, NEW todo \in Seq(TodoItem), NEW data \in DbRow,
         NEW remaining \in SUBSET Rows, Start(a, kind, pc, todo, data, remaining)
  PROVE  OpsOK(ops)'
<1> DEFINE o == [IdleOp EXCEPT !.kind = kind, !.pc = pc, !.todo = todo, !.data = data,
                               !.remaining = remaining]
<1>1. ops' = [ops EXCEPT ![a] = o] /\ todo # <<>>
  BY DEF Start
<1>2. o \in Operation /\ o.pc = pc /\ o.todo = todo
  <2> DEFINE o1 == [IdleOp EXCEPT !.kind = kind]
             o2 == [o1 EXCEPT !.pc = pc]
             o3 == [o2 EXCEPT !.todo = todo]
             o4 == [o3 EXCEPT !.data = data]
             o5 == [o4 EXCEPT !.remaining = remaining]
  <2>1. o = o5
    BY Zenon
  <2>2. o1 \in Operation
    BY IdleTyped DEF Operation
  <2> HIDE DEF o1
  <2>3. o2 \in Operation /\ o2.pc = pc
    BY <2>2 DEF Operation
  <2> HIDE DEF o2
  <2>4. o3 \in Operation /\ o3.pc = pc /\ o3.todo = todo
    BY <2>3 DEF Operation
  <2> HIDE DEF o3
  <2>5. o4 \in Operation /\ o4.pc = pc /\ o4.todo = todo
    BY <2>4 DEF Operation
  <2> HIDE DEF o4
  <2>6. o5 \in Operation /\ o5.pc = pc /\ o5.todo = todo
    BY <2>5 DEF Operation
  <2> HIDE DEF o5, o
  <2> QED BY <2>1, <2>6
<1> HIDE DEF o
<1>3. ops' \in [Admins -> Operation]
  BY <1>1, <1>2 DEF OpsOK
<1>4. ASSUME NEW b \in Admins, ops'[b].pc \in {"find", "call"} PROVE ops'[b].todo # <<>>
  BY <1>1, <1>2, <1>4 DEF OpsOK
<1> QED
  BY <1>3, <1>4 DEF OpsOK

RefreshSame == refreshing' \in {refreshing, {NewRefresh(FALSE)}}

\* The end of an operation,
LEMMA EndsTyped ==
  ASSUME NEW os, OpsOK(os), NEW a \in Admins, NEW writes \in BOOLEAN, Ends(a, os, writes)
  PROVE  OpsOK(ops)' /\ RefreshSame
<1> DEFINE o == [IdleOp EXCEPT !.kind = os[a].kind, !.pc = "refreshing"]
<1>1. RefreshSame
  BY DEF Ends, Refresh, RefreshSame
<1>2. ops' = [os EXCEPT ![a] = o] \/ ops' = [os EXCEPT ![a] = IdleOp]
  BY DEF Ends
<1>3. o \in Operation /\ o.pc = "refreshing"
  <2> DEFINE o1 == [IdleOp EXCEPT !.kind = os[a].kind]
             o2 == [o1 EXCEPT !.pc = "refreshing"]
  <2>1. o = o2
    BY Zenon
  <2>2. os[a].kind \in {"idle", "create", "update", "reindex", "backfill", "remove"}
    BY DEF OpsOK, Operation
  <2>3. o1 \in Operation
    BY <2>2, IdleTyped DEF Operation
  <2> HIDE DEF o1
  <2>4. o2 \in Operation /\ o2.pc = "refreshing"
    BY <2>3 DEF Operation
  <2> HIDE DEF o2
  <2> QED BY <2>1, <2>4
<1> HIDE DEF o
<1>4. ops' \in [Admins -> Operation]
  BY <1>2, <1>3, IdleTyped DEF OpsOK
<1>5. ASSUME NEW b \in Admins, ops'[b].pc \in {"find", "call"} PROVE ops'[b].todo # <<>>
  BY <1>2, <1>3, <1>5, IdleTyped DEF OpsOK
<1> QED
  BY <1>1, <1>4, <1>5 DEF OpsOK

\* and its next row, keep the types.
LEMMA AdvanceTyped ==
  ASSUME NEW os, OpsOK(os), NEW a \in Admins, NEW created \in BOOLEAN, NEW failed \in BOOLEAN,
         Advance(a, os, created, failed)
  PROVE  OpsOK(ops)' /\ RefreshSame
<1>1. os[a] \in Operation
  BY DEF OpsOK
<1>2. CASE Len(os[a].todo) > 1
  <2>1. ops' = [os EXCEPT ![a].todo = Tail(@), ![a].created = @ \/ created,
                          ![a].failed = @ \/ failed,
                          ![a].pc = IF os[a].kind = "backfill" THEN "find" ELSE @]
    BY <1>2 DEF Advance
  <2>2. UNCHANGED refreshing
    BY <1>2 DEF Advance
  <2> DEFINE t == Tail(os[a].todo)
  <2> HIDE DEF t
  <2>3. ops' = [os EXCEPT ![a].todo = t, ![a].created = @ \/ created,
                          ![a].failed = @ \/ failed,
                          ![a].pc = IF os[a].kind = "backfill" THEN "find" ELSE @]
    BY <2>1, Zenon DEF t
  <2> DEFINE o1 == [os[a] EXCEPT !.todo = t]
             o2 == [o1 EXCEPT !.created = os[a].created \/ created]
             o3 == [o2 EXCEPT !.failed = os[a].failed \/ failed]
             o == [o3 EXCEPT !.pc = IF os[a].kind = "backfill" THEN "find" ELSE os[a].pc]
  <2>4. ops'[a] = o
    BY <2>3, <1>1 DEF OpsOK, Operation
  <2>5. ops' = [b \in Admins |-> ops'[b]] /\ \A b \in Admins : b # a => ops'[b] = os[b]
    BY <2>1 DEF OpsOK, Operation
  <2>6. t \in Seq(TodoItem) /\ t # <<>>
    <3>1. os[a].todo \in Seq(TodoItem)
      BY <1>1 DEF Operation
    <3>2. t \in Seq(TodoItem) /\ Len(t) = Len(os[a].todo) - 1
      BY <1>2, <3>1 DEF t
    <3> QED BY <1>2, <3>2
  <2>7. o \in Operation /\ o.todo # <<>>
    BY <1>1, <2>6 DEF Operation
  <2> HIDE DEF o
  <2> QED
    BY <2>2, <2>4, <2>5, <2>7 DEF OpsOK, RefreshSame
<1>3. CASE ~(Len(os[a].todo) > 1)
  <2>1. Ends(a, os, os[a].created \/ created)
    BY <1>3 DEF Advance
  <2>2. os[a].created \/ created \in BOOLEAN
    OBVIOUS
  <2> QED
    BY <2>1, EndsTyped
<1> QED
  BY <1>2, <1>3

\* So does the mark that another operation wrote.
LEMMA DisturbingTyped ==
  ASSUME NEW os, OpsOK(os), NEW a \in Admins
  PROVE  OpsOK(Disturbing(a, os)) /\ Disturbing(a, os)[a] = os[a]
<1>1. \A b \in Admins : /\ [os[b] EXCEPT !.disturbed = TRUE] \in Operation
                        /\ [os[b] EXCEPT !.disturbed = TRUE].pc = os[b].pc
                        /\ [os[b] EXCEPT !.disturbed = TRUE].todo = os[b].todo
  BY DEF OpsOK, Operation
<1> QED
  BY <1>1 DEF OpsOK, Disturbing

\* A row that changes has its next version.
DbMoves == \A r \in Rows : db'[r] = db[r] \/ db'[r].version = db[r].version + 1

\* The cache stays; a refresh may begin; the question is left alone.
CacheQuiet == UNCHANGED <<cache, cacheSince, job>> /\ RefreshSame
AdminStep == AdminTypeOK' /\ DbMoves /\ CacheQuiet

\* The row an operation is at.
LEMMA TargetTyped ==
  ASSUME AdminTypeOK, NEW a \in Admins, ops[a].pc \in {"find", "call"}
  PROVE  Target(a) \in TodoItem
<1>1. ops[a].todo \in Seq(TodoItem) /\ ops[a].todo # <<>>
  BY DEF AdminTypeOK, Operation
<1> QED
  BY <1>1 DEF Target

\* What an operation reads of a row.
LEMMA ItemTyped ==
  ASSUME AdminTypeOK, NEW r \in Rows, Exists(r)
  PROVE  Item(r) \in TodoItem /\ Item(r).row = r
BY DEF AdminTypeOK, DbRow, Exists, Item, TodoItem

\* The operations under way, by themselves.
LEMMA OpsOKHere == ASSUME AdminTypeOK PROVE OpsOK(ops)
BY DEF AdminTypeOK, OpsOK

\* Operations that start.
LEMMA StartSteps ==
  ASSUME AdminTypeOK, NEW a \in Admins,
         \/ CreatePatterns(a) \/ CreateFacts(a) \/ UpdatePattern(a) \/ UpdateFact(a)
         \/ ReindexPatterns(a) \/ ReindexFacts(a) \/ Backfill(a)
  PROVE  AdminStep
<1>1. NoRow \in DbRow
  BY DEF NoRow, DbRow
<1>2. ASSUME NEW kind \in {"create", "update", "reindex", "backfill"},
             NEW pc \in {"find", "call"}, NEW todo \in Seq(TodoItem), NEW data \in DbRow,
             NEW remaining \in SUBSET Rows, Start(a, kind, pc, todo, data, remaining)
      PROVE  AdminStep
  <2>1. OpsOK(ops)'
    BY <1>2, OpsOKHere, StartTyped
  <2>2. UNCHANGED <<db, vectors, model, cache, refreshing, cacheSince, job>>
    BY <1>2 DEF Start, caching
  <2> QED
    BY <2>1, <2>2 DEF AdminStep, AdminTypeOK, OpsOK, DbMoves, CacheQuiet, RefreshSame
<1>3. ASSUME NEW table \in {Patterns, Facts}, Create(a, table) PROVE AdminStep
  <2>1. PICK w \in Rewordings, rows \in SUBSET {r \in table : Fresh(r)} :
          Start(a, "create", "call",
                InOrder({[row |-> r, wording |-> w, active |-> TRUE] : r \in rows}), NoRow, {})
    BY <1>3 DEF Create
  <2> DEFINE S == {[row |-> r, wording |-> w, active |-> TRUE] : r \in rows}
  <2>2. rows \subseteq Rows /\ w \in AllWordings
    BY DEF Rows, AllWordings
  <2>3. IsFiniteSet(rows)
    BY <2>2, FS_Subset, RowsAssumption
  <2>4. S \in SUBSET TodoItem /\ Keyed(S)
    <3>1. \A r \in rows : [row |-> r, wording |-> w, active |-> TRUE] \in TodoItem
      BY <2>2 DEF TodoItem
    <3>2. \A x \in S : \E r \in rows : x = [row |-> r, wording |-> w, active |-> TRUE]
      OBVIOUS
    <3>3. \A x \in S : x = [row |-> x.row, wording |-> w, active |-> TRUE]
      BY <3>2
    <3>4. Keyed(S)
      <4> HIDE DEF S
      <4> QED BY <3>3, Zenon DEF Keyed
    <3> QED
      BY <3>1, <3>4
  <2>5. IsFiniteSet(S)
    <3> DEFINE f == [r \in rows |-> [row |-> r, wording |-> w, active |-> TRUE]]
    <3>1. f \in Surjection(rows, S)
      BY DEF Surjection
    <3> HIDE DEF f, S
    <3> QED BY <2>3, <3>1, FS_Surjection
  <2> HIDE DEF S
  <2>6. InOrder(S) \in Seq(TodoItem)
    BY <2>4, <2>5, InOrderFacts
  <2>7. Start(a, "create", "call", InOrder(S), NoRow, {})
    BY <2>1 DEF S
  <2> QED
    BY <1>1, <1>2, <2>6, <2>7
<1>4. ASSUME NEW table \in {Patterns, Facts}, Update(a, table) PROVE AdminStep
  <2>1. PICK r \in {r \in table : Exists(r)}, w \in Rewordings \union {Absent}, on \in BOOLEAN :
          Start(a, "update", "call", <<[Item(r) EXCEPT !.wording = IF w = Absent THEN @ ELSE w]>>,
                [wording |-> w, active |-> on, version |-> 0], {})
    BY <1>4 DEF Update
  <2> DEFINE i == [Item(r) EXCEPT !.wording = IF w = Absent THEN @ ELSE w]
             d == [wording |-> w, active |-> on, version |-> 0]
  <2>2. r \in Rows /\ Exists(r)
    BY DEF Rows
  <2>3. Item(r) \in TodoItem
    BY <2>2, ItemTyped
  <2>4. i \in TodoItem
    BY <2>3 DEF TodoItem, AllWordings
  <2>5. d \in DbRow
    BY DEF DbRow, AllWordings
  <2> HIDE DEF i
  <2>6. <<i>> \in Seq(TodoItem)
    BY <2>4
  <2>7. Start(a, "update", "call", <<i>>, d, {})
    BY <2>1 DEF i
  <2> HIDE DEF d
  <2>8. {} \in SUBSET Rows
    OBVIOUS
  <2> QED
    BY <1>2, <2>5, <2>6, <2>7, <2>8
<1>5. ASSUME NEW R \in SUBSET Rows, \A r \in R : Exists(r)
      PROVE  InOrder({Item(r) : r \in R}) \in Seq(TodoItem)
  <2> DEFINE S == {Item(r) : r \in R}
  <2>1. IsFiniteSet(R)
    BY FS_Subset, RowsAssumption
  <2>2. S \in SUBSET TodoItem /\ Keyed(S)
    BY <1>5, ItemTyped DEF Keyed
  <2>3. IsFiniteSet(S)
    <3> DEFINE f == [r \in R |-> Item(r)]
    <3>1. f \in Surjection(R, S)
      BY DEF Surjection
    <3> HIDE DEF f, S
    <3> QED BY <2>1, <3>1, FS_Surjection
  <2> HIDE DEF S
  <2>4. InOrder(S) \in Seq(TodoItem)
    BY <2>2, <2>3, InOrderFacts
  <2> QED
    BY <2>4 DEF S
<1>6. ASSUME NEW table \in {Patterns, Facts}, Reindex(a, table) PROVE AdminStep
  <2> DEFINE R == {r \in table : Exists(r)}
  <2>1. InOrder({Item(r) : r \in R}) \in Seq(TodoItem)
    BY <1>5 DEF Rows
  <2> QED
    BY <1>1, <1>2, <1>6, <2>1 DEF Reindex
<1>7. ASSUME Backfill(a) PROVE AdminStep
  <2>1. PICK force \in BOOLEAN, limit \in Limits :
          Start(a, "backfill", "find",
                Batch(InOrder({Item(r) : r \in Candidates(force)}), limit), NoRow,
                Candidates(force) \ RowsOf(Batch(InOrder({Item(r) : r \in Candidates(force)}), limit)))
    BY <1>7 DEF Backfill
  <2> DEFINE R == Candidates(force)
             list == InOrder({Item(r) : r \in R})
             batch == Batch(list, limit)
  <2>2. R \in SUBSET Rows /\ \A r \in R : Exists(r)
    BY DEF Candidates, Rows, Live
  <2>3. list \in Seq(TodoItem)
    BY <1>5, <2>2
  <2>4. batch \in Seq(TodoItem)
    <3>1. limit \in Nat
      BY CapsAssumption
    <3> HIDE DEF list
    <3> QED BY <2>3, <3>1, PrefixFacts DEF Batch
  <2>5. Start(a, "backfill", "find", batch, NoRow, R \ RowsOf(batch))
    BY <2>1
  <2>6. R \ RowsOf(batch) \in SUBSET Rows
    BY <2>2
  <2> HIDE DEF R, list, batch
  <2> QED
    BY <1>1, <1>2, <2>4, <2>5, <2>6
<1> QED
  BY <1>3, <1>4, <1>6, <1>7
     DEF CreatePatterns, CreateFacts, UpdatePattern, UpdateFact, ReindexPatterns, ReindexFacts

\* A write, and the step to the next row or to the end.
LEMMA WriteSteps ==
  ASSUME AdminTypeOK, NEW a \in Admins,
         \/ CreateRow(a) \/ UpdateRow(a) \/ UpsertVector(a) \/ FindTarget(a)
         \/ RowGone(a) \/ EmbedFails(a)
  PROVE  AdminStep
<1>1. OpsOK(ops) /\ OpsOK(Disturbing(a, ops))
  BY OpsOKHere, DisturbingTyped
<1>2. CASE CreateRow(a)
  <2> DEFINE item == Target(a)
  <2>1. item \in TodoItem
    BY <1>2, TargetTyped DEF CreateRow
  <2> HIDE DEF item
  <2>2. PICK older \in BOOLEAN : vectors' = [vectors EXCEPT ![item.row] = Vector(item, older)]
    BY <1>2 DEF CreateRow, item
  <2>3. Vector(item, older) \in VectorRow
    BY <2>1 DEF AdminTypeOK, Vector, VectorRow, TodoItem
  <2>4. vectors' \in [Rows -> VectorRow \union {Absent}]
    BY <2>1, <2>2, <2>3 DEF AdminTypeOK, TodoItem
  <2>5. db' = [db EXCEPT ![item.row] = [wording |-> item.wording, active |-> TRUE,
                                        version |-> @.version + 1]]
    BY <1>2 DEF CreateRow, item
  <2>6. [wording |-> item.wording, active |-> TRUE, version |-> db[item.row].version + 1] \in DbRow
    BY <2>1 DEF AdminTypeOK, DbRow, TodoItem
  <2>7. db' \in [Rows -> DbRow] /\ DbMoves
    BY <2>1, <2>5, <2>6 DEF AdminTypeOK, TodoItem, DbMoves
  <2>8. OpsOK(ops)' /\ RefreshSame
    BY <1>1, <1>2, AdvanceTyped DEF CreateRow
  <2>9. UNCHANGED <<model, cache, cacheSince, job>>
    BY <1>2 DEF CreateRow
  <2> QED
    BY <2>4, <2>7, <2>8, <2>9 DEF AdminStep, AdminTypeOK, OpsOK, CacheQuiet
<1>3. CASE UpdateRow(a)
  <2> DEFINE item == Target(a)
             r == item.row
             data == ops[a].data
             written == [wording |-> IF data.wording = Absent THEN db[r].wording ELSE data.wording,
                         active |-> IF data.wording = Absent THEN data.active ELSE db[r].active,
                         version |-> db[r].version + 1]
             v == Vector([item EXCEPT !.active = written.active], FALSE)
  <2>1. item \in TodoItem
    BY <1>3, TargetTyped DEF UpdateRow
  <2>2. data \in DbRow
    BY DEF AdminTypeOK, Operation
  <2>3. db' = [db EXCEPT ![r] = written] /\ vectors' = [vectors EXCEPT ![r] = v]
        /\ Ends(a, Disturbing(a, ops), TRUE) /\ UNCHANGED <<model, cache, cacheSince, job>>
    BY <1>3 DEF UpdateRow
  <2> HIDE DEF item, data
  <2>4. r \in Rows /\ db[r] \in DbRow
    BY <2>1 DEF AdminTypeOK, TodoItem
  <2>5. written \in DbRow /\ written.active \in BOOLEAN /\ written.version = db[r].version + 1
    BY <2>2, <2>4 DEF DbRow
  <2> HIDE DEF written
  <2>6. [item EXCEPT !.active = written.active] \in TodoItem
    BY <2>1, <2>5 DEF TodoItem
  <2>7. v \in VectorRow
    BY <2>6 DEF AdminTypeOK, Vector, VectorRow, TodoItem
  <2> HIDE DEF v, r
  <2>8. vectors' \in [Rows -> VectorRow \union {Absent}] /\ db' \in [Rows -> DbRow] /\ DbMoves
    BY <2>3, <2>4, <2>5, <2>7 DEF AdminTypeOK, DbMoves
  <2>9. OpsOK(ops)' /\ RefreshSame
    BY <1>1, <2>3, EndsTyped
  <2> QED
    BY <2>3, <2>8, <2>9 DEF AdminStep, AdminTypeOK, OpsOK, CacheQuiet
<1>4. CASE UpsertVector(a)
  <2> DEFINE item == Target(a)
  <2>1. item \in TodoItem
    BY <1>4, TargetTyped DEF UpsertVector
  <2>2. vectors' = [vectors EXCEPT ![item.row] = Vector(item, FALSE)]
    BY <1>4 DEF UpsertVector
  <2> HIDE DEF item
  <2>3. Vector(item, FALSE) \in VectorRow
    BY <2>1 DEF AdminTypeOK, Vector, VectorRow, TodoItem
  <2>4. vectors' \in [Rows -> VectorRow \union {Absent}]
    BY <2>1, <2>2, <2>3 DEF AdminTypeOK, TodoItem
  <2>5. OpsOK(ops)' /\ RefreshSame
    BY <1>1, <1>4, AdvanceTyped DEF UpsertVector
  <2>6. UNCHANGED <<db, model, cache, cacheSince, job>>
    BY <1>4 DEF UpsertVector
  <2> QED
    BY <2>4, <2>5, <2>6 DEF AdminStep, AdminTypeOK, OpsOK, DbMoves, CacheQuiet
<1>5. ASSUME NEW os, OpsOK(os), \/ Advance(a, os, FALSE, TRUE)
                                \/ ops' = [os EXCEPT ![a] = IdleOp] /\ UNCHANGED refreshing
      PROVE  OpsOK(ops)' /\ RefreshSame
  <2>1. CASE Advance(a, os, FALSE, TRUE)
    BY <1>5, <2>1, AdvanceTyped
  <2>2. CASE ops' = [os EXCEPT ![a] = IdleOp] /\ UNCHANGED refreshing
    <3>1. ops' \in [Admins -> Operation]
      BY <1>5, <2>2, IdleTyped DEF OpsOK
    <3>2. ASSUME NEW b \in Admins, ops'[b].pc \in {"find", "call"} PROVE ops'[b].todo # <<>>
      BY <1>5, <2>2, <3>2, IdleTyped DEF OpsOK
    <3> QED
      BY <2>2, <3>1, <3>2 DEF OpsOK, RefreshSame
  <2> QED
    BY <1>5, <2>1, <2>2
<1>6. CASE FindTarget(a)
  <2>1. Target(a) \in TodoItem /\ Target(a).row \in Rows
    BY <1>6, TargetTyped DEF FindTarget, TodoItem
  <2>2. UNCHANGED <<db, vectors, model, cache, cacheSince, job>>
    BY <1>6 DEF FindTarget, admin
  <2>3. CASE Exists(Target(a).row)
    <3> DEFINE t == <<Item(Target(a).row)>> \o Tail(ops[a].todo)
               o1 == [ops[a] EXCEPT !.pc = "call"]
               o == [o1 EXCEPT !.todo = t]
    <3>1. ops' = [ops EXCEPT ![a].pc = "call", ![a].todo = <<Item(Target(a).row)>> \o Tail(@)]
          /\ UNCHANGED refreshing
      BY <1>6, <2>3 DEF FindTarget
    <3>2. ops[a] \in Operation /\ ops[a].todo \in Seq(TodoItem) /\ ops[a].todo # <<>>
      BY <1>6 DEF AdminTypeOK, Operation, FindTarget
    <3>3. Tail(ops[a].todo) \in Seq(TodoItem)
      BY <3>2
    <3>4. Item(Target(a).row) \in TodoItem
      BY <2>1, <2>3, ItemTyped
    <3>5. t \in Seq(TodoItem) /\ t # <<>>
      <4> DEFINE x == Item(Target(a).row)
                 y == Tail(ops[a].todo)
      <4> HIDE DEF x, y
      <4>1. <<x>> \o y \in Seq(TodoItem) /\ Len(<<x>> \o y) = 1 + Len(y) /\ Len(y) \in Nat
        BY <3>3, <3>4 DEF x, y
      <4> QED BY <4>1 DEF x, y
    <3>6. ops' = [ops EXCEPT ![a].pc = "call", ![a].todo = t]
      BY <3>1, Zenon
    <3> HIDE DEF t
    <3>7. ops'[a] = o
      BY <3>2, <3>6 DEF AdminTypeOK
    <3>8. ops' = [b \in Admins |-> ops'[b]] /\ \A b \in Admins : b # a => ops'[b] = ops[b]
      BY <3>6 DEF AdminTypeOK
    <3>9. o1 \in Operation
      BY <3>2 DEF Operation
    <3> HIDE DEF o1
    <3>10. o \in Operation /\ o.todo # <<>>
      BY <3>5, <3>9 DEF Operation
    <3> HIDE DEF o
    <3> QED
      BY <2>2, <3>1, <3>7, <3>8, <3>10
         DEF AdminStep, AdminTypeOK, DbMoves, CacheQuiet, RefreshSame
  <2>4. CASE ~Exists(Target(a).row)
    <3>1. Advance(a, ops, FALSE, TRUE)
      BY <1>6, <2>4 DEF FindTarget
    <3>2. OpsOK(ops)' /\ RefreshSame
      BY <1>1, <1>5, <3>1
    <3> QED
      BY <2>2, <3>2 DEF AdminStep, AdminTypeOK, OpsOK, DbMoves, CacheQuiet
  <2> QED
    BY <2>3, <2>4
<1>7. CASE RowGone(a) \/ EmbedFails(a)
  <2>1. UNCHANGED <<db, vectors, model, cache, cacheSince, job>>
    BY <1>7 DEF RowGone, EmbedFails, admin
  <2>2. \/ Advance(a, ops, FALSE, TRUE)
        \/ ops' = [ops EXCEPT ![a] = IdleOp] /\ UNCHANGED refreshing
    BY <1>7 DEF RowGone, EmbedFails, Fails
  <2>3. OpsOK(ops)' /\ RefreshSame
    BY <1>1, <1>5, <2>2
  <2> QED
    BY <2>1, <2>3 DEF AdminStep, AdminTypeOK, OpsOK, DbMoves, CacheQuiet
<1> QED
  BY <1>2, <1>3, <1>4, <1>6, <1>7

\* A row taken out.
LEMMA RemoveSteps ==
  ASSUME AdminTypeOK, NEW a \in Admins, RemovePattern(a) \/ RemoveFact(a)
  PROVE  AdminStep
<1>1. OpsOK(ops) /\ OpsOK(Disturbing(a, ops))
  BY OpsOKHere, DisturbingTyped
<1>2. ASSUME NEW r \in Rows, Delete(a, r)
      PROVE  /\ db' \in [Rows -> DbRow] /\ DbMoves
             /\ vectors' \in [Rows -> VectorRow \union {Absent}]
             /\ UNCHANGED <<model, cache, cacheSince, job>>
  <2> DEFINE x == [NoRow EXCEPT !.version = db[r].version + 1]
  <2>1. db' = [db EXCEPT ![r] = x] /\ vectors' = [vectors EXCEPT ![r] = Absent]
        /\ UNCHANGED <<model, cache, cacheSince, job>>
    BY <1>2 DEF Delete
  <2>2. db[r].version + 1 \in Nat
    BY DEF AdminTypeOK, DbRow
  <2>3. x \in DbRow /\ x.version = db[r].version + 1
    BY <2>2 DEF NoRow, DbRow
  <2> HIDE DEF x
  <2> QED
    BY <2>1, <2>3 DEF AdminTypeOK, DbMoves
<1>3. CASE RemovePattern(a)
  <2>1. PICK r \in Patterns :
          /\ Delete(a, r) /\ Refresh
          /\ ops' = [Disturbing(a, ops) EXCEPT ![a] = [IdleOp EXCEPT !.kind = "remove",
                                                                      !.pc = "refreshing"]]
    BY <1>3 DEF RemovePattern
  <2> DEFINE o1 == [IdleOp EXCEPT !.kind = "remove"]
             o2 == [o1 EXCEPT !.pc = "refreshing"]
             os == Disturbing(a, ops)
  <2>2. ops' = [os EXCEPT ![a] = o2]
    BY <2>1, Zenon
  <2>3. o1 \in Operation
    BY IdleTyped DEF Operation
  <2> HIDE DEF o1, os
  <2>4. o2 \in Operation /\ o2.pc = "refreshing"
    BY <2>3 DEF Operation
  <2> HIDE DEF o2
  <2>5. OpsOK(os)
    BY <1>1 DEF os
  <2>6. ops' \in [Admins -> Operation]
    BY <2>2, <2>4, <2>5 DEF OpsOK
  <2>7. ASSUME NEW b \in Admins, ops'[b].pc \in {"find", "call"} PROVE ops'[b].todo # <<>>
    BY <2>2, <2>4, <2>5, <2>7 DEF OpsOK
  <2>8. RefreshSame
    BY <2>1 DEF Refresh, RefreshSame
  <2>9. r \in Rows
    BY DEF Rows
  <2> QED
    BY <1>2, <2>1, <2>6, <2>7, <2>8, <2>9 DEF AdminStep, AdminTypeOK, CacheQuiet
<1>4. CASE RemoveFact(a)
  <2>1. PICK r \in Facts : Delete(a, r) /\ ops' = Disturbing(a, ops) /\ UNCHANGED refreshing
    BY <1>4 DEF RemoveFact
  <2>2. r \in Rows
    BY DEF Rows
  <2> QED
    BY <1>1, <1>2, <2>1, <2>2 DEF AdminStep, AdminTypeOK, OpsOK, CacheQuiet, RefreshSame
<1> QED
  BY <1>3, <1>4

-----------------------------------------------------------------------------
(* What a step leaves of what was found before it.                          *)

DbTypeOK == db \in [Rows -> DbRow]

\* A moment of the past stays one,
LEMMA PastKept ==
  ASSUME DbTypeOK, DbMoves, NEW since \in Moments, Past(since)
  PROVE  Past(since)'
<1>1. ASSUME NEW r \in Rows PROVE since[r] <= db'[r].version
  <2>1. since[r] \in Nat /\ db[r].version \in Nat /\ since[r] <= db[r].version
    BY DEF Moments, DbTypeOK, DbRow, Past
  <2> QED
    BY <2>1 DEF DbMoves
<1> QED
  BY <1>1 DEF Past

\* and what was found stays found.
LEMMA FoundKept ==
  ASSUME DbTypeOK, DbMoves, NEW since, NEW x, x.row \in Rows, x.version \in Nat, Found(x, since)
  PROVE  Found(x, since)'
<1> DEFINE r == x.row
<1>1. r \in Rows /\ db[r].version \in Nat /\ x.version <= db[r].version
  BY DEF DbTypeOK, DbRow, Found
<1>2. CASE db'[r] = db[r]
  BY <1>2 DEF Found, Live, Exists
<1>3. CASE db'[r].version = db[r].version + 1
  BY <1>1, <1>3 DEF Found
<1> QED
  BY <1>1, <1>2, <1>3 DEF DbMoves

\* While the versions stay those of a moment, the rows do.
LEMMA SameRows ==
  ASSUME DbTypeOK, DbTypeOK', DbMoves, NEW since \in Moments, Past(since), since = Versions'
  PROVE  db' = db /\ since = Versions
<1>1. ASSUME NEW r \in Rows PROVE db'[r] = db[r]
  <2>1. since[r] = db'[r].version
    BY DEF Versions
  <2>2. since[r] <= db[r].version /\ db[r].version \in Nat
    BY DEF Past, DbTypeOK, DbRow
  <2> QED
    BY <2>1, <2>2 DEF DbMoves
<1>2. db' = db
  BY <1>1 DEF DbTypeOK
<1> QED
  BY <1>2 DEF Versions

\* A refresh that begins asks for the table as it is.
LEMMA NewRefreshTyped ==
  ASSUME DbTypeOK, NEW boot \in BOOLEAN
  PROVE  NewRefresh(boot) \in RefreshType /\ NewRefresh(boot).read = Absent
         /\ NewRefresh(boot).since = Versions /\ Versions \in Moments /\ Past(Versions)
<1>1. Versions \in Moments
  BY DEF Versions, Moments, DbTypeOK, DbRow
<1>2. Past(Versions)
  <2>1. \A r \in Rows : db[r].version \in Nat
    BY DEF DbTypeOK, DbRow
  <2> QED
    BY <2>1 DEF Past, Versions
<1> QED
  BY <1>1, <1>2 DEF NewRefresh, RefreshType

CacheTypeOK ==
  /\ cache \in [entries : Seq(StoredRow), expired : BOOLEAN]
  /\ refreshing \in SUBSET RefreshType
  /\ cacheSince \in Moments

\* The cache and the refreshes are kept by a step that leaves them alone.
LEMMA CacheKept ==
  ASSUME DbTypeOK, CacheTypeOK, CacheInv, DbMoves, UNCHANGED <<cache, cacheSince>>, RefreshSame
  PROVE  CacheTypeOK' /\ CacheInv'
<1>1. refreshing' \in SUBSET RefreshType
  BY NewRefreshTyped DEF CacheTypeOK, RefreshSame
<1>2. CacheTypeOK'
  BY <1>1 DEF CacheTypeOK
<1>3. Past(cacheSince)'
  BY PastKept DEF CacheTypeOK, CacheInv
<1>4. ASSUME NEW s, s \in StoredRow PROVE s.row \in Rows /\ s.version \in Nat
  BY <1>4 DEF StoredRow
<1>5. ASSUME NEW s \in Elements(cache.entries) PROVE Found(s, cacheSince)'
  <2>1. s \in StoredRow
    BY ElementsFacts DEF CacheTypeOK
  <2>2. Found(s, cacheSince)
    BY DEF CacheInv
  <2> DEFINE since == cacheSince
  <2>3. cacheSince' = since
    OBVIOUS
  <2> QED
    BY <1>4, <2>1, <2>2, FoundKept
<1>6. ASSUME NEW f \in refreshing'
      PROVE  /\ Past(f.since)'
             /\ f.read # Absent => /\ Keyed(Elements(f.read))
                                   /\ \A s \in Elements(f.read) : Found(s, f.since)'
  <2>1. CASE f \in refreshing
    <3>1. f \in RefreshType /\ f.since \in Moments
      BY <2>1 DEF CacheTypeOK, RefreshType
    <3>2. Past(f.since)'
      BY <2>1, <3>1, PastKept DEF CacheInv
    <3>3. ASSUME f.read # Absent, NEW s \in Elements(f.read) PROVE Found(s, f.since)'
      <4>1. f.read \in Seq(StoredRow)
        BY <3>1, <3>3 DEF RefreshType
      <4>2. s \in StoredRow
        BY <4>1, <3>3, ElementsFacts
      <4> QED
        BY <1>4, <2>1, <3>3, <4>2, FoundKept DEF CacheInv
    <3> QED
      BY <2>1, <3>2, <3>3 DEF CacheInv
  <2>2. CASE f = NewRefresh(FALSE)
    <3>1. f.read = Absent /\ f.since = Versions /\ Versions \in Moments /\ Past(Versions)
      BY <2>2, NewRefreshTyped
    <3> QED
      BY <3>1, PastKept
  <2> QED
    BY <2>1, <2>2 DEF RefreshSame
<1> QED
  BY <1>2, <1>3, <1>5, <1>6 DEF CacheInv

\* What a question has is kept by a step that leaves the question alone.
LEMMA JobKept ==
  ASSUME DbTypeOK, DbTypeOK', job \in JobType, CollectedInv, CompleteInv, ConcludedInv,
         DbMoves, UNCHANGED job
  PROVE  job' \in JobType /\ CollectedInv' /\ CompleteInv' /\ ConcludedInv'
<1>1. /\ job.since \in Moments /\ job.lexical \subseteq KnowledgeItem
      /\ job.semantic \subseteq KnowledgeItem
  BY DEF JobType
<1>2. Past(job.since)'
  BY <1>1, PastKept DEF CollectedInv
<1>3. ASSUME NEW i \in KnowledgeItem, Found(i, job.since) PROVE Found(i, job.since)'
  <2>1. i.row \in Rows /\ i.version \in Nat
    BY DEF KnowledgeItem
  <2> QED
    BY <1>3, <2>1, FoundKept
<1>4. CollectedInv'
  <2>1. \A i \in job.lexical : Found(i, job.since)'
    BY <1>1, <1>3 DEF CollectedInv
  <2>2. \A i \in job.semantic : Found(i, job.since)'
    BY <1>1, <1>3 DEF CollectedInv
  <2> HIDE DEF Found, Past, Shaped
  <2> QED
    BY <1>2, <2>1, <2>2 DEF CollectedInv
<1>5. ASSUME job'.since = Versions'
      PROVE  /\ job.since = Versions /\ Small' = Small
             /\ \A r \in Rows : Reached(r)' = Reached(r) /\ Stored(r)' = Stored(r)
  <2>1. db' = db /\ job.since = Versions
    BY <1>1, <1>5, SameRows DEF CollectedInv
  <2>2. \A r \in Rows : Reached(r)' = Reached(r) /\ Stored(r)' = Stored(r)
    BY <2>1 DEF Reached, Live, Exists, Stored
  <2>3. \A t \in {Patterns, Facts} : ActiveRows(t)' = ActiveRows(t)
    BY <2>1 DEF ActiveRows, Stored, Live, Exists
  <2>4. Small' = Small
    BY <2>3 DEF Small
  <2> QED
    BY <2>1, <2>2, <2>4
<1>6. CompleteInv'
  BY <1>5 DEF CompleteInv
<1>7. ASSUME job'.since = Versions', NEW c PROVE Unopposed(c)' = Unopposed(c)
  BY <1>5, <1>7 DEF Unopposed
<1>8. ConcludedInv'
  BY <1>5, <1>7 DEF ConcludedInv
<1> QED
  BY <1>4, <1>6, <1>8

\* The active rows of a table.
LEMMA ActiveFacts ==
  ASSUME DbTypeOK, NEW table \in {Patterns, Facts}
  PROVE  /\ ActiveRows(table) \subseteq StoredRow /\ IsFiniteSet(ActiveRows(table))
         /\ Keyed(ActiveRows(table))
         /\ \A s \in ActiveRows(table) : s.row \in table
         /\ \A s \in ActiveRows(table) : \A since : Past(since) => Found(s, since)
<1> DEFINE R == {r \in table : Live(r)}
<1>1. R \subseteq Rows /\ IsFiniteSet(R)
  <2>1. R \subseteq Rows
    BY DEF Rows
  <2> HIDE DEF R
  <2> QED BY <2>1, FS_Subset, RowsAssumption
<1>2. ActiveRows(table) = {Stored(r) : r \in R}
  BY DEF ActiveRows
<1>3. \A r \in R : /\ Stored(r) \in StoredRow /\ Stored(r).row = r
                   /\ Stored(r).wording = db[r].wording /\ Stored(r).version = db[r].version
  BY <1>1 DEF Stored, StoredRow, DbTypeOK, DbRow, Live, Exists
<1>4. IsFiniteSet(ActiveRows(table))
  <2> DEFINE f == [r \in R |-> Stored(r)]
  <2>1. f \in Surjection(R, ActiveRows(table))
    BY <1>2 DEF Surjection
  <2> HIDE DEF f, R
  <2> QED BY <1>1, <2>1, FS_Surjection
<1>5. \A s \in ActiveRows(table) : s.row \in R /\ s = Stored(s.row)
  BY <1>2, <1>3
<1>6. Keyed(ActiveRows(table))
  <2> HIDE DEF R
  <2> QED BY <1>5, Zenon DEF Keyed
<1>7. ASSUME NEW s \in ActiveRows(table), NEW since, Past(since) PROVE Found(s, since)
  <2>1. s.row \in R /\ s.row \in Rows /\ s.version = db[s.row].version
        /\ s.wording = db[s.row].wording
    BY <1>1, <1>3, <1>5
  <2>2. since[s.row] <= db[s.row].version /\ db[s.row].version \in Nat
    BY <1>7, <2>1 DEF Past, DbTypeOK, DbRow
  <2> QED
    BY <2>1, <2>2 DEF Found
<1> QED
  BY <1>2, <1>3, <1>4, <1>5, <1>6, <1>7

\* One table as a read of it finds it.
LEMMA ReadFacts ==
  ASSUME DbTypeOK, NEW table \in {Patterns, Facts}
  PROVE  LET read == Scanned(ActiveRows(table)) IN
         /\ read \in Seq(StoredRow) /\ Keyed(Elements(read))
         /\ Elements(read) \subseteq ActiveRows(table)
         /\ \A s \in Elements(read) : s.row \in table
         /\ \A s \in Elements(read) : \A since : Past(since) => Found(s, since)
         /\ Cardinality(ActiveRows(table)) <= MaxCandidates =>
              Elements(read) = ActiveRows(table)
<1> DEFINE stored == ActiveRows(table)
           read == Scanned(stored)
<1>1. stored \subseteq StoredRow /\ IsFiniteSet(stored) /\ Keyed(stored)
  BY ActiveFacts
<1>2. /\ \A s \in stored : s.row \in table
      /\ \A s \in stored : \A since : Past(since) => Found(s, since)
  BY ActiveFacts
<1> HIDE DEF stored
<1>3. /\ read \in Seq(StoredRow) /\ Elements(read) \subseteq stored
      /\ Cardinality(stored) <= MaxScanned => Elements(read) = stored
  BY <1>1, ScannedFacts
<1>4. Cardinality(stored) \in Nat /\ MaxCandidates \in Nat /\ MaxScanned \in Nat
      /\ MaxCandidates <= MaxScanned
  BY <1>1, FS_CardinalityType, CapsAssumption
<1> HIDE DEF read
<1>5. Cardinality(stored) <= MaxCandidates => Elements(read) = stored
  BY <1>3, <1>4
<1>6. Keyed(Elements(read))
  BY <1>1, <1>3 DEF Keyed
<1> HIDE DEF Found, Past
<1> QED
  BY <1>2, <1>3, <1>5, <1>6 DEF stored, read

\* The cache holds what a refresh found, and a refresh what it read.
LEMMA CacheSteps ==
  ASSUME DbTypeOK, CacheTypeOK, CacheInv, UNCHANGED db,
         ReadPatterns \/ FinishRefresh \/ FailRefresh \/ TtlPasses
  PROVE  CacheTypeOK' /\ CacheInv'
<1>1. ASSUME NEW x, NEW since PROVE Found(x, since)' = Found(x, since)
  BY DEF Found, Live, Exists
<1>2. ASSUME NEW since PROVE Past(since)' = Past(since)
  BY DEF Past
<1>3. CASE ReadPatterns
  <2>1. PICK f \in refreshing :
          refreshing' = (refreshing \ {f})
                          \union {[f EXCEPT !.read = Scanned(ActiveRows(Patterns))]}
    BY <1>3 DEF ReadPatterns
  <2> DEFINE read == Scanned(ActiveRows(Patterns))
             g == [f EXCEPT !.read = read]
  <2>2. f \in RefreshType
    BY DEF CacheTypeOK
  <2>3. /\ read \in Seq(StoredRow) /\ Keyed(Elements(read))
        /\ \A s \in Elements(read) : \A since : Past(since) => Found(s, since)
    BY ReadFacts
  <2> HIDE DEF read
  <2>4. g \in RefreshType /\ g.since = f.since /\ g.read = read
    BY <2>2, <2>3 DEF RefreshType
  <2>5. refreshing' = (refreshing \ {f}) \union {g}
    BY <2>1 DEF read
  <2> HIDE DEF g
  <2>6. UNCHANGED <<cache, cacheSince>>
    BY <1>3 DEF ReadPatterns
  <2>7. CacheTypeOK'
    BY <2>4, <2>5, <2>6 DEF CacheTypeOK
  <2>8. ASSUME NEW h \in refreshing'
        PROVE  /\ Past(h.since)'
               /\ h.read # Absent => /\ Keyed(Elements(h.read))
                                     /\ \A s \in Elements(h.read) : Found(s, h.since)'
    <3> HIDE DEF Past, Found
    <3>1. Past(f.since)
      BY DEF CacheInv
    <3>2. CASE h = g
      BY <1>1, <1>2, <2>3, <2>4, <3>1, <3>2
    <3>3. CASE h \in refreshing
      BY <1>1, <1>2, <3>3 DEF CacheInv
    <3> QED
      BY <2>5, <3>2, <3>3
  <2>9. Past(cacheSince)' /\ \A s \in Elements(cache.entries) : Found(s, cacheSince)'
    BY <2>6 DEF CacheInv, Past, Found, Live, Exists
  <2> QED
    BY <2>6, <2>7, <2>8, <2>9 DEF CacheInv
<1>4. ASSUME NEW h \in refreshing
      PROVE  /\ Past(h.since)'
             /\ h.read # Absent => /\ Keyed(Elements(h.read))
                                   /\ \A s \in Elements(h.read) : Found(s, h.since)'
  <2> HIDE DEF Past, Found
  <2> QED BY <1>1, <1>2 DEF CacheInv
<1>5. CASE FinishRefresh
  <2>1. PICK f \in refreshing :
          /\ f.read # Absent
          /\ cache' = [entries |-> f.read, expired |-> FALSE]
          /\ cacheSince' = f.since
          /\ refreshing' = refreshing \ {f}
    BY <1>5 DEF FinishRefresh, Settled
  <2>2. f \in RefreshType
    BY DEF CacheTypeOK
  <2>3. f.read \in Seq(StoredRow) /\ f.since \in Moments
    BY <2>1, <2>2 DEF RefreshType
  <2>4. CacheTypeOK'
    BY <2>1, <2>3 DEF CacheTypeOK
  <2>5. cache'.entries = f.read
    BY <2>1
  <2>6. Past(cacheSince)' /\ Keyed(Elements(cache'.entries))
        /\ \A s \in Elements(cache'.entries) : Found(s, cacheSince)'
    <3>1. /\ Past(f.since)' /\ Keyed(Elements(f.read))
          /\ \A s \in Elements(f.read) : Found(s, f.since)'
      BY <1>4, <2>1
    <3> QED
      BY <2>1, <2>5, <3>1 DEF Past, Found
  <2>7. \A h \in refreshing' : h \in refreshing
    BY <2>1
  <2> HIDE DEF Past, Found
  <2> QED
    BY <1>4, <2>4, <2>6, <2>7 DEF CacheInv
<1>6. CASE FailRefresh \/ TtlPasses
  <2>1. cacheSince' = cacheSince /\ refreshing' \subseteq refreshing
        /\ (cache' = cache \/ cache' = [cache EXCEPT !.expired = TRUE])
    BY <1>6 DEF FailRefresh, TtlPasses, Settled
  <2>2. CacheTypeOK' /\ cache'.entries = cache.entries
    BY <2>1 DEF CacheTypeOK
  <2>3. Past(cacheSince)' /\ \A s \in Elements(cache.entries) : Found(s, cacheSince)'
    BY <2>1 DEF CacheInv, Past, Found, Live, Exists
  <2> HIDE DEF Past, Found
  <2> QED
    BY <1>4, <2>1, <2>2, <2>3 DEF CacheInv
<1> QED
  BY <1>3, <1>5, <1>6
-----------------------------------------------------------------------------
(* The steps of a question.                                                 *)

\* What the vector search finds is live, and says what its row says.
LEMMA HitsFacts ==
  ASSUME AdminTypeOK, NEW table \in {Patterns, Facts}
  PROVE  /\ Hits(table) \in Seq(KnowledgeItem) /\ Keyed(Elements(Hits(table)))
         /\ \A i \in Elements(Hits(table)) : i.row \in table /\ Shaped(i)
         /\ \A i \in Elements(Hits(table)) : \A since : Past(since) => Found(i, since)
<1> DEFINE R == {r \in table : Searchable(r)}
           S == {VectorItem(r) : r \in R}
           list == BySimilarity(S)
<1>1. R \subseteq Rows /\ IsFiniteSet(R)
  <2>1. R \subseteq Rows
    BY DEF Rows
  <2> HIDE DEF R
  <2> QED BY <2>1, FS_Subset, RowsAssumption
<1>2. ASSUME NEW r \in R
      PROVE  LET i == VectorItem(r) IN
             /\ i \in KnowledgeItem /\ i.row = r /\ i.wording = db[r].wording
             /\ i.version = db[r].version /\ Shaped(i) /\ Live(r)
  <2> DEFINE t == ToKnowledgeItem(Stored(r), Absent, FALSE, FALSE)
             t1 == [t EXCEPT !.raw = 0]
             t2 == [t1 EXCEPT !.sim = vectors[r].wording.sim]
             t3 == [t2 EXCEPT !.types = {"EMBEDDING"}]
  <2>1. r \in Rows /\ Live(r) /\ vectors[r] \in VectorRow
    BY <1>1 DEF Searchable, AdminTypeOK
  <2>2. Stored(r) \in StoredRow /\ Stored(r).row = r
        /\ Stored(r).wording = db[r].wording /\ Stored(r).version = db[r].version
    BY <2>1 DEF Stored, StoredRow, AdminTypeOK, DbRow, Live, Exists
  <2>3. /\ t \in KnowledgeItem /\ t.row = r /\ t.wording = db[r].wording
        /\ t.version = db[r].version /\ t.questions = t.wording.questions
        /\ t.topic = (IF t.row \in Facts THEN t.wording.topic ELSE "none")
    <3> HIDE DEF t
    <3>1. FALSE \in BOOLEAN
      OBVIOUS
    <3>2. \A safe, ambiguous \in BOOLEAN :
            LET i == ToKnowledgeItem(Stored(r), Absent, safe, ambiguous) IN
            /\ i \in KnowledgeItem
            /\ i.row = Stored(r).row /\ i.wording = Stored(r).wording
            /\ i.version = Stored(r).version
            /\ i.questions = i.wording.questions
            /\ i.topic = (IF i.row \in Facts THEN i.wording.topic ELSE "none")
      BY <2>2, ToItemFacts
    <3> QED
      BY <2>2, <3>1, <3>2 DEF t
  <2>4. VectorItem(r) = t3
    BY Zenon DEF VectorItem
  <2>5. vectors[r].wording.sim \in Nat
    BY <2>1, WordingsAssumption DEF VectorRow
  <2> HIDE DEF t
  <2>6. /\ t1 \in KnowledgeItem /\ t1.row = t.row /\ t1.wording = t.wording
        /\ t1.version = t.version /\ t1.questions = t.questions /\ t1.topic = t.topic
    BY <2>3 DEF KnowledgeItem
  <2> HIDE DEF t1
  <2>7. /\ t2 \in KnowledgeItem /\ t2.row = t.row /\ t2.wording = t.wording
        /\ t2.version = t.version /\ t2.questions = t.questions /\ t2.topic = t.topic
    BY <2>5, <2>6 DEF KnowledgeItem
  <2> HIDE DEF t2
  <2>8. /\ t3 \in KnowledgeItem /\ t3.row = t.row /\ t3.wording = t.wording
        /\ t3.version = t.version /\ t3.questions = t.questions /\ t3.topic = t.topic
    BY <2>7 DEF KnowledgeItem
  <2> HIDE DEF t3
  <2> QED
    BY <2>1, <2>3, <2>4, <2>8 DEF Shaped
<1>3. S \in SUBSET KnowledgeItem /\ \A i \in S : i.row \in R /\ i = VectorItem(i.row)
  BY <1>2
<1>4. Keyed(S)
  <2> HIDE DEF S
  <2> QED BY <1>3, Zenon DEF Keyed
<1>5. IsFiniteSet(S)
  <2> DEFINE f == [r \in R |-> VectorItem(r)]
  <2>1. f \in Surjection(R, S)
    BY DEF Surjection
  <2> HIDE DEF f, R, S
  <2> QED BY <1>1, <2>1, FS_Surjection
<1>6. Hits(table) = Prefix(list, MaxCandidates)
  BY DEF Hits
<1> HIDE DEF S
<1>7. list \in Seq(S) /\ Elements(list) = S
  BY <1>3, <1>4, <1>5, BySimilarityFacts
<1> HIDE DEF list
<1>8. MaxCandidates \in Nat
  BY CapsAssumption
<1>9. Prefix(list, MaxCandidates) \in Seq(S)
      /\ Elements(Prefix(list, MaxCandidates)) \subseteq S
  BY <1>7, <1>8, PrefixFacts
<1>10. Hits(table) \in Seq(KnowledgeItem) /\ Elements(Hits(table)) \subseteq S
  BY <1>3, <1>6, <1>9
<1>11. Keyed(Elements(Hits(table)))
  BY <1>4, <1>10 DEF Keyed
<1>12. ASSUME NEW i \in S PROVE i.row \in table /\ Shaped(i)
  BY <1>2, <1>3
<1>13. ASSUME NEW i \in S, NEW since, Past(since) PROVE Found(i, since)
  <2>1. i.row \in R /\ i.row \in Rows /\ i.version = db[i.row].version
        /\ i.wording = db[i.row].wording /\ Live(i.row)
    BY <1>1, <1>2, <1>3
  <2>2. since[i.row] <= db[i.row].version /\ db[i.row].version \in Nat
    BY <1>13, <2>1 DEF Past, AdminTypeOK, DbRow
  <2> QED
    BY <2>1, <2>2 DEF Found
<1> HIDE DEF Found, Past, Shaped
<1> QED
  BY <1>10, <1>11, <1>12, <1>13

\* What the words of a query find in one table.
LEMMA LexicalFacts ==
  ASSUME DbTypeOK, NEW table \in {Patterns, Facts}, NEW query, NEW source
  PROVE  LET found == Elements(FindMatchesFromPatterns(query, Scanned(ActiveRows(table)), source))
         IN  /\ found \in SUBSET KnowledgeItem /\ IsFiniteSet(found) /\ Keyed(found)
             /\ \A i \in found : /\ i.row \in table /\ Shaped(i) /\ i.raw = i.wording.raw
                                 /\ i.exact = IsExactMatch(i.wording, query)
             /\ \A i \in found : \A since : Past(since) => Found(i, since)
             /\ Cardinality(ActiveRows(table)) <= MaxCandidates =>
                  \A r \in table :
                    /\ Live(r) /\ db[r].wording.usable
                    /\ IsExactMatch(db[r].wording, query) \/ db[r].wording.raw > 0
                    => In(r, found)
<1> DEFINE read == Scanned(ActiveRows(table))
           items == FindMatchesFromPatterns(query, read, source)
           ambiguous == Ambiguity(query, read, source)
           safe == SafeDirect(source, read, ambiguous)
           found == Elements(items)
<1>1. /\ read \in Seq(StoredRow) /\ Keyed(Elements(read))
      /\ Elements(read) \subseteq ActiveRows(table)
      /\ \A s \in Elements(read) : s.row \in table
      /\ \A s \in Elements(read) : \A since : Past(since) => Found(s, since)
      /\ Cardinality(ActiveRows(table)) <= MaxCandidates => Elements(read) = ActiveRows(table)
  BY ReadFacts
<1> HIDE DEF read
<1>2. /\ items \in Seq(KnowledgeItem)
      /\ \A i \in found :
           \E s \in Matched(query, read) : i = ToKnowledgeItem(s, query, safe, ambiguous)
      /\ Cardinality(Elements(read)) <= MaxCandidates =>
           \A s \in Matched(query, read) : ToKnowledgeItem(s, query, safe, ambiguous) \in found
  BY <1>1, MatchesFacts
<1>3. ambiguous \in BOOLEAN /\ safe \in BOOLEAN
  BY DEF Ambiguity, SafeDirect
<1> HIDE DEF items, ambiguous, safe
<1>4. found \in SUBSET KnowledgeItem /\ IsFiniteSet(found)
  BY <1>2, ElementsFacts
<1>5. Elements(read) \subseteq StoredRow
  BY <1>1, ElementsFacts
<1>6. ASSUME NEW s \in Elements(read)
      PROVE  LET i == ToKnowledgeItem(s, query, safe, ambiguous) IN
             /\ i.row = s.row /\ i.wording = s.wording /\ i.version = s.version
             /\ i.raw = i.wording.raw /\ i.exact = IsExactMatch(i.wording, query)
             /\ i.questions = i.wording.questions
             /\ i.topic = (IF i.row \in Facts THEN i.wording.topic ELSE "none")
  <2>1. s \in StoredRow
    BY <1>5
  <2> QED
    BY <1>3, <2>1, ToItemFacts
<1>7. ASSUME NEW i \in found
      PROVE  \E s \in Elements(read) : /\ i = ToKnowledgeItem(s, query, safe, ambiguous)
                                       /\ i.row = s.row
  BY <1>2, <1>6 DEF Matched
<1> HIDE DEF found
<1>8. Keyed(found)
  <2>1. ASSUME NEW i \in found, NEW j \in found, i.row = j.row PROVE i = j
    <3>1. PICK s \in Elements(read) :
            i = ToKnowledgeItem(s, query, safe, ambiguous) /\ i.row = s.row
      BY <1>7
    <3>2. PICK t \in Elements(read) :
            j = ToKnowledgeItem(t, query, safe, ambiguous) /\ j.row = t.row
      BY <1>7
    <3>3. s = t
      BY <1>1, <2>1, <3>1, <3>2 DEF Keyed
    <3> QED
      BY <3>1, <3>2, <3>3
  <2> QED
    BY <2>1 DEF Keyed
<1>9. ASSUME NEW i \in found
      PROVE  /\ i.row \in table /\ Shaped(i) /\ i.raw = i.wording.raw
             /\ i.exact = IsExactMatch(i.wording, query)
  <2>1. PICK s \in Elements(read) :
          i = ToKnowledgeItem(s, query, safe, ambiguous) /\ i.row = s.row
    BY <1>7
  <2> QED
    BY <1>1, <1>6, <2>1 DEF Shaped
<1>10. ASSUME NEW i \in found, NEW since, Past(since) PROVE Found(i, since)
  <2>1. PICK s \in Elements(read) :
          i = ToKnowledgeItem(s, query, safe, ambiguous) /\ i.row = s.row
    BY <1>7
  <2>2. i.wording = s.wording /\ i.version = s.version
    BY <1>6, <2>1
  <2>3. Found(s, since)
    BY <1>1, <1>10
  <2> QED
    BY <2>1, <2>2, <2>3 DEF Found
<1>11. ASSUME Cardinality(ActiveRows(table)) <= MaxCandidates, NEW r \in table,
              Live(r), db[r].wording.usable,
              IsExactMatch(db[r].wording, query) \/ db[r].wording.raw > 0
       PROVE  In(r, found)
  <2>1. Stored(r) \in Elements(read)
    BY <1>1, <1>11 DEF ActiveRows
  <2>2. Stored(r).wording = db[r].wording /\ Stored(r).row = r
    BY DEF Stored
  <2>3. Stored(r) \in Matched(query, read)
    BY <1>11, <2>1, <2>2 DEF Matched
  <2>4. Cardinality(Elements(read)) <= MaxCandidates
    BY <1>1, <1>11
  <2>5. ToKnowledgeItem(Stored(r), query, safe, ambiguous) \in found
    BY <1>2, <2>3, <2>4 DEF found
  <2>6. ToKnowledgeItem(Stored(r), query, safe, ambiguous).row = r
    BY <1>6, <2>1, <2>2
  <2> QED
    BY <2>5, <2>6 DEF In
<1> HIDE DEF Found, Past, Shaped, IsExactMatch
<1>12. found = Elements(FindMatchesFromPatterns(query, Scanned(ActiveRows(table)), source))
  BY DEF found, items, read
<1> QED
  BY <1>4, <1>8, <1>9, <1>10, <1>11, <1>12
JobInv == job \in JobType /\ CollectedInv /\ CompleteInv /\ ConcludedInv

\* A question with nothing collected and nothing concluded.
Blank(j) ==
  /\ j.lexical = {} /\ j.semantic = {} /\ j.pending = {} /\ j.grounds = {}
  /\ j.said = "nothing" /\ ~j.cached /\ j.result.selected = <<>>
  /\ j.result.route # "DIRECT"

\* A question with nothing collected.
LEMMA BlankKept ==
  ASSUME DbTypeOK', job' \in JobType, Blank(job'), Past(job.since)',
         job'.pc \in {"idle", "cache", "answer"}
  PROVE  JobInv'
<1>1. IsFiniteSet({})
  BY FS_EmptySet
<1>2. Elements(<<>>) = {}
  BY DEF Elements
<1>3. CollectedInv'
  <2> HIDE DEF Past
  <2> QED BY <1>1 DEF CollectedInv, Blank, Keyed
<1>4. CompleteInv'
  BY DEF CompleteInv
<1>5. ConcludedInv'
  <2> HIDE DEF Unopposed, Small
  <2> QED BY <1>2 DEF ConcludedInv, Blank
<1> QED
  BY <1>3, <1>4, <1>5 DEF JobInv

\* The question nobody asked.
LEMMA IdleJobTyped ==
  IdleJob \in JobType /\ Blank(IdleJob) /\ IdleJob.pc = "idle"
    /\ IdleJob.since = [r \in Rows |-> 0]
<1>1. <<>> \in Seq(KnowledgeItem)
  OBVIOUS
<1>2. Undefined \in ResultType /\ Undefined.route = "none" /\ Undefined.selected = <<>>
  BY <1>1 DEF Undefined, Result, ResultType, Routes, Reasons
<1>3. [r \in Rows |-> 0] \in Moments
  BY DEF Moments
<1>4. IdleJob \in JobType
  BY <1>2, <1>3 DEF IdleJob, JobType
<1> QED
  BY <1>2, <1>4 DEF IdleJob, Blank

\* A question that comes starts from the versions of the moment.
LEMMA AskStep ==
  ASSUME DbTypeOK, Ask PROVE JobInv'
<1>1. UNCHANGED db
  BY DEF Ask
<1>2. DbTypeOK'
  BY <1>1 DEF DbTypeOK
<1> DEFINE missing == Result("LOW_CONFIDENCE", "MISSING_USER_INFORMATION", <<>>)
           since == Versions
           a1 == [IdleJob EXCEPT !.pc = "cache"]
           a2(query) == [a1 EXCEPT !.query = query]
           asked(query) == [a2(query) EXCEPT !.since = since]
           verbatim(query) == [asked(query) EXCEPT !.verbatim = TRUE]
           m1(query) == [asked(query) EXCEPT !.pc = "answer"]
           m2(query) == [m1(query) EXCEPT !.result = missing]
<1>3. PICK query \in Queries : job' \in {verbatim(query), asked(query), m2(query)}
  <2>1. PICK query \in Queries :
          LET b == [IdleJob EXCEPT !.pc = "cache", !.query = query, !.since = Versions] IN
          job' \in {[b EXCEPT !.verbatim = TRUE], b, Concluded(b, missing)}
    BY DEF Ask
  <2>2. [IdleJob EXCEPT !.pc = "cache", !.query = query, !.since = Versions] = asked(query)
    BY Zenon
  <2>3. Concluded(asked(query), missing) = m2(query)
    BY Zenon DEF Concluded
  <2> HIDE DEF asked, m2, missing
  <2> QED
    BY <2>1, <2>2, <2>3
<1>4. since \in Moments /\ Past(since)
  BY NewRefreshTyped
<1>5. missing \in ResultType /\ missing.selected = <<>> /\ missing.route = "LOW_CONFIDENCE"
  <2>1. <<>> \in Seq(KnowledgeItem)
    OBVIOUS
  <2> QED
    BY <2>1 DEF Result, ResultType, Routes, Reasons
<1> HIDE DEF since, missing
<1>6. a1 \in JobType /\ Blank(a1) /\ a1.pc = "cache"
  BY IdleJobTyped DEF JobType, Blank
<1> HIDE DEF a1
<1>7. a2(query) \in JobType /\ Blank(a2(query)) /\ a2(query).pc = "cache"
  BY <1>6 DEF JobType, Blank
<1> HIDE DEF a2
<1>8. asked(query) \in JobType /\ Blank(asked(query)) /\ asked(query).pc = "cache"
      /\ asked(query).since = since
  BY <1>4, <1>7 DEF JobType, Blank
<1> HIDE DEF asked
<1>9. verbatim(query) \in JobType /\ Blank(verbatim(query)) /\ verbatim(query).pc = "cache"
      /\ verbatim(query).since = since
  BY <1>8 DEF JobType, Blank
<1>10. m1(query) \in JobType /\ Blank(m1(query)) /\ m1(query).pc = "answer"
       /\ m1(query).since = since
  BY <1>8 DEF JobType, Blank
<1> HIDE DEF verbatim, m1
<1>11. m2(query) \in JobType /\ Blank(m2(query)) /\ m2(query).pc = "answer"
       /\ m2(query).since = since
  BY <1>5, <1>10 DEF JobType, Blank
<1> HIDE DEF m2
<1>12. job' \in JobType /\ Blank(job') /\ job'.pc \in {"cache", "answer"} /\ job'.since = since
  BY <1>3, <1>8, <1>9, <1>11
<1>13. Past(job.since)'
  <2>1. \A r \in Rows : since[r] <= db[r].version
    BY <1>4 DEF Past
  <2>2. \A r \in Rows : job'.since[r] <= db'[r].version
    BY <1>1, <1>12, <2>1
  <2> QED
    BY <2>2 DEF Past
<1> QED
  BY <1>2, <1>12, <1>13, BlankKept

\* A question that is concluded keeps the rest.
LEMMA ConcludedTyped ==
  ASSUME NEW j \in JobType, NEW result \in ResultType
  PROVE  LET c == Concluded(j, result) IN
         /\ c \in JobType /\ c.pc = "answer" /\ c.result = result
         /\ c.query = j.query /\ c.failed = j.failed /\ c.cached = j.cached
         /\ c.lexical = j.lexical /\ c.semantic = j.semantic /\ c.pending = j.pending
         /\ c.since = j.since /\ c.rivals = j.rivals /\ c.grounds = j.grounds
         /\ c.said = j.said
<1> DEFINE c1 == [j EXCEPT !.pc = "answer"]
           c2 == [c1 EXCEPT !.result = result]
<1>1. Concluded(j, result) = c2
  BY Zenon DEF Concluded
<1>2. /\ c1 \in JobType /\ c1.pc = "answer"
      /\ c1.query = j.query /\ c1.failed = j.failed /\ c1.cached = j.cached
      /\ c1.lexical = j.lexical /\ c1.semantic = j.semantic /\ c1.pending = j.pending
      /\ c1.since = j.since /\ c1.rivals = j.rivals /\ c1.grounds = j.grounds
      /\ c1.said = j.said
  BY DEF JobType
<1> HIDE DEF c1
<1>3. /\ c2 \in JobType /\ c2.pc = "answer" /\ c2.result = result
      /\ c2.query = c1.query /\ c2.failed = c1.failed /\ c2.cached = c1.cached
      /\ c2.lexical = c1.lexical /\ c2.semantic = c1.semantic /\ c2.pending = c1.pending
      /\ c2.since = c1.since /\ c2.rivals = c1.rivals /\ c2.grounds = c1.grounds
      /\ c2.said = c1.said
  BY <1>2 DEF JobType
<1> HIDE DEF c2
<1> QED
  BY <1>1, <1>2, <1>3

\* What a direct answer holds, or else nothing.
LEMMA DirectTyped ==
  ASSUME NEW items \in Seq(KnowledgeItem)
  PROVE  /\ Direct(items) \in ResultType
         /\ Direct(items).route # "DIRECT" => Direct(items).selected = <<>>
         /\ Direct(items).route = "DIRECT" =>
              /\ Direct(items) = DirectResult(items)
              /\ Direct(items).selected = <<Direct(items).selected[1]>>
              /\ Direct(items).selected[1] \in Elements(items)
<1>1. <<>> \in Seq(KnowledgeItem)
  OBVIOUS
<1>2. Undefined \in ResultType /\ Undefined.route = "none" /\ Undefined.selected = <<>>
  BY <1>1 DEF Undefined, Result, ResultType, Routes, Reasons
<1>3. CASE Direct(items) = Undefined
  BY <1>2, <1>3
<1>4. CASE Direct(items) = DirectResult(items)
  BY <1>4, DirectFacts
<1> QED
  BY <1>3, <1>4 DEF Direct

\* A list of one.
LEMMA ElementsOfOne ==
  ASSUME NEW x, NEW s, s = <<x>> PROVE Elements(s) = {x}
BY DEF Elements

\* The preset of the cache was in the snapshot.
LEMMA ReadCacheStep ==
  ASSUME DbTypeOK, CacheTypeOK, CacheInv, JobInv, ReadCache PROVE JobInv'
<1> DEFINE items == FindMatchesFromPatterns(job.query, GetAll, "ANSWER_PATTERN")
           direct == Direct(items)
           c == Concluded(job, direct)
           c1 == [c EXCEPT !.cached = TRUE]
           c2 == [c1 EXCEPT !.since = cacheSince]
           d == [job EXCEPT !.pc = "database"]
<1>1. UNCHANGED db /\ job.pc = "cache" /\ job \in JobType
  BY DEF ReadCache, JobInv
<1>2. job' = (IF direct # Undefined THEN c2 ELSE d)
  <2>1. job' = (IF direct # Undefined
                THEN [Concluded(job, direct) EXCEPT !.cached = TRUE, !.since = cacheSince]
                ELSE [job EXCEPT !.pc = "database"])
    BY DEF ReadCache
  <2>2. [Concluded(job, direct) EXCEPT !.cached = TRUE, !.since = cacheSince] = c2
    BY Zenon
  <2> QED
    BY <2>1, <2>2
<1>3. GetAll \in Seq(StoredRow) /\ Keyed(Elements(GetAll))
      /\ \A s \in Elements(GetAll) : s \in StoredRow /\ Found(s, cacheSince)
  <2>1. GetAll = <<>> \/ GetAll = cache.entries
    BY DEF GetAll
  <2>2. CASE GetAll = <<>>
    <3>1. Elements(<<>>) = {} /\ <<>> \in Seq(StoredRow)
      BY DEF Elements
    <3> QED
      BY <2>2, <3>1 DEF Keyed
  <2>3. CASE GetAll = cache.entries
    <3>1. cache.entries \in Seq(StoredRow)
      BY DEF CacheTypeOK
    <3>2. Elements(cache.entries) \subseteq StoredRow
      BY <3>1, ElementsFacts
    <3> QED
      BY <2>3, <3>1, <3>2 DEF CacheInv
  <2> QED
    BY <2>1, <2>2, <2>3
<1> DEFINE ambiguous == Ambiguity(job.query, GetAll, "ANSWER_PATTERN")
           safe == SafeDirect("ANSWER_PATTERN", GetAll, ambiguous)
<1>4. /\ items \in Seq(KnowledgeItem)
      /\ \A i \in Elements(items) :
           \E s \in Matched(job.query, GetAll) : i = ToKnowledgeItem(s, job.query, safe, ambiguous)
  BY <1>3, MatchesFacts
<1>5. ASSUME NEW i \in Elements(items) PROVE cacheSince[i.row] <= i.version
  <2>1. PICK s \in Matched(job.query, GetAll) : i = ToKnowledgeItem(s, job.query, safe, ambiguous)
    BY <1>4, <1>5
  <2>2. s \in StoredRow /\ Found(s, cacheSince)
    BY <1>3, <2>1 DEF Matched
  <2>3. ambiguous \in BOOLEAN /\ safe \in BOOLEAN
    BY DEF Ambiguity, SafeDirect
  <2> HIDE DEF ambiguous, safe
  <2>4. i.row = s.row /\ i.version = s.version
    BY <2>1, <2>2, <2>3, ToItemFacts
  <2> QED
    BY <2>2, <2>4 DEF Found
<1> HIDE DEF items
<1>6. /\ direct \in ResultType
      /\ direct.route # "DIRECT" => direct.selected = <<>>
      /\ direct.route = "DIRECT" => /\ direct.selected = <<direct.selected[1]>>
                                    /\ direct.selected[1] \in Elements(items)
  BY <1>4, DirectTyped
<1> HIDE DEF direct
<1>7. CASE direct = Undefined
  <2>1. job' = d /\ d \in JobType
    BY <1>1, <1>2, <1>7 DEF JobType
  <2>2. /\ d.pc = "database" /\ d.lexical = job.lexical /\ d.semantic = job.semantic
        /\ d.pending = job.pending /\ d.since = job.since /\ d.grounds = job.grounds
        /\ d.said = job.said /\ d.cached = job.cached /\ d.query = job.query
        /\ d.rivals = job.rivals
    BY <1>1 DEF JobType
  <2> HIDE DEF d
  <2>3. Past(job.since)'
    BY <1>1, <2>1, <2>2 DEF JobInv, CollectedInv, Past
  <2>4. CollectedInv'
    <3> HIDE DEF Past
    <3> QED BY <1>1, <2>1, <2>2, <2>3 DEF JobInv, CollectedInv
  <2>5. CompleteInv' /\ ConcludedInv'
    BY <1>1, <2>1, <2>2 DEF JobInv, CompleteInv, ConcludedInv
  <2> QED
    BY <2>1, <2>4, <2>5 DEF JobInv
<1>8. CASE direct # Undefined
  <2>1. /\ c \in JobType /\ c.pc = "answer" /\ c.result = direct
        /\ c.lexical = job.lexical /\ c.semantic = job.semantic /\ c.pending = job.pending
        /\ c.grounds = job.grounds /\ c.said = job.said
    BY <1>1, <1>6, ConcludedTyped
  <2> HIDE DEF c
  <2>2. /\ c1 \in JobType /\ c1.pc = "answer" /\ c1.result = direct /\ c1.cached
        /\ c1.lexical = job.lexical /\ c1.semantic = job.semantic /\ c1.pending = job.pending
        /\ c1.grounds = job.grounds /\ c1.said = job.said
    BY <2>1 DEF JobType
  <2> HIDE DEF c1
  <2>3. cacheSince \in Moments
    BY DEF CacheTypeOK
  <2>4. /\ c2 \in JobType /\ c2.pc = "answer" /\ c2.result = direct /\ c2.cached
        /\ c2.lexical = job.lexical /\ c2.semantic = job.semantic /\ c2.pending = job.pending
        /\ c2.grounds = job.grounds /\ c2.said = job.said /\ c2.since = cacheSince
    BY <2>2, <2>3 DEF JobType
  <2>5. job' = c2
    BY <1>2, <1>8
  <2> HIDE DEF c2
  <2>6. /\ job.lexical = {} /\ job.semantic = {} /\ job.pending = {} /\ job.grounds = {}
        /\ job.said = "nothing"
    BY <1>1 DEF JobInv, CollectedInv, ConcludedInv
  <2>7. Past(job.since)'
    <3>1. \A r \in Rows : cacheSince[r] <= db[r].version
      BY DEF CacheInv, Past
    <3>2. job'.since = cacheSince
      BY <2>4, <2>5
    <3> QED
      BY <1>1, <3>1, <3>2 DEF Past
  <2>8. CollectedInv'
    <3>1. IsFiniteSet({})
      BY FS_EmptySet
    <3> HIDE DEF Past
    <3> QED BY <2>4, <2>5, <2>6, <2>7, <3>1 DEF CollectedInv, Keyed
  <2>9. \A x \in Elements(direct.selected) : cacheSince[x.row] <= x.version
    <3>1. CASE direct.route = "DIRECT"
      <4>1. Elements(direct.selected) = {direct.selected[1]}
        BY <1>6, <3>1, ElementsOfOne
      <4> QED
        BY <1>5, <1>6, <3>1, <4>1
    <3>2. CASE direct.route # "DIRECT"
      BY <1>6, <3>2 DEF Elements
    <3> QED
      BY <3>1, <3>2
  <2>10. ConcludedInv'
    <3>1. direct.route # "DIRECT" => Elements(direct.selected) = {}
      BY <1>6 DEF Elements
    <3> HIDE DEF Unopposed, Small
    <3> QED
      BY <1>6, <2>4, <2>5, <2>6, <2>9, <3>1 DEF ConcludedInv
  <2>11. CompleteInv'
    BY <2>4, <2>5 DEF CompleteInv
  <2> QED
    BY <2>4, <2>5, <2>8, <2>10, <2>11 DEF JobInv
<1> QED
  BY <1>7, <1>8

\* The preset of the database is the only exact answer; without one, every pattern the
\* words reach is collected.
LEMMA ReadDatabaseStep ==
  ASSUME DbTypeOK, JobInv, ReadDatabase PROVE JobInv'
<1> DEFINE items == FindMatchesFromPatterns(job.query, Scanned(ActiveRows(Patterns)),
                                            "ANSWER_PATTERN")
           found == Elements(items)
           direct == Direct(items)
           rivals == {s.wording.answer : s \in
                        {s \in ActiveRows(Patterns) :
                           s.wording.usable /\ IsExactMatch(s.wording, job.query)}}
           all == {"micro", "patterns", "facts"}
           r1 == [job EXCEPT !.lexical = found]
           r2 == [r1 EXCEPT !.rivals = rivals]
           c == Concluded(r2, direct)
           s1 == [r2 EXCEPT !.pc = "sources"]
           s2 == [s1 EXCEPT !.pending = all]
<1>1. UNCHANGED db /\ job.pc = "database" /\ job \in JobType
  BY DEF ReadDatabase, Step, JobInv
<1>2. job' = (IF direct # Undefined THEN c ELSE s2)
  <2> DEFINE read == [job EXCEPT !.lexical = Authoritative(items), !.rivals = rivals]
  <2>1. job' = (IF direct # Undefined THEN Concluded(read, direct)
                ELSE [read EXCEPT !.pc = "sources", !.pending = all])
    BY DEF ReadDatabase, Step
  <2>2. read = r2
    BY Zenon DEF Authoritative
  <2>3. [r2 EXCEPT !.pc = "sources", !.pending = all] = s2
    BY Zenon
  <2> HIDE DEF read, r2, s2, direct
  <2> QED
    BY <2>1, <2>2, <2>3
<1>3. /\ found \in SUBSET KnowledgeItem /\ IsFiniteSet(found) /\ Keyed(found)
      /\ \A i \in found : /\ i.row \in Patterns /\ Shaped(i) /\ i.raw = i.wording.raw
                          /\ i.exact = IsExactMatch(i.wording, job.query)
      /\ \A i \in found : \A since : Past(since) => Found(i, since)
      /\ Cardinality(ActiveRows(Patterns)) <= MaxCandidates =>
           \A r \in Patterns :
             /\ Live(r) /\ db[r].wording.usable
             /\ IsExactMatch(db[r].wording, job.query) \/ db[r].wording.raw > 0
             => In(r, found)
  BY LexicalFacts
<1>4. items \in Seq(KnowledgeItem)
  <2>1. Scanned(ActiveRows(Patterns)) \in Seq(StoredRow)
        /\ Keyed(Elements(Scanned(ActiveRows(Patterns))))
    BY ReadFacts
  <2> QED
    BY <2>1, MatchesFacts
<1>5. /\ direct \in ResultType
      /\ direct.route # "DIRECT" => direct.selected = <<>>
      /\ direct.route = "DIRECT" => /\ direct = DirectResult(items)
                                    /\ direct.selected = <<direct.selected[1]>>
                                    /\ direct.selected[1] \in found
  BY <1>4, DirectTyped
<1>6. direct.route = "DIRECT" => Cardinality(rivals) = 1
  <2>1. /\ ActiveRows(Patterns) \subseteq StoredRow /\ IsFiniteSet(ActiveRows(Patterns))
        /\ Keyed(ActiveRows(Patterns))
    BY ActiveFacts
  <2> QED
    BY <1>5, <2>1, DirectUnique
<1>7. rivals \in SUBSET {w.answer : w \in AllWordings}
  <2>1. ActiveRows(Patterns) \subseteq StoredRow
    BY ActiveFacts
  <2> QED
    BY <2>1 DEF StoredRow
<1> HIDE DEF items, found, direct, rivals
<1>8. /\ job.lexical = {} /\ job.semantic = {} /\ job.pending = {} /\ job.grounds = {}
      /\ job.said = "nothing" /\ ~job.cached /\ Past(job.since)
  BY <1>1 DEF JobInv, CollectedInv, ConcludedInv
<1>9. /\ r1 \in JobType /\ r1.lexical = found /\ r1.semantic = {} /\ r1.pending = {}
      /\ r1.grounds = {} /\ r1.said = "nothing" /\ ~r1.cached /\ r1.since = job.since
      /\ r1.query = job.query
  BY <1>1, <1>3, <1>8 DEF JobType
<1> HIDE DEF r1
<1>10. /\ r2 \in JobType /\ r2.lexical = found /\ r2.semantic = {} /\ r2.pending = {}
       /\ r2.grounds = {} /\ r2.said = "nothing" /\ ~r2.cached /\ r2.since = job.since
       /\ r2.query = job.query /\ r2.rivals = rivals
  BY <1>7, <1>9 DEF JobType
<1> HIDE DEF r2
<1>11. \A i \in found : Found(i, job.since)
  BY <1>3, <1>8
<1>12. ASSUME NEW i, NEW since PROVE Found(i, since)' = Found(i, since)
  BY <1>1 DEF Found, Live, Exists
<1>13. ASSUME NEW since PROVE Past(since)' = Past(since)
  BY <1>1 DEF Past
<1>14. ASSUME job' \in JobType, job'.lexical = found, job'.semantic = {}, ~job'.cached,
              job'.since = job.since, job'.query = job.query,
              job'.pc \in {"answer", "sources"}
       PROVE  CollectedInv'
  <2>1. Past(job.since)'
    BY <1>1, <1>8, <1>14 DEF Past
  <2>2. \A i \in found : Found(i, job.since)'
    BY <1>1, <1>11, <1>14 DEF Found, Live, Exists
  <2>3. IsFiniteSet({})
    BY FS_EmptySet
  <2> HIDE DEF Found, Past, Shaped, IsExactMatch
  <2>4. Keyed({})
    BY DEF Keyed
  <2> QED
    BY <1>3, <1>14, <2>1, <2>2, <2>3, <2>4 DEF CollectedInv, Shaped
<1>15. CASE direct # Undefined
  <2>1. job' = c
    BY <1>2, <1>15
  <2>2. /\ c \in JobType /\ c.pc = "answer" /\ c.result = direct /\ c.query = job.query
        /\ c.lexical = found /\ c.semantic = {} /\ c.pending = {} /\ ~c.cached
        /\ c.since = job.since /\ c.rivals = rivals /\ c.grounds = {} /\ c.said = "nothing"
    BY <1>5, <1>10, ConcludedTyped
  <2> HIDE DEF c
  <2>3. CollectedInv'
    BY <1>14, <2>1, <2>2
  <2>4. CompleteInv'
    BY <2>1, <2>2 DEF CompleteInv
  <2>5. \A x \in Elements(direct.selected) : job.since[x.row] <= x.version
    <3>1. CASE direct.route = "DIRECT"
      <4>1. Elements(direct.selected) = {direct.selected[1]}
        BY <1>5, <3>1, ElementsOfOne
      <4> QED
        BY <1>5, <1>11, <3>1, <4>1 DEF Found
    <3>2. CASE direct.route # "DIRECT"
      BY <1>5, <3>2 DEF Elements
    <3> QED
      BY <3>1, <3>2
  <2>6. ConcludedInv'
    <3>1. direct.route # "DIRECT" => Elements(direct.selected) = {}
      BY <1>5 DEF Elements
    <3> HIDE DEF Unopposed, Small
    <3> QED
      BY <1>5, <1>6, <2>1, <2>2, <2>5, <3>1 DEF ConcludedInv
  <2> QED
    BY <2>1, <2>2, <2>3, <2>4, <2>6 DEF JobInv
<1>16. CASE direct = Undefined
  <2>1. job' = s2
    BY <1>2, <1>16
  <2>2. /\ s1 \in JobType /\ s1.pc = "sources" /\ s1.query = job.query
        /\ s1.lexical = found /\ s1.semantic = {} /\ ~s1.cached
        /\ s1.since = job.since /\ s1.grounds = {} /\ s1.said = "nothing"
    BY <1>10 DEF JobType
  <2> HIDE DEF s1
  <2>3. /\ s2 \in JobType /\ s2.pc = "sources" /\ s2.query = job.query
        /\ s2.lexical = found /\ s2.semantic = {} /\ ~s2.cached /\ s2.pending = all
        /\ s2.since = job.since /\ s2.grounds = {} /\ s2.said = "nothing"
    BY <2>2 DEF JobType
  <2> HIDE DEF s2
  <2>4. CollectedInv'
    BY <1>14, <2>1, <2>3
  <2>5. CompleteInv'
    <3> SUFFICES ASSUME Small', NEW r \in Rows, Reached(r)', r \in Patterns
                 PROVE  In(r, found)
      BY <2>1, <2>3 DEF CompleteInv
    <3>1. ActiveRows(Patterns)' = ActiveRows(Patterns)
      BY <1>1 DEF ActiveRows, Stored, Live, Exists
    <3>2. Cardinality(ActiveRows(Patterns)) <= MaxCandidates
      BY <3>1 DEF Small
    <3>3. /\ Live(r) /\ db[r].wording.usable
          /\ IsExactMatch(db[r].wording, job.query) \/ db[r].wording.raw > 0
      BY <1>1, <2>1, <2>3 DEF Reached, Live, Exists
    <3> QED
      BY <1>3, <3>2, <3>3
  <2>6. ConcludedInv'
    BY <2>1, <2>3 DEF ConcludedInv
  <2> QED
    BY <2>1, <2>3, <2>4, <2>5, <2>6 DEF JobInv
<1> QED
  BY <1>15, <1>16

\* What a source brings a question, or fails to bring it.
Collects ==
  /\ UNCHANGED db /\ job' \in JobType /\ job'.pc = "sources"
  /\ job'.query = job.query /\ job'.since = job.since
  /\ job'.grounds = {} /\ job'.said = "nothing" /\ Past(job.since)

\* A source that adds live items, and misses none while nothing changes.
LEMMA CollectsInv ==
  ASSUME Collects,
         IsFiniteSet(job'.lexical), IsFiniteSet(job'.semantic),
         Keyed(job'.lexical), Keyed(job'.semantic),
         \A i \in job'.lexical : /\ Found(i, job.since) /\ Shaped(i) /\ i.raw = i.wording.raw
                                 /\ i.exact = IsExactMatch(i.wording, job.query),
         \A i \in job'.semantic : Found(i, job.since) /\ Shaped(i),
         "micro" \in job'.pending => \A i \in job'.lexical : i.row \in Patterns,
         "patterns" \in job'.pending => \A i \in job'.semantic : i.row \in Facts,
         "facts" \in job'.pending => \A i \in job'.semantic : i.row \in Patterns,
         ~job'.failed /\ job.since = Versions /\ Small =>
           \A r \in Rows : Reached(r) /\ (r \in Patterns \/ "micro" \notin job'.pending) =>
                             In(r, job'.lexical)
  PROVE  JobInv'
<1>1. Past(job.since)'
  BY DEF Collects, Past
<1>2. \A i \in job'.lexical : Found(i, job.since)'
  BY DEF Collects, Found, Live, Exists
<1>3. \A i \in job'.semantic : Found(i, job.since)'
  BY DEF Collects, Found, Live, Exists
<1>4. CollectedInv'
  <2>1. /\ job'.pc = "sources" /\ job'.query = job.query
    BY DEF Collects
  <2> HIDE DEF Found, Past, IsExactMatch
  <2> QED
    BY <1>1, <1>2, <1>3, <2>1 DEF CollectedInv, Shaped
<1>5. CompleteInv'
  <2>1. \A t \in {Patterns, Facts} : ActiveRows(t)' = ActiveRows(t)
    BY DEF Collects, ActiveRows, Stored, Live, Exists
  <2>2. Small' = Small
    BY <2>1 DEF Small
  <2>3. \A r \in Rows : Reached(r)' = Reached(r)
    BY DEF Collects, Reached, Live, Exists
  <2>4. Versions' = Versions /\ job'.since = job.since
    BY DEF Collects, Versions
  <2> QED
    BY <2>2, <2>3, <2>4 DEF CompleteInv
<1>6. ConcludedInv'
  BY DEF ConcludedInv, Collects
<1> QED
  BY <1>4, <1>5, <1>6 DEF JobInv, Collects

\* A source that fails.
LEMMA FailSteps ==
  ASSUME JobInv, DatabaseFails \/ MicroFails \/ SemanticFails PROVE JobInv'
<1> DEFINE all == {"micro", "patterns", "facts"}
<1>1. job \in JobType /\ UNCHANGED db
  BY DEF JobInv, DatabaseFails, MicroFails, SemanticFails, Step
<1>2. job.pc \in {"database", "sources"}
  BY DEF DatabaseFails, MicroFails, SemanticFails
<1>3. job.grounds = {} /\ job.said = "nothing" /\ Past(job.since)
  BY <1>2 DEF JobInv, ConcludedInv, CollectedInv
<1>4. CASE DatabaseFails
  <2> DEFINE d1 == [job EXCEPT !.pc = "sources"]
             d2 == [d1 EXCEPT !.failed = TRUE]
             d3 == [d2 EXCEPT !.pending = all]
  <2>1. job' = d3
    <3>1. job' = [job EXCEPT !.pc = "sources", !.failed = TRUE, !.pending = all]
      BY <1>4 DEF DatabaseFails, Step
    <3> QED
      BY <3>1, Zenon
  <2>2. /\ d1 \in JobType /\ d1.pc = "sources" /\ d1.query = job.query
        /\ d1.lexical = job.lexical /\ d1.semantic = job.semantic
        /\ d1.since = job.since /\ d1.grounds = job.grounds /\ d1.said = job.said
    BY <1>1 DEF JobType
  <2> HIDE DEF d1
  <2>3. /\ d2 \in JobType /\ d2.pc = "sources" /\ d2.query = job.query /\ d2.failed
        /\ d2.lexical = job.lexical /\ d2.semantic = job.semantic
        /\ d2.since = job.since /\ d2.grounds = job.grounds /\ d2.said = job.said
    BY <2>2 DEF JobType
  <2> HIDE DEF d2
  <2>4. /\ d3 \in JobType /\ d3.pc = "sources" /\ d3.query = job.query /\ d3.failed
        /\ d3.lexical = job.lexical /\ d3.semantic = job.semantic
        /\ d3.since = job.since /\ d3.grounds = job.grounds /\ d3.said = job.said
    BY <2>3 DEF JobType
  <2> HIDE DEF d3
  <2>5. Collects
    BY <1>1, <1>3, <2>1, <2>4 DEF Collects
  <2>6. job.lexical = {} /\ job.semantic = {}
    BY <1>4 DEF JobInv, CollectedInv, DatabaseFails
  <2>7. IsFiniteSet({})
    BY FS_EmptySet
  <2> QED
    BY <2>1, <2>4, <2>5, <2>6, <2>7, CollectsInv DEF Keyed
<1>5. CASE MicroFails
  <2> DEFINE p == job.pending \ {"micro"}
             d1 == [job EXCEPT !.pending = p]
             d2 == [d1 EXCEPT !.failed = TRUE]
  <2>1. job' = d2 /\ job.pc = "sources"
    <3>1. job' = [job EXCEPT !.pending = @ \ {"micro"}, !.failed = TRUE] /\ job.pc = "sources"
      BY <1>5 DEF MicroFails, Step
    <3> QED
      BY <3>1, Zenon
  <2>2. p \in SUBSET all /\ "micro" \notin p /\ p \subseteq job.pending
    BY <1>1 DEF JobType
  <2> HIDE DEF p
  <2>3. /\ d1 \in JobType /\ d1.pc = "sources" /\ d1.query = job.query
        /\ d1.lexical = job.lexical /\ d1.semantic = job.semantic /\ d1.pending = p
        /\ d1.since = job.since /\ d1.grounds = job.grounds /\ d1.said = job.said
    BY <1>1, <2>1, <2>2 DEF JobType
  <2> HIDE DEF d1
  <2>4. /\ d2 \in JobType /\ d2.pc = "sources" /\ d2.query = job.query /\ d2.failed
        /\ d2.lexical = job.lexical /\ d2.semantic = job.semantic /\ d2.pending = p
        /\ d2.since = job.since /\ d2.grounds = job.grounds /\ d2.said = job.said
    BY <2>3 DEF JobType
  <2> HIDE DEF d2
  <2>5. Collects
    BY <1>1, <1>3, <2>1, <2>4 DEF Collects
  <2>6. /\ IsFiniteSet(job.lexical) /\ IsFiniteSet(job.semantic)
        /\ Keyed(job.lexical) /\ Keyed(job.semantic)
        /\ \A i \in job.lexical : /\ Found(i, job.since) /\ Shaped(i) /\ i.raw = i.wording.raw
                                  /\ i.exact = IsExactMatch(i.wording, job.query)
        /\ \A i \in job.semantic : Found(i, job.since) /\ Shaped(i)
        /\ "patterns" \in job.pending => \A i \in job.semantic : i.row \in Facts
        /\ "facts" \in job.pending => \A i \in job.semantic : i.row \in Patterns
    BY DEF JobInv, CollectedInv
  <2> HIDE DEF Found, Shaped, IsExactMatch, Collects
  <2> QED
    BY <2>1, <2>2, <2>4, <2>5, <2>6, CollectsInv
<1>6. CASE SemanticFails
  <2> DEFINE p == job.pending \ {"patterns", "facts"}
             d1 == [job EXCEPT !.pending = p]
             d2 == [d1 EXCEPT !.semantic = {}]
             d3 == [d2 EXCEPT !.failed = TRUE]
  <2>1. job' = d3 /\ job.pc = "sources"
    <3>1. job' = [job EXCEPT !.pending = @ \ {"patterns", "facts"}, !.semantic = {},
                             !.failed = TRUE] /\ job.pc = "sources"
      BY <1>6 DEF SemanticFails, Step
    <3> QED
      BY <3>1, Zenon
  <2>2. p \in SUBSET all /\ "patterns" \notin p /\ "facts" \notin p /\ p \subseteq job.pending
    BY <1>1 DEF JobType
  <2> HIDE DEF p
  <2>3. /\ d1 \in JobType /\ d1.pc = "sources" /\ d1.query = job.query
        /\ d1.lexical = job.lexical /\ d1.pending = p
        /\ d1.since = job.since /\ d1.grounds = job.grounds /\ d1.said = job.said
    BY <1>1, <2>1, <2>2 DEF JobType
  <2> HIDE DEF d1
  <2>4. /\ d2 \in JobType /\ d2.pc = "sources" /\ d2.query = job.query
        /\ d2.lexical = job.lexical /\ d2.semantic = {} /\ d2.pending = p
        /\ d2.since = job.since /\ d2.grounds = job.grounds /\ d2.said = job.said
    BY <2>3 DEF JobType
  <2> HIDE DEF d2
  <2>5. /\ d3 \in JobType /\ d3.pc = "sources" /\ d3.query = job.query /\ d3.failed
        /\ d3.lexical = job.lexical /\ d3.semantic = {} /\ d3.pending = p
        /\ d3.since = job.since /\ d3.grounds = job.grounds /\ d3.said = job.said
    BY <2>4 DEF JobType
  <2> HIDE DEF d3
  <2>6. Collects
    BY <1>1, <1>3, <2>1, <2>5 DEF Collects
  <2>7. /\ IsFiniteSet(job.lexical) /\ Keyed(job.lexical)
        /\ \A i \in job.lexical : /\ Found(i, job.since) /\ Shaped(i) /\ i.raw = i.wording.raw
                                  /\ i.exact = IsExactMatch(i.wording, job.query)
        /\ "micro" \in job.pending => \A i \in job.lexical : i.row \in Patterns
    BY DEF JobInv, CollectedInv
  <2>8. IsFiniteSet({}) /\ Keyed({})
    BY FS_EmptySet DEF Keyed
  <2> HIDE DEF Found, Shaped, IsExactMatch, Collects
  <2> QED
    BY <2>1, <2>2, <2>5, <2>6, <2>7, <2>8, CollectsInv
<1> QED
  BY <1>4, <1>5, <1>6

\* Rows of one table beside rows of the other.
LEMMA KeyedUnion ==
  ASSUME NEW S, NEW T, Keyed(S), Keyed(T), NEW A, NEW B,
         \A s \in S : s.row \in A, \A t \in T : t.row \in B, A \intersect B = {}
  PROVE  Keyed(S \union T)
BY DEF Keyed

\* The micro knowledge adds every fact the words reach.
LEMMA ReadMicroStep ==
  ASSUME DbTypeOK, JobInv, ReadMicro PROVE JobInv'
<1> DEFINE found == Elements(FindMatchesFromPatterns(job.query, Scanned(ActiveRows(Facts)),
                                                     "MICRO_KNOWLEDGE"))
           p == job.pending \ {"micro"}
           l == job.lexical \union found
           d1 == [job EXCEPT !.pending = p]
           d2 == [d1 EXCEPT !.lexical = l]
<1>1. /\ job \in JobType /\ UNCHANGED db /\ job.pc = "sources" /\ "micro" \in job.pending
      /\ job.grounds = {} /\ job.said = "nothing" /\ Past(job.since)
  BY DEF JobInv, ReadMicro, Step, ConcludedInv, CollectedInv
<1>2. job' = d2
  <2>1. job' = [job EXCEPT !.pending = @ \ {"micro"}, !.lexical = @ \union found]
    BY DEF ReadMicro, Step
  <2> HIDE DEF found
  <2> QED
    BY <2>1, Zenon
<1>3. /\ found \in SUBSET KnowledgeItem /\ IsFiniteSet(found) /\ Keyed(found)
      /\ \A i \in found : /\ i.row \in Facts /\ Shaped(i) /\ i.raw = i.wording.raw
                          /\ i.exact = IsExactMatch(i.wording, job.query)
      /\ \A i \in found : \A since : Past(since) => Found(i, since)
      /\ Cardinality(ActiveRows(Facts)) <= MaxCandidates =>
           \A r \in Facts :
             /\ Live(r) /\ db[r].wording.usable
             /\ IsExactMatch(db[r].wording, job.query) \/ db[r].wording.raw > 0
             => In(r, found)
  BY LexicalFacts
<1> HIDE DEF found
<1>4. p \in SUBSET {"micro", "patterns", "facts"} /\ "micro" \notin p /\ p \subseteq job.pending
  BY <1>1 DEF JobType
<1> HIDE DEF p
<1>5. /\ IsFiniteSet(job.lexical) /\ IsFiniteSet(job.semantic)
      /\ Keyed(job.lexical) /\ Keyed(job.semantic)
      /\ \A i \in job.lexical : /\ Found(i, job.since) /\ Shaped(i) /\ i.raw = i.wording.raw
                                /\ i.exact = IsExactMatch(i.wording, job.query)
      /\ \A i \in job.semantic : Found(i, job.since) /\ Shaped(i)
      /\ "patterns" \in job.pending => \A i \in job.semantic : i.row \in Facts
      /\ "facts" \in job.pending => \A i \in job.semantic : i.row \in Patterns
      /\ \A i \in job.lexical : i.row \in Patterns
  BY <1>1 DEF JobInv, CollectedInv
<1>6. l \in SUBSET KnowledgeItem /\ IsFiniteSet(l) /\ Keyed(l)
  <2>1. IsFiniteSet(l)
    BY <1>3, <1>5, FS_Union
  <2>2. Keyed(l)
    BY <1>3, <1>5, KeyedUnion, RowsAssumption
  <2> QED
    BY <1>1, <1>3, <2>1, <2>2 DEF JobType
<1>7. \A i \in l : /\ Found(i, job.since) /\ Shaped(i) /\ i.raw = i.wording.raw
                   /\ i.exact = IsExactMatch(i.wording, job.query)
  <2> HIDE DEF Found, Shaped, IsExactMatch, Past
  <2> QED BY <1>1, <1>3, <1>5
<1>8. ASSUME ~job.failed, job.since = Versions, Small, NEW r \in Rows, Reached(r)
      PROVE  In(r, l)
  <2>1. CASE r \in Patterns
    <3>1. In(r, job.lexical)
      BY <1>1, <1>8, <2>1 DEF JobInv, CompleteInv
    <3> QED
      BY <3>1 DEF In
  <2>2. CASE r \in Facts
    <3>1. Cardinality(ActiveRows(Facts)) <= MaxCandidates
      BY <1>8 DEF Small
    <3>2. /\ Live(r) /\ db[r].wording.usable
          /\ IsExactMatch(db[r].wording, job.query) \/ db[r].wording.raw > 0
      BY <1>8 DEF Reached
    <3>3. In(r, found)
      BY <1>3, <2>2, <3>1, <3>2
    <3> QED
      BY <3>3 DEF In
  <2> QED
    BY <2>1, <2>2 DEF Rows
<1> HIDE DEF l
<1>9. /\ d1 \in JobType /\ d1.pc = "sources" /\ d1.query = job.query /\ d1.failed = job.failed
      /\ d1.semantic = job.semantic /\ d1.pending = p
      /\ d1.since = job.since /\ d1.grounds = {} /\ d1.said = "nothing"
  BY <1>1, <1>4 DEF JobType
<1> HIDE DEF d1
<1>10. /\ d2 \in JobType /\ d2.pc = "sources" /\ d2.query = job.query /\ d2.failed = job.failed
       /\ d2.semantic = job.semantic /\ d2.pending = p /\ d2.lexical = l
       /\ d2.since = job.since /\ d2.grounds = {} /\ d2.said = "nothing"
  BY <1>6, <1>9 DEF JobType
<1> HIDE DEF d2
<1>11. Collects
  BY <1>1, <1>2, <1>10 DEF Collects
<1> HIDE DEF Found, Shaped, IsExactMatch, Collects, Reached, Small
<1> QED
  BY <1>2, <1>4, <1>5, <1>6, <1>7, <1>8, <1>10, <1>11, CollectsInv

\* The vector searches add live items.
LEMMA SemanticSteps ==
  ASSUME AdminTypeOK, JobInv,
         SemanticSearch("patterns", PatternHits) \/ SemanticSearch("facts", FactHits)
  PROVE  JobInv'
<1>1. ASSUME NEW source, NEW table \in {Patterns, Facts}, NEW rest,
             \/ source = "patterns" /\ table = Patterns /\ rest = Facts
             \/ source = "facts" /\ table = Facts /\ rest = Patterns,
             SemanticSearch(source, Hits(table))
      PROVE  JobInv'
  <2> DEFINE found == Elements(Hits(table))
             p == job.pending \ {source}
             l == job.semantic \union found
             d1 == [job EXCEPT !.pending = p]
             d2 == [d1 EXCEPT !.semantic = l]
  <2>1. /\ job \in JobType /\ UNCHANGED db /\ job.pc = "sources" /\ source \in job.pending
        /\ job.grounds = {} /\ job.said = "nothing" /\ Past(job.since)
    BY <1>1 DEF JobInv, SemanticSearch, Step, ConcludedInv, CollectedInv
  <2>2. job' = d2
    <3>1. job' = [job EXCEPT !.pending = @ \ {source}, !.semantic = @ \union found]
      BY <1>1 DEF SemanticSearch, Step
    <3> HIDE DEF found
    <3> QED
      BY <3>1, Zenon
  <2>3. /\ Hits(table) \in Seq(KnowledgeItem) /\ Keyed(found)
        /\ \A i \in found : i.row \in table /\ Shaped(i)
        /\ \A i \in found : \A since : Past(since) => Found(i, since)
    BY HitsFacts
  <2>4. found \in SUBSET KnowledgeItem /\ IsFiniteSet(found)
    BY <2>3, ElementsFacts
  <2> HIDE DEF found
  <2>5. p \in SUBSET {"micro", "patterns", "facts"} /\ source \notin p
        /\ p \subseteq job.pending /\ ("micro" \in p <=> "micro" \in job.pending)
    BY <1>1, <2>1 DEF JobType
  <2> HIDE DEF p
  <2>6. /\ IsFiniteSet(job.lexical) /\ IsFiniteSet(job.semantic)
        /\ Keyed(job.lexical) /\ Keyed(job.semantic)
        /\ \A i \in job.lexical : /\ Found(i, job.since) /\ Shaped(i) /\ i.raw = i.wording.raw
                                  /\ i.exact = IsExactMatch(i.wording, job.query)
        /\ \A i \in job.semantic : Found(i, job.since) /\ Shaped(i)
        /\ "micro" \in job.pending => \A i \in job.lexical : i.row \in Patterns
        /\ "patterns" \in job.pending => \A i \in job.semantic : i.row \in Facts
        /\ "facts" \in job.pending => \A i \in job.semantic : i.row \in Patterns
    BY DEF JobInv, CollectedInv
  <2>7. \A i \in job.semantic : i.row \in rest
    BY <1>1, <2>1, <2>6
  <2>8. l \in SUBSET KnowledgeItem /\ IsFiniteSet(l) /\ Keyed(l)
    <3>1. IsFiniteSet(l)
      BY <2>4, <2>6, FS_Union
    <3>2. rest \intersect table = {}
      BY <1>1, RowsAssumption
    <3>3. Keyed(l)
      BY <2>3, <2>6, <2>7, <3>2, KeyedUnion
    <3> QED
      BY <2>1, <2>4, <3>1, <3>3 DEF JobType
  <2>9. \A i \in l : Found(i, job.since) /\ Shaped(i)
    <3> HIDE DEF Found, Shaped, Past
    <3> QED BY <2>1, <2>3, <2>6
  <2>10. /\ "patterns" \in p => \A i \in l : i.row \in Facts
         /\ "facts" \in p => \A i \in l : i.row \in Patterns
    <3>1. \A i \in found : i.row \in table
      BY <2>3
    <3>2. CASE source = "patterns"
      BY <1>1, <2>5, <2>6, <3>1, <3>2
    <3>3. CASE source = "facts"
      BY <1>1, <2>5, <2>6, <3>1, <3>3
    <3> QED
      BY <1>1, <3>2, <3>3
  <2> HIDE DEF l
  <2>11. /\ d1 \in JobType /\ d1.pc = "sources" /\ d1.query = job.query /\ d1.failed = job.failed
         /\ d1.lexical = job.lexical /\ d1.pending = p
         /\ d1.since = job.since /\ d1.grounds = {} /\ d1.said = "nothing"
    BY <2>1, <2>5 DEF JobType
  <2> HIDE DEF d1
  <2>12. /\ d2 \in JobType /\ d2.pc = "sources" /\ d2.query = job.query /\ d2.failed = job.failed
         /\ d2.semantic = l /\ d2.pending = p /\ d2.lexical = job.lexical
         /\ d2.since = job.since /\ d2.grounds = {} /\ d2.said = "nothing"
    BY <2>8, <2>11 DEF JobType
  <2> HIDE DEF d2
  <2>13. Collects
    BY <2>1, <2>2, <2>12 DEF Collects
  <2>14. ~job.failed /\ job.since = Versions /\ Small =>
           \A r \in Rows : Reached(r) /\ (r \in Patterns \/ "micro" \notin p) =>
                             In(r, job.lexical)
    BY <2>1, <2>5 DEF JobInv, CompleteInv
  <2> HIDE DEF Found, Shaped, IsExactMatch, Collects, Reached, Small
  <2> QED
    BY <2>2, <2>5, <2>6, <2>8, <2>9, <2>10, <2>12, <2>13, <2>14, CollectsInv
<1> QED
  BY <1>1 DEF PatternHits, FactHits

\* An unpaid question ends without an answer.
LEMMA RethrownStep ==
  ASSUME DbTypeOK, JobInv, EmbeddingRethrown PROVE JobInv'
<1> DEFINE d1 == [job EXCEPT !.pc = "answered"]
           d2 == [d1 EXCEPT !.said = "nothing"]
<1>1. job \in JobType /\ UNCHANGED db /\ job.pc = "sources"
  BY DEF JobInv, EmbeddingRethrown, Step
<1>2. job' = d2
  <2>1. job' = [job EXCEPT !.pc = "answered", !.said = "nothing"]
    BY DEF EmbeddingRethrown, Step
  <2> QED
    BY <2>1, Zenon
<1>3. /\ d1 \in JobType /\ d1.pc = "answered"
      /\ d1.query = job.query /\ d1.failed = job.failed /\ d1.lexical = job.lexical
      /\ d1.semantic = job.semantic /\ d1.pending = job.pending /\ d1.cached = job.cached
      /\ d1.since = job.since /\ d1.grounds = job.grounds /\ d1.rivals = job.rivals
  BY <1>1 DEF JobType
<1> HIDE DEF d1
<1>4. /\ d2 \in JobType /\ d2.pc = "answered" /\ d2.said = "nothing"
      /\ d2.query = job.query /\ d2.failed = job.failed /\ d2.lexical = job.lexical
      /\ d2.semantic = job.semantic /\ d2.pending = job.pending /\ d2.cached = job.cached
      /\ d2.since = job.since /\ d2.grounds = job.grounds /\ d2.rivals = job.rivals
  BY <1>3 DEF JobType
<1> HIDE DEF d2
<1>5. ASSUME NEW i, NEW since PROVE Found(i, since)' = Found(i, since)
  BY <1>1 DEF Found, Live, Exists
<1>6. CollectedInv'
  <2>1. Past(job.since)'
    BY <1>1, <1>2, <1>4 DEF JobInv, CollectedInv, Past
  <2>2. \A i \in job.lexical : Found(i, job.since)'
    BY <1>1, <1>2, <1>4 DEF JobInv, CollectedInv, Found, Live, Exists
  <2>3. \A i \in job.semantic : Found(i, job.since)'
    BY <1>1, <1>2, <1>4 DEF JobInv, CollectedInv, Found, Live, Exists
  <2> HIDE DEF Found, Past, Shaped, IsExactMatch
  <2> QED
    BY <1>2, <1>4, <2>1, <2>2, <2>3 DEF JobInv, CollectedInv, Shaped
<1>7. CompleteInv' /\ ConcludedInv'
  BY <1>1, <1>2, <1>4 DEF JobInv, CompleteInv, ConcludedInv
<1> QED
  BY <1>2, <1>4, <1>6, <1>7 DEF JobInv

\* The pool's evidence is opposed by nothing the words of the question reach.
LEMMA PoolUnopposed ==
  ASSUME DbTypeOK, JobInv, job.pc = "sources", job.pending = {}, ~job.failed,
         job.since = Versions, Small,
         NEW c \in Elements(UnifiedResult(job.lexical, job.semantic, job.failed).selected)
  PROVE  Unopposed(c)
<1> DEFINE lexical == AboveFloor(job.lexical)
           near == Near(job.semantic)
           merged == MergedItems(lexical, near)
           result == UnifiedResult(job.lexical, job.semantic, job.failed)
<1>1. /\ job \in JobType /\ job.lexical \in SUBSET KnowledgeItem
      /\ job.semantic \in SUBSET KnowledgeItem /\ job.failed \in BOOLEAN
  BY DEF JobInv, JobType
<1>2. /\ IsFiniteSet(job.lexical) /\ IsFiniteSet(job.semantic)
      /\ Keyed(job.lexical) /\ Keyed(job.semantic)
      /\ \A i \in job.lexical : /\ Found(i, job.since) /\ Shaped(i) /\ i.raw = i.wording.raw
                                /\ i.exact = IsExactMatch(i.wording, job.query)
      /\ \A i \in job.semantic : Found(i, job.since) /\ Shaped(i)
  BY DEF JobInv, CollectedInv
<1>3. \A i \in merged : Related(c, i) /\ c.row # i.row =>
        ~Contradict(c.wording.answer, i.wording.answer)
  BY <1>1, <1>2, UnifiedFacts
<1>4. lexical \subseteq job.lexical /\ near \subseteq job.semantic
  BY DEF AboveFloor, Near
<1> SUFFICES ASSUME NEW r \in Rows, Reached(r), r # c.row,
                    Related(c, ToKnowledgeItem(Stored(r), job.query, FALSE, FALSE))
             PROVE  ~Contradict(c.wording.answer,
                                ToKnowledgeItem(Stored(r), job.query, FALSE, FALSE).wording.answer)
  BY Zenon DEF Unopposed
<1> DEFINE item == ToKnowledgeItem(Stored(r), job.query, FALSE, FALSE)
           w == db[r].wording
<1>5. /\ item.row = r /\ item.wording = w /\ item.questions = w.questions
      /\ item.topic = (IF r \in Facts THEN w.topic ELSE "none")
  <2>1. Stored(r) \in StoredRow /\ Stored(r).row = r /\ Stored(r).wording = w
    BY DEF Stored, StoredRow, DbTypeOK, DbRow, Reached, Live, Exists
  <2>2. \A safe, ambiguous \in BOOLEAN :
          LET i == ToKnowledgeItem(Stored(r), job.query, safe, ambiguous) IN
          /\ i.row = Stored(r).row /\ i.wording = Stored(r).wording
          /\ i.questions = i.wording.questions
          /\ i.topic = (IF i.row \in Facts THEN i.wording.topic ELSE "none")
    BY <2>1, ToItemFacts
  <2>3. FALSE \in BOOLEAN
    OBVIOUS
  <2> HIDE DEF w
  <2> QED
    BY <2>1, <2>2, <2>3
<1>6. ASSUME NEW i \in job.lexical \union job.semantic, i.row = r PROVE i.wording = w
  <2>1. Found(i, job.since) /\ i \in KnowledgeItem
    BY <1>1, <1>2
  <2>2. job.since[r] = db[r].version /\ db[r].version \in Nat /\ i.version \in Nat
    BY <2>1 DEF Versions, DbTypeOK, DbRow, KnowledgeItem
  <2>3. i.version = db[r].version
    BY <1>6, <2>1, <2>2 DEF Found
  <2> QED
    BY <1>6, <2>1, <2>3 DEF Found
<1>7. In(r, job.lexical)
  BY DEF JobInv, CompleteInv
<1>8. PICK l \in job.lexical : l.row = r
  BY <1>7 DEF In
<1>9. l \in lexical
  <2>1. l.wording = w /\ l.raw = w.raw /\ l.exact = IsExactMatch(w, job.query)
    BY <1>2, <1>6, <1>8
  <2>2. IsExactMatch(w, job.query) \/ w.raw >= LexicalFloor
    BY DEF Reached
  <2> HIDE DEF w
  <2> QED
    BY <2>1, <2>2 DEF AboveFloor
<1>10. In(r, lexical) /\ In(r, lexical \union near)
  BY <1>8, <1>9 DEF In
<1> DEFINE m == Merge(r, lexical, near)
<1> HIDE DEF lexical, near
<1>11. /\ m \in KnowledgeItem /\ m.row = r
       /\ \E x \in lexical : x.row = r /\ m.wording = x.wording
       /\ \E o \in lexical \union near : /\ o.row = r /\ m.questions = o.questions
                                         /\ m.topic = o.topic
  <2>1. lexical \in SUBSET KnowledgeItem /\ near \in SUBSET KnowledgeItem
    BY <1>1, <1>4
  <2> QED
    BY <1>10, <2>1, MergeFacts
<1>12. m \in merged
  BY <1>10 DEF MergedItems, In
<1> HIDE DEF m, merged, item
<1>13. m.wording = w
  BY <1>4, <1>6, <1>11
<1>14. m.questions = w.questions /\ m.topic = (IF r \in Facts THEN w.topic ELSE "none")
  <2>1. PICK o \in lexical \union near : /\ o.row = r /\ m.questions = o.questions
                                         /\ m.topic = o.topic
    BY <1>11
  <2>2. o \in job.lexical \union job.semantic
    BY <1>4
  <2>3. o.wording = w /\ Shaped(o)
    BY <1>2, <1>6, <2>1, <2>2
  <2> HIDE DEF w
  <2> QED
    BY <2>1, <2>3 DEF Shaped
<1>15. Related(c, m)
  <2>1. Related(c, item)
    BY DEF item
  <2> HIDE DEF w
  <2> QED
    BY <1>5, <1>11, <1>13, <1>14, <2>1 DEF Related, SharedQuestion
<1>16. ~Contradict(c.wording.answer, m.wording.answer)
  BY <1>3, <1>11, <1>12, <1>15
<1> QED
  BY <1>5, <1>13, <1>16 DEF item

\* A question that is concluded or answered keeps what it has collected.
Keeps ==
  /\ UNCHANGED db /\ job' \in JobType /\ job'.pc \in {"answer", "answered"}
  /\ job'.query = job.query /\ job'.since = job.since /\ job'.failed = job.failed
  /\ job'.lexical = job.lexical /\ job'.semantic = job.semantic
  /\ job'.pending = job.pending /\ job'.cached = job.cached /\ job'.rivals = job.rivals

\* It keeps what was shown of it too.
LEMMA KeepsInv ==
  ASSUME JobInv, Keeps
  PROVE  /\ CollectedInv' /\ CompleteInv'
         /\ Versions' = Versions /\ Small' = Small /\ \A c : Unopposed(c)' = Unopposed(c)
<1>1. CollectedInv'
  <2>1. Past(job.since)'
    BY DEF Keeps, JobInv, CollectedInv, Past
  <2>2. \A i \in job.lexical : Found(i, job.since)'
    BY DEF Keeps, JobInv, CollectedInv, Found, Live, Exists
  <2>3. \A i \in job.semantic : Found(i, job.since)'
    BY DEF Keeps, JobInv, CollectedInv, Found, Live, Exists
  <2>4. job'.pc \in {"answer", "answered"} /\ job'.query = job.query
        /\ job'.lexical = job.lexical /\ job'.semantic = job.semantic
        /\ job'.pending = job.pending
    BY DEF Keeps
  <2> HIDE DEF Found, Past, Shaped, IsExactMatch
  <2> QED
    BY <2>1, <2>2, <2>3, <2>4 DEF JobInv, CollectedInv, Shaped
<1>2. CompleteInv'
  BY DEF Keeps, CompleteInv
<1>3. Versions' = Versions
  BY DEF Keeps, Versions
<1>4. \A t \in {Patterns, Facts} : ActiveRows(t)' = ActiveRows(t)
  BY DEF Keeps, ActiveRows, Stored, Live, Exists
<1>5. Small' = Small
  BY <1>4 DEF Small
<1>6. \A r \in Rows : Reached(r)' = Reached(r) /\ Stored(r)' = Stored(r)
  BY DEF Keeps, Reached, Live, Exists, Stored
<1>7. job'.query = job.query
  BY DEF Keeps
<1>8. ASSUME NEW c PROVE Unopposed(c)' = Unopposed(c)
  BY <1>6, <1>7 DEF Unopposed
<1> QED
  BY <1>1, <1>2, <1>3, <1>5, <1>8

\* What the pool chooses had not been withdrawn when the question came.
LEMMA PoolLive ==
  ASSUME JobInv,
         NEW c \in Elements(UnifiedResult(job.lexical, job.semantic, job.failed).selected)
  PROVE  job.since[c.row] <= c.version
<1> DEFINE lexical == AboveFloor(job.lexical)
           near == Near(job.semantic)
           merged == MergedItems(lexical, near)
<1>1. /\ job \in JobType /\ job.lexical \in SUBSET KnowledgeItem
      /\ job.semantic \in SUBSET KnowledgeItem /\ job.failed \in BOOLEAN
  BY DEF JobInv, JobType
<1>2. /\ IsFiniteSet(job.lexical) /\ IsFiniteSet(job.semantic)
      /\ Keyed(job.lexical) /\ Keyed(job.semantic)
      /\ \A i \in job.lexical \union job.semantic : job.since[i.row] <= i.version
  BY DEF JobInv, CollectedInv, Found
<1>3. c \in merged
  BY <1>1, <1>2, UnifiedFacts
<1>4. lexical \subseteq job.lexical /\ near \subseteq job.semantic
  BY DEF AboveFloor, Near
<1> HIDE DEF lexical, near
<1>5. PICK o \in lexical \union near : c = Merge(o.row, lexical, near)
  BY <1>3 DEF MergedItems
<1>6. In(o.row, lexical \union near)
  BY DEF In
<1>7. /\ c.row = o.row
      /\ In(o.row, lexical) => \E l \in lexical : l.row = o.row /\ c.version = l.version
      /\ ~In(o.row, lexical) => c \in near
  <2>1. lexical \in SUBSET KnowledgeItem /\ near \in SUBSET KnowledgeItem
    BY <1>1, <1>4
  <2> QED
    BY <1>5, <1>6, <2>1, MergeFacts
<1> QED
  BY <1>2, <1>4, <1>7

\* The pool concludes: its evidence is live and unopposed,
LEMMA ConcludeStep ==
  ASSUME DbTypeOK, JobInv, Conclude PROVE JobInv'
<1> DEFINE result == UnifiedResult(job.lexical, job.semantic, job.failed)
<1>1. /\ job \in JobType /\ job.pc = "sources" /\ job.pending = {} /\ UNCHANGED db
      /\ job.grounds = {} /\ job.said = "nothing" /\ job' = Concluded(job, result)
  BY DEF JobInv, ConcludedInv, Conclude, Step
<1>2. /\ result \in ResultType /\ result.route # "DIRECT"
      /\ job.failed => result.selected = <<>>
  <2>1. /\ job.lexical \in SUBSET KnowledgeItem /\ job.semantic \in SUBSET KnowledgeItem
        /\ job.failed \in BOOLEAN
    BY <1>1 DEF JobType
  <2>2. /\ IsFiniteSet(job.lexical) /\ IsFiniteSet(job.semantic)
        /\ Keyed(job.lexical) /\ Keyed(job.semantic)
    BY DEF JobInv, CollectedInv
  <2> QED
    BY <2>1, <2>2, UnifiedFacts
<1>3. \A c \in Elements(result.selected) : job.since[c.row] <= c.version
  BY PoolLive
<1>4. job.since = Versions /\ Small => \A c \in Elements(result.selected) : Unopposed(c)
  <2>1. CASE job.failed
    <3>1. Elements(<<>>) = {}
      BY DEF Elements
    <3> HIDE DEF result
    <3> QED
      BY <1>2, <2>1, <3>1
  <2>2. CASE ~job.failed
    <3>1. ASSUME job.since = Versions, Small PROVE \A c \in Elements(result.selected) : Unopposed(c)
      BY <1>1, <2>2, <3>1, PoolUnopposed
    <3> QED
      BY <3>1
  <2> QED
    BY <2>1, <2>2
<1> HIDE DEF result
<1>5. /\ Keeps /\ job'.pc = "answer" /\ job'.result = result /\ job'.grounds = {}
      /\ job'.said = "nothing"
  BY <1>1, <1>2, ConcludedTyped DEF Keeps
<1>6. /\ CollectedInv' /\ CompleteInv' /\ Versions' = Versions /\ Small' = Small
      /\ \A c : Unopposed(c)' = Unopposed(c)
  BY <1>5, KeepsInv
<1>7. job'.since = job.since /\ job' \in JobType
  BY <1>5 DEF Keeps
<1>8. ConcludedInv'
  <2> HIDE DEF Unopposed, Small, Versions
  <2> QED
    BY <1>2, <1>3, <1>4, <1>5, <1>6, <1>7 DEF ConcludedInv
<1> QED
  BY <1>6, <1>7, <1>8 DEF JobInv

\* and what is answered is part of that evidence.
LEMMA AnswerSteps ==
  ASSUME JobInv, AnswerPreset \/ AnswerGrounded \/ AnswerOtherwise PROVE JobInv'
<1>1. job \in JobType /\ job.pc = "answer"
  BY DEF JobInv, AnswerPreset, AnswerGrounded, AnswerOtherwise
<1>2. /\ job.result \in ResultType /\ Elements(job.result.selected) \subseteq KnowledgeItem
      /\ \A c \in Elements(job.result.selected) : job.since[c.row] <= c.version
  <2>1. job.result \in ResultType /\ job.result.selected \in Seq(KnowledgeItem)
    BY <1>1 DEF JobType, ResultType
  <2> QED
    BY <1>1, <2>1, ElementsFacts DEF JobInv, ConcludedInv
<1>3. ASSUME NEW how \in {"preset", "grounded", "fallback"},
             NEW items \in SUBSET Elements(job.result.selected), Says(how, items),
             how = "preset" /\ ~job.cached => Cardinality(job.rivals) = 1,
             how = "grounded" => job.result.route # "DIRECT"
      PROVE  JobInv'
  <2> DEFINE d1 == [job EXCEPT !.pc = "answered"]
             d2 == [d1 EXCEPT !.said = how]
             d3 == [d2 EXCEPT !.grounds = items]
  <2>1. job' = d3 /\ UNCHANGED db
    <3>1. job' = [job EXCEPT !.pc = "answered", !.said = how, !.grounds = items]
          /\ UNCHANGED db
      BY <1>3 DEF Says, Step
    <3> QED
      BY <3>1, Zenon
  <2>2. /\ d1 \in JobType /\ d1.pc = "answered"
        /\ d1.query = job.query /\ d1.failed = job.failed /\ d1.lexical = job.lexical
        /\ d1.semantic = job.semantic /\ d1.pending = job.pending /\ d1.cached = job.cached
        /\ d1.since = job.since /\ d1.rivals = job.rivals
    BY <1>1 DEF JobType
  <2> HIDE DEF d1
  <2>3. /\ d2 \in JobType /\ d2.pc = "answered" /\ d2.said = how
        /\ d2.query = job.query /\ d2.failed = job.failed /\ d2.lexical = job.lexical
        /\ d2.semantic = job.semantic /\ d2.pending = job.pending /\ d2.cached = job.cached
        /\ d2.since = job.since /\ d2.rivals = job.rivals
    BY <2>2 DEF JobType
  <2> HIDE DEF d2
  <2>4. /\ d3 \in JobType /\ d3.pc = "answered" /\ d3.said = how /\ d3.grounds = items
        /\ d3.query = job.query /\ d3.failed = job.failed /\ d3.lexical = job.lexical
        /\ d3.semantic = job.semantic /\ d3.pending = job.pending /\ d3.cached = job.cached
        /\ d3.since = job.since /\ d3.rivals = job.rivals
    <3>1. items \in SUBSET KnowledgeItem
      BY <1>2
    <3> QED
      BY <2>3, <3>1 DEF JobType
  <2> HIDE DEF d3
  <2>5. Keeps
    BY <2>1, <2>4 DEF Keeps
  <2>6. /\ CollectedInv' /\ CompleteInv' /\ Versions' = Versions /\ Small' = Small
        /\ \A c : Unopposed(c)' = Unopposed(c)
    BY <2>5, KeepsInv
  <2>7. how = "grounded" /\ job.since = Versions /\ Small => \A g \in items : Unopposed(g)
    BY <1>1, <1>3 DEF JobInv, ConcludedInv
  <2>8. ConcludedInv'
    <3> HIDE DEF Unopposed, Small, Versions
    <3> QED
      BY <1>2, <1>3, <2>1, <2>4, <2>6, <2>7 DEF ConcludedInv
  <2> QED
    BY <2>1, <2>4, <2>6, <2>8 DEF JobInv
<1>4. CASE AnswerPreset
  <2>1. /\ job.result.selected = <<job.result.selected[1]>>
        /\ ~job.cached => Cardinality(job.rivals) = 1
    BY <1>4 DEF AnswerPreset, JobInv, ConcludedInv
  <2>2. Elements(job.result.selected) = {job.result.selected[1]}
    BY <2>1, ElementsOfOne
  <2> QED
    BY <1>3, <1>4, <2>1, <2>2 DEF AnswerPreset
<1>5. CASE AnswerGrounded
  <2>1. PICK cited \in SUBSET Rows : Says("grounded", {i \in Usable : i.row \in cited})
    BY <1>5 DEF AnswerGrounded
  <2>2. {i \in Usable : i.row \in cited} \in SUBSET Elements(job.result.selected)
    BY DEF Usable
  <2>3. job.result.route # "DIRECT"
    BY <1>5 DEF AnswerGrounded
  <2> QED
    BY <1>3, <2>1, <2>2, <2>3
<1>6. CASE AnswerOtherwise
  BY <1>3, <1>6 DEF AnswerOtherwise
<1> QED
  BY <1>4, <1>5, <1>6

\* The dying process takes the cache, the operations and the question with it.
LEMMA RestartStep ==
  ASSUME AdminTypeOK, CacheTypeOK, CacheInv, Restart
  PROVE  AdminTypeOK' /\ CacheTypeOK' /\ CacheInv' /\ JobInv'
<1>1. /\ UNCHANGED <<db, vectors, cacheSince>> /\ model' \in Models
      /\ cache' = [entries |-> <<>>, expired |-> TRUE] /\ refreshing' = {NewRefresh(TRUE)}
      /\ ops' = [a \in Admins |-> IdleOp] /\ job' = IdleJob
  BY DEF Restart
<1>2. DbTypeOK /\ DbTypeOK'
  BY <1>1 DEF AdminTypeOK, DbTypeOK
<1>3. AdminTypeOK'
  BY <1>1, IdleTyped DEF AdminTypeOK
<1>4. /\ NewRefresh(TRUE) \in RefreshType /\ NewRefresh(TRUE).read = Absent
      /\ NewRefresh(TRUE).since = Versions /\ Past(Versions)
  BY <1>2, NewRefreshTyped
<1>5. <<>> \in Seq(StoredRow) /\ Elements(<<>>) = {}
  BY DEF Elements
<1>6. CacheTypeOK'
  BY <1>1, <1>4, <1>5 DEF CacheTypeOK
<1>7. ASSUME NEW since, Past(since) PROVE Past(since)'
  BY <1>1, <1>7 DEF Past
<1>8. CacheInv'
  <2>1. Past(cacheSince)'
    BY <1>1, <1>7 DEF CacheInv
  <2>2. Keyed(Elements(cache'.entries)) /\ Elements(cache'.entries) = {}
    BY <1>1, <1>5 DEF Keyed
  <2>3. \A f \in refreshing' : f.read = Absent /\ Past(f.since)'
    BY <1>1, <1>4, <1>7
  <2> HIDE DEF Past, Found
  <2> QED
    BY <2>1, <2>2, <2>3 DEF CacheInv
<1>9. JobInv'
  <2>1. job' \in JobType /\ Blank(job') /\ job'.pc = "idle" /\ job'.since = [r \in Rows |-> 0]
    BY <1>1, IdleJobTyped
  <2>2. \A r \in Rows : db'[r].version \in Nat
    BY <1>2 DEF DbTypeOK, DbRow
  <2>3. Past(job.since)'
    BY <2>1, <2>2 DEF Past
  <2> QED
    BY <1>2, <2>1, <2>3, BlankKept
<1> QED
  BY <1>3, <1>6, <1>8, <1>9

\* The operations that await a refresh return with it.
LEMMA SettledTyped ==
  ASSUME AdminTypeOK, NEW f, Settled(f)
  PROVE  OpsOK(ops)'
BY IdleTyped DEF Settled, AdminTypeOK, OpsOK

KnowledgeInv == AdminTypeOK /\ CacheTypeOK /\ CacheInv /\ JobInv

\* An administrator's step.
LEMMA AdminSteps ==
  ASSUME KnowledgeInv, AdminStep PROVE KnowledgeInv'
<1>1. DbTypeOK /\ DbTypeOK'
  BY DEF KnowledgeInv, AdminStep, AdminTypeOK, DbTypeOK
<1>2. CacheTypeOK' /\ CacheInv'
  BY <1>1, CacheKept DEF KnowledgeInv, AdminStep, CacheQuiet
<1>3. JobInv'
  BY <1>1, JobKept DEF KnowledgeInv, JobInv, AdminStep, CacheQuiet
<1> QED
  BY <1>2, <1>3 DEF KnowledgeInv, AdminStep

\* A step of the question.
LEMMA JobSteps ==
  ASSUME KnowledgeInv, UNCHANGED <<db, vectors, model, ops, cache, cacheSince>>,
         RefreshSame, JobInv'
  PROVE  KnowledgeInv'
<1>1. DbTypeOK /\ DbMoves
  BY DEF KnowledgeInv, AdminTypeOK, DbTypeOK, DbMoves
<1>2. AdminTypeOK'
  BY DEF KnowledgeInv, AdminTypeOK
<1>3. CacheTypeOK' /\ CacheInv'
  BY <1>1, CacheKept DEF KnowledgeInv
<1> QED
  BY <1>2, <1>3 DEF KnowledgeInv

\* Every step keeps the invariant,
LEMMA KnowledgeStep ==
  ASSUME KnowledgeInv, [KnowledgeNext]_knowledgeVars PROVE KnowledgeInv'
<1>1. DbTypeOK /\ AdminTypeOK /\ CacheTypeOK /\ CacheInv /\ JobInv
  BY DEF KnowledgeInv, AdminTypeOK, DbTypeOK
<1>2. CASE ReadPatterns \/ FinishRefresh \/ FailRefresh \/ TtlPasses
  <2>1. UNCHANGED <<db, vectors, model, job>>
    BY <1>2 DEF ReadPatterns, FinishRefresh, FailRefresh, TtlPasses, admin
  <2>2. CacheTypeOK' /\ CacheInv'
    BY <1>1, <1>2, <2>1, CacheSteps
  <2>3. OpsOK(ops)'
    <3>1. CASE UNCHANGED ops
      BY <1>1, <3>1, OpsOKHere DEF OpsOK
    <3>2. CASE \E f \in refreshing : Settled(f)
      BY <1>1, <3>2, SettledTyped
    <3> QED
      BY <1>2, <3>1, <3>2 DEF ReadPatterns, FinishRefresh, FailRefresh, TtlPasses
  <2>4. AdminTypeOK'
    BY <1>1, <2>1, <2>3 DEF AdminTypeOK, OpsOK
  <2>5. DbTypeOK' /\ DbMoves
    BY <1>1, <2>1 DEF DbTypeOK, DbMoves
  <2>6. JobInv'
    BY <1>1, <2>1, <2>5, JobKept DEF JobInv
  <2> QED
    BY <2>2, <2>4, <2>6 DEF KnowledgeInv
<1>3. CASE TimerTick
  <2>1. AdminStep
    BY <1>1, <1>3 
       DEF TimerTick, AdminStep, AdminTypeOK, DbMoves, CacheQuiet, Refresh, RefreshSame, admin
  <2> QED
    BY <2>1, AdminSteps
<1>4. ASSUME NEW a \in Admins,
             \/ CreatePatterns(a) \/ CreateFacts(a) \/ UpdatePattern(a) \/ UpdateFact(a)
             \/ ReindexPatterns(a) \/ ReindexFacts(a) \/ Backfill(a)
      PROVE  KnowledgeInv'
  BY <1>1, <1>4, StartSteps, AdminSteps
<1>5. ASSUME NEW a \in Admins, RemovePattern(a) \/ RemoveFact(a) PROVE KnowledgeInv'
  BY <1>1, <1>5, RemoveSteps, AdminSteps
<1>6. ASSUME NEW a \in Admins,
             \/ CreateRow(a) \/ UpdateRow(a) \/ UpsertVector(a) \/ FindTarget(a)
             \/ RowGone(a) \/ EmbedFails(a)
      PROVE  KnowledgeInv'
  BY <1>1, <1>6, WriteSteps, AdminSteps
<1>7. CASE Restart
  BY <1>1, <1>7, RestartStep DEF KnowledgeInv
<1>8. CASE Ask
  BY <1>1, <1>8, AskStep, JobSteps DEF Ask, admin, caching, RefreshSame
<1>9. CASE ReadCache
  BY <1>1, <1>9, ReadCacheStep, JobSteps DEF ReadCache, admin, Refresh, RefreshSame
<1>10. ASSUME NEW j, Step(j)
       PROVE  UNCHANGED <<db, vectors, model, ops, cache, cacheSince>> /\ RefreshSame
  BY <1>10 DEF Step, admin, caching, RefreshSame
<1>11. CASE ReadDatabase
  <2>1. UNCHANGED <<db, vectors, model, ops, cache, cacheSince>> /\ RefreshSame
    BY <1>10, <1>11 DEF ReadDatabase
  <2> QED
    BY <1>1, <1>11, <2>1, ReadDatabaseStep, JobSteps
<1>12. CASE DatabaseFails \/ MicroFails \/ SemanticFails
  <2>1. UNCHANGED <<db, vectors, model, ops, cache, cacheSince>> /\ RefreshSame
    BY <1>10, <1>12 DEF DatabaseFails, MicroFails, SemanticFails
  <2> QED
    BY <1>1, <1>12, <2>1, FailSteps, JobSteps
<1>13. CASE ReadMicro
  <2>1. UNCHANGED <<db, vectors, model, ops, cache, cacheSince>> /\ RefreshSame
    BY <1>10, <1>13 DEF ReadMicro
  <2> QED
    BY <1>1, <1>13, <2>1, ReadMicroStep, JobSteps
<1>14. CASE SemanticSearch("patterns", PatternHits) \/ SemanticSearch("facts", FactHits)
  <2>1. UNCHANGED <<db, vectors, model, ops, cache, cacheSince>> /\ RefreshSame
    BY <1>10, <1>14 DEF SemanticSearch
  <2> QED
    BY <1>1, <1>14, <2>1, SemanticSteps, JobSteps
<1>15. CASE EmbeddingRethrown
  <2>1. UNCHANGED <<db, vectors, model, ops, cache, cacheSince>> /\ RefreshSame
    BY <1>10, <1>15 DEF EmbeddingRethrown
  <2> QED
    BY <1>1, <1>15, <2>1, RethrownStep, JobSteps
<1>16. CASE Conclude
  <2>1. UNCHANGED <<db, vectors, model, ops, cache, cacheSince>> /\ RefreshSame
    BY <1>10, <1>16 DEF Conclude
  <2> QED
    BY <1>1, <1>16, <2>1, ConcludeStep, JobSteps
<1>17. CASE AnswerPreset \/ AnswerGrounded \/ AnswerOtherwise
  <2>1. UNCHANGED <<db, vectors, model, ops, cache, cacheSince>> /\ RefreshSame
    BY <1>10, <1>17 DEF AnswerPreset, AnswerGrounded, AnswerOtherwise, Says
  <2> QED
    BY <1>1, <1>17, <2>1, AnswerSteps, JobSteps
<1>18. CASE UNCHANGED knowledgeVars
  <2>1. AdminStep
    BY <1>1, <1>18 DEF knowledgeVars, AdminStep, AdminTypeOK, DbMoves, CacheQuiet, RefreshSame
  <2> QED
    BY <2>1, AdminSteps
<1> QED
  BY <1>2, <1>3, <1>4, <1>5, <1>6, <1>7, <1>8, <1>9, <1>11, <1>12, <1>13, <1>14, <1>15,
     <1>16, <1>17, <1>18 DEF KnowledgeNext

\* which holds at the start.
LEMMA KnowledgeStart == KnowledgeInit => KnowledgeInv
<1> SUFFICES ASSUME KnowledgeInit PROVE KnowledgeInv
  OBVIOUS
<1>1. DbTypeOK
  <2>1. NoRow \in DbRow
    BY DEF NoRow, DbRow
  <2>2. ASSUME NEW w \in Wordings
        PROVE  [wording |-> w, active |-> TRUE, version |-> 1] \in DbRow
    <3>1. w \in AllWordings
      BY DEF AllWordings
    <3> QED
      BY <3>1 DEF DbRow
  <2> QED
    BY <2>1, <2>2 DEF KnowledgeInit, DbTypeOK
<1>2. AdminTypeOK
  <2>1. vectors \in [Rows -> VectorRow \union {Absent}]
    <3>1. \A r \in Rows : Exists(r) => db[r].wording \in AllWordings
      BY <1>1 DEF DbTypeOK, DbRow, Exists
    <3> QED
      BY <3>1 DEF KnowledgeInit, VectorRow
  <2> QED
    BY <1>1, <2>1, IdleTyped DEF KnowledgeInit, AdminTypeOK, DbTypeOK
<1>3. /\ NewRefresh(TRUE) \in RefreshType /\ NewRefresh(TRUE).read = Absent
      /\ NewRefresh(TRUE).since = Versions /\ Versions \in Moments /\ Past(Versions)
  BY <1>1, NewRefreshTyped
<1>4. <<>> \in Seq(StoredRow) /\ Elements(<<>>) = {}
  BY DEF Elements
<1>5. CacheTypeOK
  BY <1>3, <1>4 DEF KnowledgeInit, CacheTypeOK
<1>6. CacheInv
  <2> HIDE DEF Past, Found
  <2> QED
    BY <1>3, <1>4 DEF KnowledgeInit, CacheInv, Keyed
<1>7. JobInv
  <2>1. job = IdleJob
    BY DEF KnowledgeInit
  <2>2. job \in JobType /\ Blank(job) /\ job.pc = "idle" /\ job.since = [r \in Rows |-> 0]
    BY <2>1, IdleJobTyped
  <2>3. Past(job.since)
    BY <1>1, <2>2 DEF Past, DbTypeOK, DbRow
  <2>4. IsFiniteSet({})
    BY FS_EmptySet
  <2>5. CollectedInv
    <3> HIDE DEF Past
    <3> QED BY <2>2, <2>3, <2>4 DEF CollectedInv, Blank, Keyed
  <2>6. CompleteInv /\ ConcludedInv
    BY <2>2 DEF CompleteInv, ConcludedInv, Blank
  <2> QED
    BY <2>2, <2>5, <2>6 DEF JobInv
<1> QED
  BY <1>2, <1>5, <1>6, <1>7 DEF KnowledgeInv

\* The types of the knowledge base, and what holds of the cache, of the rows a question
\* has collected and of what it concluded, for any rows, wordings and administrators.
THEOREM KnowledgeInvariance == KnowledgeSpec => []KnowledgeInv
<1>1. KnowledgeInv /\ [KnowledgeNext]_knowledgeVars => KnowledgeInv'
  BY KnowledgeStep
<1> QED
  BY <1>1, KnowledgeStart, PTL DEF KnowledgeSpec

\* A preset from the database was the only exact answer of all the active patterns, the
\* ones past the limits of the read too (findMatchesFromPatterns, directResult).
THEOREM DirectTheorem == KnowledgeSpec => []DirectIsUnambiguous
<1>1. KnowledgeInv => DirectIsUnambiguous
  BY DEF KnowledgeInv, JobInv, ConcludedInv, DirectIsUnambiguous
<1> QED
  BY <1>1, KnowledgeInvariance, PTL

\* What an answer stands on was neither withdrawn nor reworded before the question came,
\* or before the snapshot of the cache was asked for (runRetrieval, the pattern cache).
THEOREM EvidenceTheorem == KnowledgeSpec => []EvidenceIsLive
<1>1. KnowledgeInv => EvidenceIsLive
  BY DEF KnowledgeInv, JobInv, ConcludedInv, EvidenceIsLive
<1> QED
  BY <1>1, KnowledgeInvariance, PTL

\* A grounded answer hides no contradiction its question's words reach, while nothing
\* changed and the tables are within the limit of one search (conflicts, companions).
THEOREM ContradictionTheorem == KnowledgeSpec => []NoHiddenContradiction
<1>1. KnowledgeInv => NoHiddenContradiction
  <2> SUFFICES ASSUME KnowledgeInv, job.said = "grounded", job.since = Versions, Small,
                      NEW g \in job.grounds, NEW r \in Rows,
                      Live(r), r # g.row, db[r].wording.usable,
                      LET item == ToKnowledgeItem(Stored(r), job.query, FALSE, FALSE) IN
                        /\ item.exact \/ (item.raw > 0 /\ item.raw >= LexicalFloor)
                        /\ Related(g, item)
               PROVE  ~Contradict(g.wording.answer,
                         ToKnowledgeItem(Stored(r), job.query, FALSE, FALSE).wording.answer)
    BY Zenon DEF NoHiddenContradiction, Small
  <2> DEFINE item == ToKnowledgeItem(Stored(r), job.query, FALSE, FALSE)
  <2>1. Stored(r) \in StoredRow /\ Stored(r).wording = db[r].wording
    BY DEF KnowledgeInv, AdminTypeOK, DbRow, Live, Exists, Stored, StoredRow
  <2>2. \A safe, ambiguous \in BOOLEAN :
          LET i == ToKnowledgeItem(Stored(r), job.query, safe, ambiguous) IN
          i.wording = Stored(r).wording /\ i.raw = i.wording.raw
            /\ i.exact = IsExactMatch(Stored(r).wording, job.query)
    BY <2>1, ToItemFacts
  <2>3. item.raw = db[r].wording.raw /\ item.exact = IsExactMatch(db[r].wording, job.query)
    <3>1. FALSE \in BOOLEAN
      OBVIOUS
    <3> QED
      BY <2>1, <2>2, <3>1
  <2>4. Reached(r)
    BY <2>3 DEF Reached
  <2>5. Unopposed(g)
    BY DEF KnowledgeInv, JobInv, ConcludedInv
  <2> HIDE DEF item
  <2>6. Related(g, item)
    BY DEF item
  <2> QED
    BY <2>4, <2>5, <2>6 DEF Unopposed, item
<1> QED
  BY <1>1, KnowledgeInvariance, PTL

-----------------------------------------------------------------------------
(* A backfill.                                                              *)

\* A backfill has still to do, of the active patterns, those without a vector
\* the search can use, or has left them over, as long as nobody writes between its steps.
Pending(o) == RowsOf(o.todo)
Healing(a) ==
  ops[a].kind = "backfill" =>
    /\ ops[a].pc \in {"find", "call"} /\ ~ops[a].created
    /\ ~ops[a].disturbed /\ ~ops[a].failed =>
         /\ \A r \in Pending(ops[a]) : r \in Patterns /\ Live(r)
         /\ \A r \in Patterns : Live(r) =>
              CoverageStatus(r) = "indexed" \/ r \in Pending(ops[a]) \union ops[a].remaining
         /\ ops[a].pc = "call" => Target(a) = Item(Target(a).row)
HealingInv == events \in Nat /\ \A a \in Admins : Healing(a)

\* What a backfill leaves when it ends.
HealsAtItsEnd(a) ==
  /\ ops[a].kind = "backfill" /\ ~ops[a].disturbed /\ ~ops[a].failed
  /\ ops'[a] = IdleOp /\ events' = events
  => /\ \A r \in ActivePatterns' \ ops[a].remaining : Searchable(r)'
     /\ ops[a].remaining = {} /\ ActivePatterns' # {} => ResolveStatus' = "ok"

\* The rows of a list of things to do: its head and the rest.
LEMMA TodoFacts ==
  ASSUME NEW T, NEW s \in Seq(T), s # <<>>
  PROVE  /\ Head(s) \in T /\ Elements(s) = {Head(s)} \union Elements(Tail(s))
         /\ \A x : Elements(<<x>> \o Tail(s)) = {x} \union Elements(Tail(s))
                     /\ Head(<<x>> \o Tail(s)) = x
         /\ ~(Len(s) > 1) => Elements(s) = {Head(s)}
<1> DEFINE n == Len(s)
           t == Tail(s)
<1>1. n \in Nat /\ n >= 1 /\ DOMAIN s = 1 .. n /\ Head(s) = s[1] /\ s[1] \in T
  OBVIOUS
<1>2. t \in Seq(T) /\ Len(t) = n - 1 /\ \A i \in 1 .. n - 1 : t[i] = s[i + 1]
  OBVIOUS
<1>3. DOMAIN t = 1 .. n - 1
  BY <1>1, <1>2
<1>4. Elements(s) = {Head(s)} \union Elements(t)
  <2> HIDE DEF t, n
  <2>1. ASSUME NEW x \in Elements(s) PROVE x \in {Head(s)} \union Elements(t)
    <3>1. PICK i \in 1 .. n : x = s[i]
      BY <1>1, <2>1 DEF Elements
    <3>2. CASE i = 1
      BY <1>1, <3>1, <3>2
    <3>3. CASE i # 1
      <4>1. i - 1 \in 1 .. n - 1 /\ (i - 1) + 1 = i
        BY <1>1, <3>3
      <4>2. t[i - 1] = s[i]
        BY <1>2, <4>1
      <4> QED
        BY <1>3, <3>1, <4>1, <4>2 DEF Elements
    <3> QED
      BY <3>2, <3>3
  <2>2. ASSUME NEW x \in Elements(t) PROVE x \in Elements(s)
    <3>1. PICK i \in 1 .. n - 1 : x = t[i]
      BY <1>3, <2>2 DEF Elements
    <3>2. i + 1 \in 1 .. n /\ x = s[i + 1]
      BY <1>1, <1>2, <3>1
    <3> QED
      BY <1>1, <3>2 DEF Elements
  <2>3. Head(s) \in Elements(s)
    <3>1. 1 \in 1 .. n
      BY <1>1
    <3> QED
      BY <1>1, <3>1 DEF Elements
  <2> QED
    BY <2>1, <2>2, <2>3
<1>5. ASSUME NEW x
      PROVE  /\ Elements(<<x>> \o t) = {x} \union Elements(t)
             /\ Head(<<x>> \o t) = x
  <2> DEFINE u == <<x>> \o t
  <2>1. /\ Len(u) = n /\ DOMAIN u = 1 .. n /\ u[1] = x /\ Head(u) = x
        /\ \A i \in 1 .. n - 1 : u[i + 1] = t[i]
    <3>1. t \in Seq(T \union {x}) /\ <<x>> \in Seq(T \union {x})
      <4> HIDE DEF t
      <4> QED BY <1>2
    <3>2. t \in Seq(T \union {x}) /\ Len(t) = n - 1
      BY <1>2, <3>1
    <3> HIDE DEF t, n
    <3>3. u \in Seq(T \union {x}) /\ Len(u) = 1 + Len(t) /\ u[1] = x
      BY <3>1
    <3>4. \A i \in 1 .. Len(t) : u[i + 1] = t[i]
      BY <3>1
    <3>5. Len(u) = n
      BY <1>1, <3>2, <3>3
    <3> HIDE DEF u
    <3>6. DOMAIN u = 1 .. n /\ Head(u) = u[1]
      BY <1>1, <3>3, <3>5
    <3> QED
      BY <3>2, <3>3, <3>4, <3>5, <3>6
  <2> HIDE DEF u, t, n
  <2>2. ASSUME NEW y \in Elements(u) PROVE y \in {x} \union Elements(t)
    <3>1. PICK i \in 1 .. n : y = u[i]
      BY <2>1, <2>2 DEF Elements
    <3>2. CASE i = 1
      BY <2>1, <3>1, <3>2
    <3>3. CASE i # 1
      <4>1. i - 1 \in 1 .. n - 1 /\ (i - 1) + 1 = i
        BY <1>1, <3>3
      <4>2. u[i] = t[i - 1]
        BY <2>1, <4>1
      <4> QED
        BY <1>3, <3>1, <4>1, <4>2 DEF Elements
    <3> QED
      BY <3>2, <3>3
  <2>3. ASSUME NEW y \in Elements(t) PROVE y \in Elements(u)
    <3>1. PICK i \in 1 .. n - 1 : y = t[i]
      BY <1>3, <2>3 DEF Elements
    <3>2. i + 1 \in 1 .. n /\ y = u[i + 1]
      BY <1>1, <2>1, <3>1
    <3> QED
      BY <2>1, <3>2 DEF Elements
  <2>4. x \in Elements(u)
    <3>1. 1 \in 1 .. n
      BY <1>1
    <3> QED
      BY <2>1, <3>1 DEF Elements
  <2>5. Elements(u) = {x} \union Elements(t)
    BY <2>2, <2>3, <2>4
  <2> QED
    BY <2>1, <2>5 DEF u
<1>6. ASSUME ~(n > 1) PROVE Elements(t) = {}
  <2>1. DOMAIN t = {}
    BY <1>1, <1>3, <1>6
  <2> HIDE DEF t
  <2> QED
    BY <2>1 DEF Elements
<1> QED
  BY <1>1, <1>4, <1>5, <1>6

\* What the loops do to their operation, and that they leave the others alone.
LEMMA AdvanceFacts ==
  ASSUME NEW os, OpsOK(os), NEW a \in Admins, NEW created \in BOOLEAN, NEW failed \in BOOLEAN,
         Advance(a, os, created, failed)
  PROVE  /\ \A b \in Admins : b # a => ops'[b] = os[b]
         /\ Len(os[a].todo) > 1 =>
              /\ ops'[a].kind = os[a].kind /\ ops'[a].todo = Tail(os[a].todo)
              /\ ops'[a].created = (os[a].created \/ created)
              /\ ops'[a].failed = (os[a].failed \/ failed)
              /\ ops'[a].disturbed = os[a].disturbed
              /\ ops'[a].remaining = os[a].remaining
              /\ ops'[a].pc = (IF os[a].kind = "backfill" THEN "find" ELSE os[a].pc)
         /\ ~(Len(os[a].todo) > 1) =>
              \/ ops'[a] = IdleOp
              \/ (os[a].created \/ created) /\ ops'[a].kind = os[a].kind
<1>1. os[a] \in Operation
  BY DEF OpsOK
<1>2. CASE Len(os[a].todo) > 1
  <2> DEFINE t == Tail(os[a].todo)
  <2> HIDE DEF t
  <2>1. ops' = [os EXCEPT ![a].todo = t, ![a].created = @ \/ created,
                          ![a].failed = @ \/ failed,
                          ![a].pc = IF os[a].kind = "backfill" THEN "find" ELSE @]
    BY <1>2, Zenon DEF Advance, t
  <2> DEFINE o1 == [os[a] EXCEPT !.todo = t]
             o2 == [o1 EXCEPT !.created = os[a].created \/ created]
             o3 == [o2 EXCEPT !.failed = os[a].failed \/ failed]
             o == [o3 EXCEPT !.pc = IF os[a].kind = "backfill" THEN "find" ELSE os[a].pc]
  <2>2. ops'[a] = o
    BY <2>1, <1>1 DEF OpsOK, Operation
  <2>3. \A b \in Admins : b # a => ops'[b] = os[b]
    BY <2>1 DEF OpsOK, Operation
  <2>4. /\ o.kind = os[a].kind /\ o.todo = t
        /\ o.created = (os[a].created \/ created) /\ o.failed = (os[a].failed \/ failed)
        /\ o.disturbed = os[a].disturbed /\ o.remaining = os[a].remaining
        /\ o.pc = (IF os[a].kind = "backfill" THEN "find" ELSE os[a].pc)
    BY <1>1 DEF Operation
  <2> HIDE DEF o
  <2> QED
    BY <1>2, <2>2, <2>3, <2>4 DEF t
<1>3. CASE ~(Len(os[a].todo) > 1)
  <2> DEFINE o == [IdleOp EXCEPT !.kind = os[a].kind, !.pc = "refreshing"]
  <2>1. \/ (os[a].created \/ created) /\ ops' = [os EXCEPT ![a] = o]
        \/ ops' = [os EXCEPT ![a] = IdleOp]
    BY <1>3 DEF Advance, Ends
  <2>2. o.kind = os[a].kind
    BY DEF IdleOp
  <2> HIDE DEF o
  <2> QED
    BY <1>3, <2>1, <2>2 DEF OpsOK
<1> QED
  BY <1>2, <1>3

\* Steps that are none of this operation's.
Kept(a) == ops'[a] = ops[a] /\ UNCHANGED <<db, vectors, model>>
Spared(a) == Kept(a) \/ ops'[a] = [ops[a] EXCEPT !.disturbed = TRUE]
Heals(a) == Healing(a)' /\ HealsAtItsEnd(a)

\* What others do leaves a backfill as it was, or marks it.
LEMMA SparedHeals ==
  ASSUME AdminTypeOK, NEW a \in Admins, Healing(a), Spared(a) PROVE Heals(a)
<1>1. ops[a] \in Operation
  BY DEF AdminTypeOK
<1>2. IdleOp.kind = "idle"
  BY DEF IdleOp
<1>3. CASE Kept(a)
  <2>1. Pending(ops[a])' = Pending(ops[a])
    BY <1>3 DEF Pending, RowsOf, Kept, Elements
  <2>2. \A r : Live(r)' = Live(r) /\ CoverageStatus(r)' = CoverageStatus(r) /\ Item(r)' = Item(r)
    BY <1>3 DEF Kept, Live, Exists, CoverageStatus, Item
  <2>3. Target(a)' = Target(a)
    BY <1>3 DEF Kept, Target
  <2>4. Healing(a)'
    <3> HIDE DEF Pending, Live, CoverageStatus, Item, Target
    <3> QED BY <1>3, <2>1, <2>2, <2>3 DEF Healing, Kept
  <2> QED
    BY <1>2, <1>3, <2>4 DEF Heals, HealsAtItsEnd, Kept
<1>4. CASE ops'[a] = [ops[a] EXCEPT !.disturbed = TRUE]
  <2>1. /\ ops'[a].kind = ops[a].kind /\ ops'[a].pc = ops[a].pc
        /\ ops'[a].created = ops[a].created /\ ops'[a].disturbed
    BY <1>1, <1>4 DEF Operation
  <2> QED
    BY <1>2, <2>1 DEF Heals, Healing, HealsAtItsEnd
<1> QED
  BY <1>3, <1>4 DEF Spared

\* Nothing is asked of other operations.
LEMMA OtherKind ==
  ASSUME NEW a \in Admins, ops[a].kind # "backfill", ops'[a].kind # "backfill" PROVE Heals(a)
BY DEF Heals, Healing, HealsAtItsEnd

\* A write marks the others' operations.
LEMMA DisturbingSpares ==
  ASSUME AdminTypeOK, NEW a \in Admins, NEW b \in Admins, b # a,
         ops'[b] = Disturbing(a, ops)[b]
  PROVE  Spared(b)
BY DEF Disturbing, Spared

\* The health check of a knowledge base whose active patterns all have their vector,
\* but for those a backfill left over.
LEMMA AllCovered ==
  ASSUME NEW left,
         \A r \in Patterns : Live(r)' => CoverageStatus(r)' = "indexed" \/ r \in left
  PROVE  /\ \A r \in ActivePatterns' \ left : Searchable(r)'
         /\ left = {} /\ ActivePatterns' # {} => ResolveStatus' = "ok"
<1>1. \A r \in ActivePatterns' :
        r \in Patterns /\ Live(r)' /\ (CoverageStatus(r)' = "indexed" \/ r \in left)
  BY DEF ActivePatterns
<1>2. ASSUME NEW r \in ActivePatterns' \ left PROVE Searchable(r)'
  <2>1. Live(r)' /\ CoverageStatus(r)' = "indexed"
    BY <1>1
  <2> QED
    BY <2>1 DEF Searchable, CoverageStatus
<1>3. ASSUME left = {}, ActivePatterns' # {} PROVE ResolveStatus' = "ok"
  <2>1. Indexed' = ActivePatterns' /\ StaleVectors' = {}
    BY <1>1, <1>3 DEF Indexed, StaleVectors
  <2>2. ActivePatterns' \subseteq Rows
    BY DEF ActivePatterns, Rows
  <2>3. IsFiniteSet(ActivePatterns')
    BY <2>2, FS_Subset, RowsAssumption
  <2>4. Cardinality(Indexed') # 0
    BY <1>3, <2>1, <2>3, FS_EmptySet
  <2>5. CheckCoverage'.ok /\ CheckCoverage'.indexed # 0
    BY <1>3, <2>1, <2>4 DEF CheckCoverage
  <2> QED
    BY <2>5 DEF ResolveStatus
<1> QED
  BY <1>2, <1>3

\* Operations that start.
LEMMA StartHeals ==
  ASSUME AdminTypeOK, HealingInv, NEW a \in Admins,
         \/ CreatePatterns(a) \/ CreateFacts(a) \/ UpdatePattern(a) \/ UpdateFact(a)
         \/ ReindexPatterns(a) \/ ReindexFacts(a) \/ Backfill(a)
  PROVE  \A b \in Admins : Heals(b)
<1>1. ASSUME NEW kind, NEW pc, NEW todo, NEW data, NEW remaining,
             Start(a, kind, pc, todo, data, remaining)
      PROVE  /\ \A b \in Admins : b # a => Heals(b)
             /\ UNCHANGED <<db, vectors, model>> /\ ops[a] = IdleOp
             /\ ops'[a].kind = kind /\ ops'[a].pc = pc /\ ops'[a].todo = todo
             /\ ~ops'[a].created /\ ops'[a].remaining = remaining
  <2> DEFINE o == [IdleOp EXCEPT !.kind = kind, !.pc = pc, !.todo = todo, !.data = data,
                                 !.remaining = remaining]
  <2>1. /\ ops' = [ops EXCEPT ![a] = o] /\ UNCHANGED <<db, vectors, model>> /\ ops[a] = IdleOp
    BY <1>1 DEF Start
  <2>2. o.kind = kind /\ o.pc = pc /\ o.todo = todo /\ ~o.created /\ o.remaining = remaining
    BY DEF IdleOp
  <2> HIDE DEF o
  <2>3. ops'[a] = o /\ \A b \in Admins : b # a => ops'[b] = ops[b]
    BY <2>1 DEF AdminTypeOK
  <2>4. \A b \in Admins : b # a => Heals(b)
    BY <2>1, <2>3, SparedHeals DEF Spared, Kept, HealingInv
  <2> QED
    BY <2>1, <2>2, <2>3, <2>4
<1>2. IdleOp.kind = "idle"
  BY DEF IdleOp
<1>3. ASSUME NEW kind \in {"create", "update", "reindex"}, NEW pc, NEW todo, NEW data,
             NEW remaining, Start(a, kind, pc, todo, data, remaining)
      PROVE  \A b \in Admins : Heals(b)
  <2>1. Heals(a)
    BY <1>1, <1>2, <1>3, OtherKind
  <2> QED
    BY <1>1, <1>3, <2>1
<1>4. CASE Backfill(a)
  <2>1. PICK force \in BOOLEAN, limit \in Limits :
          Start(a, "backfill", "find",
                Batch(InOrder({Item(r) : r \in Candidates(force)}), limit), NoRow,
                Candidates(force) \ RowsOf(Batch(InOrder({Item(r) : r \in Candidates(force)}), limit)))
    BY <1>4 DEF Backfill
  <2> DEFINE R == Candidates(force)
             S == {Item(r) : r \in R}
             batch == Batch(InOrder(S), limit)
  <2>2. R \subseteq Rows /\ \A r \in R : Item(r) \in TodoItem /\ Item(r).row = r
    BY ItemTyped DEF Candidates, Rows, Live
  <2>3. IsFiniteSet(R)
    BY <2>2, FS_Subset, RowsAssumption
  <2>4. S \in SUBSET TodoItem /\ Keyed(S) /\ {i.row : i \in S} = R
    BY <2>2 DEF Keyed
  <2>5. IsFiniteSet(S)
    <3> DEFINE f == [r \in R |-> Item(r)]
    <3>1. f \in Surjection(R, S)
      BY DEF Surjection
    <3> HIDE DEF f, S, R
    <3> QED BY <2>3, <3>1, FS_Surjection
  <2>6. Start(a, "backfill", "find", batch, NoRow, R \ RowsOf(batch))
    BY <2>1
  <2> HIDE DEF S
  <2>7. RowsOf(batch) \subseteq R
    <3>1. InOrder(S) \in Seq(S) /\ Elements(InOrder(S)) = S
      BY <2>4, <2>5, InOrderFacts
    <3>2. limit \in Nat
      BY CapsAssumption
    <3>3. Elements(batch) \subseteq S
      BY <3>1, <3>2, PrefixFacts DEF Batch
    <3> HIDE DEF R, batch
    <3> QED BY <2>4, <3>3 DEF RowsOf
  <2> HIDE DEF batch
  <2>8. /\ \A b \in Admins : b # a => Heals(b)
        /\ UNCHANGED <<db, vectors, model>> /\ ops[a] = IdleOp
        /\ ops'[a].kind = "backfill" /\ ops'[a].pc = "find" /\ ops'[a].todo = batch
        /\ ~ops'[a].created /\ ops'[a].remaining = R \ RowsOf(batch)
    BY <1>1, <2>6
  <2>9. Pending(ops[a])' = RowsOf(batch)
    BY <2>8 DEF Pending, RowsOf, Elements
  <2>10. \A r : Live(r)' = Live(r) /\ CoverageStatus(r)' = CoverageStatus(r)
    BY <2>8 DEF Live, Exists, CoverageStatus
  <2>11. /\ \A r \in R : r \in Patterns /\ Live(r)
         /\ \A r \in Patterns : Live(r) => CoverageStatus(r) = "indexed" \/ r \in R
    BY DEF Candidates
  <2>12. Healing(a)'
    <3> HIDE DEF Live, CoverageStatus, Pending, R
    <3> QED BY <2>7, <2>8, <2>9, <2>10, <2>11 DEF Healing
  <2>13. Heals(a)
    BY <1>2, <2>8, <2>12 DEF Heals, HealsAtItsEnd
  <2> QED
    BY <2>8, <2>13
<1> QED
  BY <1>3, <1>4 DEF CreatePatterns, CreateFacts, UpdatePattern, UpdateFact, ReindexPatterns,
     ReindexFacts, Create, Update, Reindex

\* A row passed over, for its call failed or it is gone.
LEMMA PassedOverHeals ==
  ASSUME AdminTypeOK, HealingInv, NEW a \in Admins, ops[a].pc \in {"find", "call"},
         Advance(a, ops, FALSE, TRUE), UNCHANGED <<db, vectors, model>>,
         Event \/ ~Exists(Target(a).row)
  PROVE  \A b \in Admins : Heals(b)
<1>1. OpsOK(ops) /\ ops[a].created \in BOOLEAN
  BY OpsOKHere DEF AdminTypeOK, Operation
<1>2. /\ \A b \in Admins : b # a => ops'[b] = ops[b]
      /\ Len(ops[a].todo) > 1 =>
           /\ ops'[a].kind = ops[a].kind /\ ops'[a].created = ops[a].created
           /\ ops'[a].failed
           /\ ops'[a].pc = (IF ops[a].kind = "backfill" THEN "find" ELSE ops[a].pc)
      /\ ~(Len(ops[a].todo) > 1) =>
           ops'[a] = IdleOp \/ (ops[a].created /\ ops'[a].kind = ops[a].kind)
  BY <1>1, AdvanceFacts
<1>3. \A b \in Admins : b # a => Heals(b)
  BY <1>2, SparedHeals DEF Spared, Kept, HealingInv
<1>4. IdleOp.kind = "idle"
  BY DEF IdleOp
<1>5. CASE ops[a].kind # "backfill"
  <2>1. ops'[a].kind # "backfill"
    BY <1>2, <1>4, <1>5
  <2> QED
    BY <1>3, <1>5, <2>1, OtherKind
<1>6. CASE ops[a].kind = "backfill" /\ Len(ops[a].todo) > 1
  BY <1>2, <1>3, <1>4, <1>6 DEF Heals, Healing, HealsAtItsEnd, HealingInv
<1>7. CASE ops[a].kind = "backfill" /\ ~(Len(ops[a].todo) > 1)
  <2>1. ~ops[a].created /\ ops'[a] = IdleOp
    BY <1>2, <1>7 DEF HealingInv, Healing
  <2>2. HealsAtItsEnd(a)
    <3>1. CASE Event
      <4>1. events' # events
        BY <3>1 DEF Event, HealingInv
      <4> QED
        BY <4>1 DEF HealsAtItsEnd
    <3>2. CASE ~Exists(Target(a).row)
      <4>1. ops[a].todo \in Seq(TodoItem) /\ ops[a].todo # <<>>
        BY DEF AdminTypeOK, Operation
      <4>2. Target(a) \in Elements(ops[a].todo)
        BY <4>1, TodoFacts DEF Target
      <4>3. Target(a).row \in Pending(ops[a])
        BY <4>2 DEF Pending, RowsOf
      <4>4. ops[a].disturbed \/ ops[a].failed
        BY <1>7, <3>2, <4>3 DEF HealingInv, Healing, Live
      <4> QED
        BY <4>4 DEF HealsAtItsEnd
    <3> QED
      BY <3>1, <3>2
  <2> QED
    BY <1>3, <1>4, <2>1, <2>2 DEF Heals, Healing
<1> QED
  BY <1>5, <1>6, <1>7

\* Writes of operations other than a backfill.
LEMMA OwnWriteHeals ==
  ASSUME AdminTypeOK, HealingInv, NEW a \in Admins, CreateRow(a) \/ UpdateRow(a)
  PROVE  \A b \in Admins : Heals(b)
<1> DEFINE os == Disturbing(a, ops)
<1>1. OpsOK(os) /\ os[a] = ops[a]
  BY OpsOKHere, DisturbingTyped
<1>2. ops[a].kind # "backfill"
  BY DEF CreateRow, UpdateRow
<1>3. IdleOp.kind = "idle"
  BY DEF IdleOp
<1>4. /\ \A b \in Admins : b # a => ops'[b] = os[b]
      /\ ops'[a].kind # "backfill"
  <2>1. CASE CreateRow(a)
    <3>1. Advance(a, os, TRUE, FALSE)
      BY <2>1 DEF CreateRow
    <3>2. /\ \A b \in Admins : b # a => ops'[b] = os[b]
          /\ ops'[a].kind = os[a].kind \/ ops'[a] = IdleOp
      BY <1>1, <3>1, AdvanceFacts
    <3> QED
      BY <1>1, <1>2, <1>3, <3>2
  <2>2. CASE UpdateRow(a)
    <3> DEFINE o == [IdleOp EXCEPT !.kind = os[a].kind, !.pc = "refreshing"]
    <3>1. Ends(a, os, TRUE)
      BY <2>2 DEF UpdateRow
    <3>2. ops' = [os EXCEPT ![a] = o] \/ ops' = [os EXCEPT ![a] = IdleOp]
      BY <3>1 DEF Ends
    <3>3. o.kind = os[a].kind
      BY DEF IdleOp
    <3> HIDE DEF os, o
    <3> QED
      BY <1>1, <1>2, <1>3, <3>2, <3>3 DEF OpsOK
  <2> QED
    BY <2>1, <2>2
<1>5. \A b \in Admins : b # a => Heals(b)
  BY <1>4, DisturbingSpares, SparedHeals DEF HealingInv
<1>6. Heals(a)
  BY <1>2, <1>4, OtherKind
<1> QED
  BY <1>5, <1>6

\* A removal.
LEMMA RemoveHeals ==
  ASSUME AdminTypeOK, HealingInv, NEW a \in Admins, RemovePattern(a) \/ RemoveFact(a)
  PROVE  \A b \in Admins : Heals(b)
<1> DEFINE os == Disturbing(a, ops)
           o == [IdleOp EXCEPT !.kind = "remove", !.pc = "refreshing"]
<1>1. OpsOK(os) /\ os[a] = ops[a]
  BY OpsOKHere, DisturbingTyped
<1>2. ops[a] = IdleOp /\ (ops' = os \/ ops' = [os EXCEPT ![a] = o])
  BY DEF RemovePattern, RemoveFact, Delete
<1>3. IdleOp.kind = "idle" /\ o.kind = "remove"
  BY DEF IdleOp
<1> HIDE DEF o, os
<1>4. ops[a].kind # "backfill" /\ ops'[a].kind # "backfill"
      /\ \A b \in Admins : b # a => ops'[b] = os[b]
  BY <1>1, <1>2, <1>3 DEF OpsOK
<1>5. \A b \in Admins : b # a => Heals(b)
  BY <1>4, DisturbingSpares, SparedHeals DEF HealingInv, os
<1> QED
  BY <1>4, <1>5, OtherKind

\* A vector written by a backfill that nobody disturbed is that of the row as it is.
LEMMA UpsertHeals ==
  ASSUME AdminTypeOK, HealingInv, NEW a \in Admins, UpsertVector(a)
  PROVE  \A b \in Admins : Heals(b)
<1> DEFINE os == Disturbing(a, ops)
           item == Target(a)
           left == ops[a].remaining
<1>1. OpsOK(os) /\ os[a] = ops[a] /\ ops[a] \in Operation
  BY OpsOKHere, DisturbingTyped DEF OpsOK
<1>2. /\ ops[a].pc = "call" /\ UNCHANGED <<events, db, model>>
      /\ vectors' = [vectors EXCEPT ![item.row] = Vector(item, FALSE)]
      /\ Advance(a, os, FALSE, FALSE)
  BY DEF UpsertVector
<1>3. PICK row \in Rows : item \in TodoItem /\ row = item.row
  BY <1>2, TargetTyped DEF TodoItem
<1>4. /\ \A b \in Admins : b # a => ops'[b] = os[b]
      /\ Len(ops[a].todo) > 1 =>
           /\ ops'[a].kind = ops[a].kind /\ ops'[a].todo = Tail(ops[a].todo)
           /\ ops'[a].created = ops[a].created /\ ops'[a].failed = ops[a].failed
           /\ ops'[a].disturbed = ops[a].disturbed
           /\ ops'[a].remaining = ops[a].remaining
           /\ ops'[a].pc = (IF ops[a].kind = "backfill" THEN "find" ELSE ops[a].pc)
      /\ ~(Len(ops[a].todo) > 1) =>
           ops'[a] = IdleOp \/ (ops[a].created /\ ops'[a].kind = ops[a].kind)
  <2>1. ops[a].created \in BOOLEAN /\ ops[a].failed \in BOOLEAN
    BY <1>1 DEF Operation
  <2>2. /\ \A b \in Admins : b # a => ops'[b] = os[b]
        /\ Len(os[a].todo) > 1 =>
             /\ ops'[a].kind = os[a].kind /\ ops'[a].todo = Tail(os[a].todo)
             /\ ops'[a].created = (os[a].created \/ FALSE)
             /\ ops'[a].failed = (os[a].failed \/ FALSE)
             /\ ops'[a].disturbed = os[a].disturbed
             /\ ops'[a].remaining = os[a].remaining
             /\ ops'[a].pc = (IF os[a].kind = "backfill" THEN "find" ELSE os[a].pc)
        /\ ~(Len(os[a].todo) > 1) =>
             ops'[a] = IdleOp \/ ((os[a].created \/ FALSE) /\ ops'[a].kind = os[a].kind)
    BY <1>1, <1>2, AdvanceFacts
  <2> QED
    BY <1>1, <2>1, <2>2
<1> HIDE DEF os
<1>5. IdleOp.kind = "idle"
  BY DEF IdleOp
<1>6. \A b \in Admins : b # a => Heals(b)
  BY <1>4, DisturbingSpares, SparedHeals DEF HealingInv, os
<1>7. CASE ops[a].kind # "backfill"
  <2>1. ops'[a].kind # "backfill"
    BY <1>4, <1>5, <1>7
  <2> QED
    BY <1>6, <1>7, <2>1, OtherKind
<1>8. CASE ops[a].kind = "backfill"
  <2>1. /\ ~ops[a].created
        /\ ~ops[a].disturbed /\ ~ops[a].failed =>
             /\ \A r \in Pending(ops[a]) : r \in Patterns /\ Live(r)
             /\ \A r \in Patterns : Live(r) =>
                  CoverageStatus(r) = "indexed" \/ r \in Pending(ops[a]) \union left
             /\ item = Item(row)
    BY <1>2, <1>3, <1>8 DEF HealingInv, Healing
  <2>2. ops[a].todo \in Seq(TodoItem) /\ ops[a].todo # <<>>
    BY <1>1, <1>2 DEF AdminTypeOK, Operation
  <2> DEFINE rest == {i.row : i \in Elements(Tail(ops[a].todo))}
  <2>3. /\ Pending(ops[a]) = {row} \union rest
        /\ ~(Len(ops[a].todo) > 1) => Pending(ops[a]) = {row}
    BY <1>3, <2>2, TodoFacts DEF Pending, RowsOf, Target
  <2> HIDE DEF rest
  <2>4. \A r : Live(r)' = Live(r)
    BY <1>2 DEF Live, Exists
  <2>5. ASSUME ~ops[a].disturbed, ~ops[a].failed
        PROVE  \A r \in Patterns : Live(r)' =>
                 \/ (CoverageStatus(r) = "indexed")'
                 \/ (r \in Pending(ops[a]) /\ r # row) \/ r \in left
    <3>1. Live(row) /\ item = Item(row)
      BY <2>1, <2>3, <2>5
    <3>2. item.active
      BY <3>1 DEF Item, Live
    <3> DEFINE v == Vector(item, FALSE)
    <3>3. /\ v.wording = item.wording /\ v.model = model /\ v.active /\ ~v.older
          /\ v # Absent
      <4>1. v \in [wording : AllWordings, model : Models, active : BOOLEAN, older : BOOLEAN]
        BY <1>3 DEF Vector, TodoItem, AdminTypeOK
      <4>2. v # Absent
        BY <4>1, AbsentAssumption
      <4> QED
        BY <3>2, <4>2 DEF Vector
    <3> HIDE DEF v
    <3>4. \A r \in Rows : vectors'[r] = (IF r = row THEN v ELSE vectors[r])
      BY <1>2, <1>3 DEF AdminTypeOK, v
    <3>5. (CoverageStatus(row) = "indexed")'
      <4>1. vectors'[row] = v /\ model' = model
        BY <1>2, <1>3, <3>4
      <4> QED
        BY <3>3, <4>1 DEF CoverageStatus
    <3>6. ASSUME NEW r \in Patterns, r # row PROVE CoverageStatus(r)' = CoverageStatus(r)
      <4>1. vectors'[r] = vectors[r]
        BY <3>4, <3>6 DEF Rows
      <4> QED
        BY <1>2, <4>1 DEF CoverageStatus
    <3> HIDE DEF CoverageStatus, Live, Pending
    <3> QED
      BY <2>1, <2>4, <2>5, <3>5, <3>6
  <2>6. CASE Len(ops[a].todo) > 1
    <3>1. Pending(ops[a])' = rest
      BY <1>4, <2>6 DEF Pending, RowsOf, rest
    <3>2. /\ ops'[a].kind = "backfill" /\ ~ops'[a].created /\ ops'[a].pc = "find"
          /\ ops'[a].disturbed = ops[a].disturbed /\ ops'[a].failed = ops[a].failed
          /\ ops'[a].remaining = left
      BY <1>4, <1>8, <2>1, <2>6
    <3>3. Healing(a)'
      <4> HIDE DEF Pending, Live, CoverageStatus
      <4> QED BY <2>1, <2>3, <2>4, <2>5, <3>1, <3>2 DEF Healing
    <3> QED
      BY <1>5, <1>6, <3>2, <3>3 DEF Heals, HealsAtItsEnd
  <2>7. CASE ~(Len(ops[a].todo) > 1)
    <3>1. ops'[a] = IdleOp
      BY <1>4, <2>1, <2>7
    <3>2. ASSUME ~ops[a].disturbed, ~ops[a].failed
          PROVE  /\ \A r \in ActivePatterns' \ left : Searchable(r)'
                 /\ left = {} /\ ActivePatterns' # {} => ResolveStatus' = "ok"
      <4>1. \A r \in Patterns : Live(r)' => CoverageStatus(r)' = "indexed" \/ r \in left
        <5> HIDE DEF Pending, Live, CoverageStatus
        <5> QED BY <2>3, <2>5, <2>7, <3>2
      <4> QED
        BY <4>1, AllCovered
    <3> QED
      BY <1>5, <1>6, <3>1, <3>2 DEF Heals, Healing, HealsAtItsEnd
  <2> QED
    BY <2>6, <2>7
<1> QED
  BY <1>7, <1>8

\* A row found again is taken up as it is now.
LEMMA FindHeals ==
  ASSUME AdminTypeOK, HealingInv, NEW a \in Admins, FindTarget(a)
  PROVE  \A b \in Admins : Heals(b)
<1>1. ops[a].pc = "find" /\ UNCHANGED <<db, vectors, model>>
  BY DEF FindTarget, admin
<1>2. PICK row \in Rows : row = Target(a).row
  BY <1>1, TargetTyped DEF TodoItem
<1>3. CASE ~Exists(row)
  <2>1. Advance(a, ops, FALSE, TRUE)
    BY <1>2, <1>3 DEF FindTarget
  <2> QED
    BY <1>2, <1>1, <1>3, <2>1, PassedOverHeals
<1>4. CASE Exists(row)
  <2> DEFINE t == <<Item(row)>> \o Tail(ops[a].todo)
  <2>1. ops' = [ops EXCEPT ![a].pc = "call", ![a].todo = t]
    BY <1>2, <1>4, Zenon DEF FindTarget
  <2>2. ops[a] \in Operation /\ ops[a].todo \in Seq(TodoItem) /\ ops[a].todo # <<>>
    BY <1>1 DEF AdminTypeOK, Operation
  <2>3. /\ Elements(ops[a].todo) = {Target(a)} \union Elements(Tail(ops[a].todo))
        /\ Elements(t) = {Item(row)} \union Elements(Tail(ops[a].todo))
        /\ Head(t) = Item(row)
    BY <2>2, TodoFacts DEF Target
  <2>4. Item(row).row = row
    BY <1>4, ItemTyped
  <2> HIDE DEF t
  <2>5. /\ ops'[a].kind = ops[a].kind /\ ops'[a].pc = "call" /\ ops'[a].todo = t
        /\ ops'[a].created = ops[a].created /\ ops'[a].failed = ops[a].failed
        /\ ops'[a].disturbed = ops[a].disturbed /\ ops'[a].remaining = ops[a].remaining
        /\ \A b \in Admins : b # a => ops'[b] = ops[b]
    BY <2>1, <2>2 DEF AdminTypeOK, Operation
  <2>6. \A b \in Admins : b # a => Heals(b)
    BY <1>1, <2>5, SparedHeals DEF Spared, Kept, HealingInv
  <2>7. Pending(ops[a])' = Pending(ops[a])
    <3>1. Pending(ops[a])' = {i.row : i \in Elements(t)}
      BY <2>5 DEF Pending, RowsOf
    <3>2. {i.row : i \in Elements(t)} = {row} \union {i.row : i \in Elements(Tail(ops[a].todo))}
      BY <2>3, <2>4
    <3>3. Pending(ops[a]) = {row} \union {i.row : i \in Elements(Tail(ops[a].todo))}
      BY <1>2, <2>3 DEF Pending, RowsOf
    <3> QED
      BY <3>1, <3>2, <3>3
  <2>8. \A r : Live(r)' = Live(r) /\ CoverageStatus(r)' = CoverageStatus(r) /\ Item(r)' = Item(r)
    BY <1>1 DEF Live, Exists, CoverageStatus, Item
  <2>9. Target(a)' = Item(row) /\ Item(row)' = Item(row)
    BY <2>3, <2>5, <2>8 DEF Target
  <2>10. Healing(a)'
    <3> HIDE DEF Live, CoverageStatus, Pending, Item, Target
    <3> QED BY <1>1, <2>4, <2>5, <2>7, <2>8, <2>9 DEF Healing, HealingInv
  <2>11. IdleOp.pc = "idle"
    BY DEF IdleOp
  <2> QED
    BY <2>5, <2>6, <2>10, <2>11 DEF Heals, HealsAtItsEnd
<1> QED
  BY <1>3, <1>4

\* A call that fails, or finds its row gone.
LEMMA FailHeals ==
  ASSUME AdminTypeOK, HealingInv, NEW a \in Admins, RowGone(a) \/ EmbedFails(a)
  PROVE  \A b \in Admins : Heals(b)
<1>1. /\ ops[a].pc = "call" /\ UNCHANGED <<db, vectors, model>> /\ Fails(a)
      /\ Event \/ ~Exists(Target(a).row)
  BY DEF RowGone, EmbedFails, admin
<1>2. CASE ops[a].kind = "update"
  <2>1. ops' = [ops EXCEPT ![a] = IdleOp]
    BY <1>1, <1>2 DEF Fails
  <2>2. IdleOp.kind = "idle"
    BY DEF IdleOp
  <2>3. ops'[a] = IdleOp /\ \A b \in Admins : b # a => ops'[b] = ops[b]
    BY <2>1 DEF AdminTypeOK
  <2>4. \A b \in Admins : b # a => Heals(b)
    BY <1>1, <2>3, SparedHeals DEF Spared, Kept, HealingInv
  <2> QED
    BY <1>2, <2>2, <2>3, <2>4, OtherKind
<1>3. CASE ops[a].kind # "update"
  BY <1>1, <1>3, PassedOverHeals DEF Fails
<1> QED
  BY <1>2, <1>3

\* Steps of the cache and of the question.
LEMMA OtherStepsHeal ==
  ASSUME AdminTypeOK, HealingInv,
         \/ ReadPatterns \/ FinishRefresh \/ FailRefresh \/ TimerTick \/ TtlPasses
         \/ Restart \/ Ask \/ ReadCache \/ ReadDatabase \/ DatabaseFails
         \/ ReadMicro \/ SemanticSearch("patterns", PatternHits)
         \/ SemanticSearch("facts", FactHits)
         \/ MicroFails \/ SemanticFails \/ EmbeddingRethrown
         \/ Conclude \/ AnswerPreset \/ AnswerGrounded \/ AnswerOtherwise
         \/ UNCHANGED knowledgeVars
  PROVE  \A b \in Admins : Heals(b)
<1>1. IdleOp.kind = "idle"
  BY DEF IdleOp
<1>2. CASE FinishRefresh \/ FailRefresh
  <2>1. UNCHANGED <<db, vectors, model>> /\ \E f \in refreshing : Settled(f)
    BY <1>2 DEF FinishRefresh, FailRefresh, admin
  <2>2. ASSUME NEW b \in Admins PROVE Heals(b)
    <3>1. ops'[b] = (IF ops[b].pc = "refreshing" THEN IdleOp ELSE ops[b])
      BY <2>1 DEF Settled
    <3>2. CASE ops[b].pc = "refreshing"
      <4>1. ops[b].kind # "backfill"
        BY <3>2 DEF HealingInv, Healing
      <4> QED
        BY <1>1, <3>1, <3>2, <4>1, OtherKind
    <3>3. CASE ops[b].pc # "refreshing"
      BY <2>1, <3>1, <3>3, SparedHeals DEF Spared, Kept, HealingInv
    <3> QED
      BY <3>2, <3>3
  <2> QED
    BY <2>2
<1>3. CASE Restart
  <2>1. events' # events /\ ops' = [b \in Admins |-> IdleOp]
    BY <1>3 DEF Restart, Event, HealingInv
  <2> QED
    BY <1>1, <2>1 DEF Heals, Healing, HealsAtItsEnd
<1>4. CASE UNCHANGED <<db, vectors, model, ops>>
  BY <1>4, SparedHeals DEF Spared, Kept, HealingInv
<1>5. CASE ReadPatterns \/ TimerTick \/ TtlPasses \/ Ask \/ ReadCache \/ UNCHANGED knowledgeVars
  BY <1>4, <1>5 DEF ReadPatterns, TimerTick, TtlPasses, Ask, ReadCache, knowledgeVars, admin
<1>6. ASSUME NEW j, Step(j) PROVE UNCHANGED <<db, vectors, model, ops>>
  BY <1>6 DEF Step, admin
<1>7. CASE \/ ReadDatabase \/ DatabaseFails \/ ReadMicro \/ MicroFails \/ SemanticFails
           \/ SemanticSearch("patterns", PatternHits) \/ SemanticSearch("facts", FactHits)
           \/ EmbeddingRethrown \/ Conclude
  BY <1>4, <1>6, <1>7 DEF ReadDatabase, DatabaseFails, ReadMicro, MicroFails, SemanticFails,
     SemanticSearch, EmbeddingRethrown, Conclude
<1>8. CASE AnswerPreset \/ AnswerGrounded \/ AnswerOtherwise
  BY <1>4, <1>6, <1>8 DEF AnswerPreset, AnswerGrounded, AnswerOtherwise, Says
<1> QED
  BY <1>2, <1>3, <1>5, <1>7, <1>8

\* What is bounded is counted.
LEMMA EventsCount ==
  ASSUME KnowledgeNext PROVE UNCHANGED events \/ Event
<1>1. \A a \in Admins :
        (\/ CreatePatterns(a) \/ CreateFacts(a) \/ UpdatePattern(a) \/ UpdateFact(a)
         \/ ReindexPatterns(a) \/ ReindexFacts(a) \/ Backfill(a)) => Event
  BY DEF CreatePatterns, CreateFacts, UpdatePattern, UpdateFact, ReindexPatterns,
         ReindexFacts, Backfill, Create, Update, Reindex, Start
<1>2. \A a \in Admins : RemovePattern(a) \/ RemoveFact(a) \/ EmbedFails(a) => Event
  BY DEF RemovePattern, RemoveFact, Delete, EmbedFails
<1>3. \A a \in Admins :
        CreateRow(a) \/ UpdateRow(a) \/ UpsertVector(a) \/ FindTarget(a) \/ RowGone(a) =>
          UNCHANGED events
  BY DEF CreateRow, UpdateRow, UpsertVector, FindTarget, RowGone
<1>4. ReadPatterns \/ FinishRefresh \/ ReadCache \/ ReadDatabase \/ ReadMicro \/ Conclude
        => UNCHANGED events
  BY DEF ReadPatterns, FinishRefresh, ReadCache, ReadDatabase, ReadMicro, Conclude
<1>5. SemanticSearch("patterns", PatternHits) \/ SemanticSearch("facts", FactHits)
        => UNCHANGED events
  BY DEF SemanticSearch
<1>6. AnswerPreset \/ AnswerGrounded \/ AnswerOtherwise => UNCHANGED events
  BY DEF AnswerPreset, AnswerGrounded, AnswerOtherwise, Says
<1>7. (\/ FailRefresh \/ TimerTick \/ TtlPasses \/ Restart \/ Ask \/ DatabaseFails
       \/ MicroFails \/ SemanticFails \/ EmbeddingRethrown) => Event
  BY DEF FailRefresh, TimerTick, TtlPasses, Restart, Ask, DatabaseFails, MicroFails,
         SemanticFails, EmbeddingRethrown
<1> QED
  BY <1>1, <1>2, <1>3, <1>4, <1>5, <1>6, <1>7 DEF KnowledgeNext

\* Every step keeps what a backfill has done, and the last one of a backfill ends well.
LEMMA HealSteps ==
  ASSUME AdminTypeOK, HealingInv, [KnowledgeNext]_knowledgeVars
  PROVE  HealingInv' /\ \A a \in Admins : HealsAtItsEnd(a)
<1>1. \A b \in Admins : Heals(b)
  BY StartHeals, OwnWriteHeals, RemoveHeals, UpsertHeals, FindHeals, FailHeals,
     OtherStepsHeal DEF KnowledgeNext
<1>2. events' \in Nat
  <2>1. UNCHANGED events \/ Event
    BY EventsCount DEF knowledgeVars
  <2> QED
    BY <2>1 DEF Event, HealingInv
<1> QED
  BY <1>1, <1>2 DEF Heals, HealingInv

\* What an undisturbed backfill has done and what it has still to do.
THEOREM HealingInvariance == KnowledgeSpec => []HealingInv
<1>1. KnowledgeInit => HealingInv
  BY DEF KnowledgeInit, HealingInv, Healing, IdleOp
<1>2. KnowledgeInv /\ HealingInv /\ [KnowledgeNext]_knowledgeVars => HealingInv'
  BY HealSteps DEF KnowledgeInv
<1> QED
  BY <1>1, <1>2, KnowledgeInvariance, PTL DEF KnowledgeSpec

\* A backfill with no failed call and no write in between leaves every active pattern to
\* the vector search, but for those its limit left over and its report counts as remaining;
\* when there are none, the health check says "ok" (backfill, EmbeddingHealthService).
THEOREM BackfillTheorem == KnowledgeSpec => BackfillHeals
<1>1. KnowledgeInv /\ HealingInv /\ [KnowledgeNext]_knowledgeVars =>
        [\A a \in Admins :
           /\ ops[a].kind = "backfill" /\ ~ops[a].disturbed /\ ~ops[a].failed
           /\ ops'[a] = IdleOp /\ events' = events
           => /\ \A r \in ActivePatterns' \ ops[a].remaining : Searchable(r)'
              /\ ops[a].remaining = {} /\ ActivePatterns' # {} => ResolveStatus' = "ok"
        ]_knowledgeVars
  BY HealSteps DEF KnowledgeInv, HealsAtItsEnd
<1> QED
  BY <1>1, KnowledgeInvariance, HealingInvariance, PTL DEF KnowledgeSpec, BackfillHeals

=============================================================================
