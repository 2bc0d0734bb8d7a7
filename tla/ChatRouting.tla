---------------------------- MODULE ChatRouting ----------------------------
(* How one message is routed: chatbot/intent.  Pure: the deterministic gates  *)
(* before the search, and what the outcome of the search and of the           *)
(* BUSINESS/GENERAL classifier decide.  A message is a record: `menu` is what *)
(* its postback or its whole text names in the tenant's menu, `text` the      *)
(* class of its words.                                                        *)

Intents == {"GREET", "REGISTER", "REGISTER_HOW_TO", "CONTACT_ADMIN", "CANCEL",
            "GENERAL_QUESTION", "ANSWER_KNOWLEDGE"}
Texts == {"blank", "long", "greet", "cancel", "register", "howto", "contact",
          "question", "form"}
\* NONE: no menu entry; REPLY: an active reply; GONE: the key of a deleted one.
Menus == {"NONE", "REPLY", "GONE"} \union Intents

Actions == {"CANCEL_SESSION", "CONTINUE_REGISTER", "START_REGISTER",
            "START_AI_CHAT", "GENERAL_QUESTION", "CLARIFY", "ANSWER_KNOWLEDGE",
            "RICH_MENU_REPLY", "CONTACT_ADMIN"}

\* What a retrieval tells the router: the outcomes of runRetrieval, with the
\* planner's KNOWLEDGE verdict or a product retrieval on top.
Outcome(route, reason, selected, planner, product) ==
  [route |-> route, reason |-> reason, selected |-> selected,
   planner |-> planner, product |-> product]
Unselected == {"MISSING_USER_INFORMATION", "NO_SEARCH_RESULTS", "RETRIEVAL_ERROR",
               "CONFLICTING_CANDIDATES", "NO_USABLE_EVIDENCE"}
Retrievals ==
  {Outcome("LOW_CONFIDENCE", reason, FALSE, planner, FALSE) :
     reason \in Unselected, planner \in BOOLEAN}
  \union {Outcome("LOW_CONFIDENCE", "BELOW_MIN_VECTOR_SIMILARITY", TRUE, planner, FALSE) :
            planner \in BOOLEAN}
  \union {Outcome(route, "none", TRUE, planner, FALSE) :
            route \in {"DIRECT", "RAG"}, planner \in BOOLEAN}
  \union {Outcome("RAG", "none", TRUE, FALSE, TRUE)}
Analyses == [class: {"BUSINESS", "GENERAL"}, failed: BOOLEAN]
FailedAnalysis == [class |-> "BUSINESS", failed |-> TRUE]

\* `fallback`: the configured fallback text instead of the contact template.
Decision(action, fallback) == [action |-> action, fallback |-> fallback]
Decisions == [action: Actions, fallback: BOOLEAN]
\* The verdict SEARCH ends gating.
Search == [action |-> "SEARCH", fallback |-> FALSE]

RULE_MAP ==
  [i \in Intents \union {"UNKNOWN"} |->
     CASE i = "REGISTER" -> "START_REGISTER"
       [] i \in {"REGISTER_HOW_TO", "ANSWER_KNOWLEDGE"} -> "ANSWER_KNOWLEDGE"
       [] i = "CONTACT_ADMIN" -> "CONTACT_ADMIN"
       [] i = "CANCEL" -> "CANCEL_SESSION"
       [] i = "GENERAL_QUESTION" -> "START_AI_CHAT"
       [] OTHER -> "GENERAL_QUESTION"]

FromRule(intent) == Decision(RULE_MAP[intent], FALSE)

\* Every rule but UNKNOWN is trusted: its confidence is at least 0.9.
Detect(text) ==
  CASE text = "greet" -> "GREET"
    [] text = "cancel" -> "CANCEL"
    [] text = "register" -> "REGISTER"
    [] text = "howto" -> "REGISTER_HOW_TO"
    [] text = "contact" -> "CONTACT_ADMIN"
    [] OTHER -> "UNKNOWN"

FromTrustedRule(intent) ==
  IF RULE_MAP[intent] = "ANSWER_KNOWLEDGE" THEN Search ELSE FromRule(intent)

\* The gates of the REGISTER session: form input unless a rule interrupts.
RegisterSession(intent) ==
  IF intent \notin {"UNKNOWN", "REGISTER"} THEN FromTrustedRule(intent)
  ELSE Decision("CONTINUE_REGISTER", FALSE)

\* A plausible bug: the flow is asked after the search rules.
GateWithoutFlow(text, inRegister) ==
  LET rule == Detect(text) IN
  IF rule = "UNKNOWN" THEN Search ELSE FromTrustedRule(rule)

GateBeforeSearch(text, inRegister) ==
  LET rule == Detect(text) IN
  CASE rule = "GREET" -> FromRule(rule)
    [] rule = "CANCEL" -> Decision("CANCEL_SESSION", FALSE)
    [] inRegister -> RegisterSession(rule)
    [] rule # "UNKNOWN" -> FromTrustedRule(rule)
    [] OTHER -> Search

\* A menu tap or label outranks the text; a deleted reply falls through.
ResolveRichMenu(menu) ==
  CASE menu \in Intents -> {FromRule(menu)}
    [] menu = "REPLY" -> {Decision("RICH_MENU_REPLY", FALSE)}
    [] OTHER -> {}

Gate(message, inRegister) ==
  LET tapped == ResolveRichMenu(message.menu) IN
  IF tapped # {} THEN CHOOSE d \in tapped : TRUE
  ELSE GateBeforeSearch(message.text, inRegister)

\* {}: low confidence, only the classifier may decide.
DecideFromRetrieval(r) ==
  CASE r.product -> {Decision("ANSWER_KNOWLEDGE", FALSE)}
    [] r.reason = "MISSING_USER_INFORMATION" -> {Decision("CLARIFY", FALSE)}
    [] r.reason \in {"CONFLICTING_CANDIDATES", "RETRIEVAL_ERROR"} ->
         {Decision("CONTACT_ADMIN", TRUE)}
    [] r.route # "LOW_CONFIDENCE" -> {Decision("ANSWER_KNOWLEDGE", FALSE)}
    [] r.planner /\ r.selected -> {Decision("ANSWER_KNOWLEDGE", FALSE)}
    [] r.planner /\ ~r.selected -> {Decision("CONTACT_ADMIN", TRUE)}
    [] OTHER -> {}

ResolveLowConfidence(r, analysis) ==
  CASE analysis.class = "GENERAL" -> Decision("GENERAL_QUESTION", FALSE)
    [] r.selected /\ ~analysis.failed -> Decision("ANSWER_KNOWLEDGE", FALSE)
    [] OTHER -> Decision("CONTACT_ADMIN", TRUE)

\* The social shortcut of a sticker, or its own text through the text pipeline.
StickerIntents == {"GREETING", "THANKS", "TEXT", "UNKNOWN"}
=============================================================================
