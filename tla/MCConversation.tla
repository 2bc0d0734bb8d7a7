--------------------------- MODULE MCConversation ---------------------------
(* Conversation with two handlings at a time of two customers' messages.      *)
EXTENDS Conversation, TLC

CONSTANTS J1, J2, U1, U2, P1, P2
MCJobs == {J1, J2}
MCUsers == {U1, U2}
MCPhones == {P1, P2}
NoForm == [labelled |-> FALSE, phone |-> "none", rest |-> "none"]
Words(kind, menu, text) == [kind |-> kind, menu |-> menu, text |-> text, form |-> NoForm]
Form(labelled, phone, rest) ==
  [kind |-> "text", menu |-> "NONE", text |-> "form",
   form |-> [labelled |-> labelled, phone |-> phone, rest |-> rest]]
MCMessages ==
  {Form(TRUE, P1, "given"), Form(FALSE, P2, "given"), Form(TRUE, "bad", "given"),
   Words("text", "NONE", "register"), Words("text", "NONE", "cancel"),
   Words("text", "GENERAL_QUESTION", "question"),
   Words("text", "CONTACT_ADMIN", "question"),
   Words("sticker", "NONE", "question"), Words("image", "NONE", "question")}
Interchangeable == Permutations(MCJobs) \union Permutations(MCUsers)
=============================================================================
