SPECIFICATION Spec
CONSTANTS
  Requests = {r1, r2}
  Messages = {m1}
  Texts = {t1, t2}
  Prompts = {q1, q2}
  Nobody = Nobody
  MaxFaults = 2
INVARIANTS OneTurnAtATime AnswersStand
PROPERTY NoCallAfterAnswer
SYMMETRY Symmetry
CHECK_DEADLOCK FALSE
