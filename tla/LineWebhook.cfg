SPECIFICATION FairSpec
CONSTANTS
  Events = {e1}
  Postbacks = {}
  Processes = {p1, p2}
  Prompts = {q1, q2}
  Nobody = Nobody
  MaxClaims = 2
  BatchSize = 1
  MaxFaults = 1
INVARIANTS
  ClaimsExclude
  CompletedIsAnswered
PROPERTIES
  NoCallAfterReply
  EveryEventEnds
CHECK_DEADLOCK FALSE
