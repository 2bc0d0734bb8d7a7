SPECIFICATION Spec
CONSTANTS
  Deliveries = {answer, note}
  AdminDeliveries = {note}
  Included = {answer}
  Callers = {c1}
  Sweeper = sweeper
  Nobody = Nobody
  MaxAttempts = 1
  MaxFaults = 1
  MaxMessages = 0
  MaxResumes = 1
  KeyDays = 0
INVARIANTS
  MutedAnswersStayUnsent
PROPERTIES
  OnlyAnswersLeaveQueue
CHECK_DEADLOCK FALSE
