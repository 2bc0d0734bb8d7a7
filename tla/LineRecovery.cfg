SPECIFICATION FairSpec
CONSTANTS
  Deliveries = {answer}
  AdminDeliveries = {}
  Included = {answer}
  Callers = {c1}
  Sweeper = sweeper
  Nobody = Nobody
  MaxAttempts = 2
  MaxFaults = 2
  MaxMessages = 1
  MaxResumes = 0
  KeyDays = 1
PROPERTIES
  OutboxSpec
  EveryDeliveryEnds
CHECK_DEADLOCK FALSE
