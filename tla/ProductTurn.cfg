CONSTANTS
    A1 = A1
    A2 = A2
    Attempts <- MCAttempts
    MaxAttempts = 3
    None = None
    MaxFaults = 1
    MaxCatalog = 2
    Modes <- MCModes
SPECIFICATION Spec
INVARIANTS
  RepliesAgree
PROPERTIES
  StagesStand
SYMMETRY Interchangeable
CHECK_DEADLOCK FALSE
