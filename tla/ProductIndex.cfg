SPECIFICATION FairSpec
CONSTANTS
  modelA = modelA  modelB = modelB  labels1 = labels1
  Processes = {p1, p2}
  Builds <- OneBuild
  Contents = {c1, c2}
  Presets = {x1, x2}
  Nobody = Nobody
  MaxAttempts = 2
  MaxRevision = 2
  MaxFaults = 1
INVARIANTS
  SearchedIsCurrent
PROPERTIES
  NewestStaysServed
  EveryRevisionIndexed
CHECK_DEADLOCK FALSE
