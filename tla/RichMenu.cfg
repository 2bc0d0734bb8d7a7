CONSTANTS
  r1 = r1
  r2 = r2
  Requests = {r1, r2}
  Sizes = {1, 2}
  Grids = {1, 2}
  MaxOps = 3
  MaxFaults = 1
  MaxRounds = 2
SPECIFICATION Spec
INVARIANTS
  NamedFilesAreStored
  ImageShowsCells
  NamedMenuIsLive
SYMMETRY RequestSymmetry
CHECK_DEADLOCK FALSE
