SPECIFICATION Spec
CONSTANTS
  r1 = r1
  r2 = r2
  before = before
  Runs <- TwoRuns
  Old = before
  MaxCrashes = 1
INVARIANTS TypeOK OutputIsWhole
PROPERTIES NoLitter ReplacesAtomically Terminates
CHECK_DEADLOCK FALSE
