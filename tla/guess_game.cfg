SPECIFICATION Spec
CONSTANTS
  Secrets <- MCSecrets
  UpperBounds <- MCUpperBounds
  IntMax = 15
  InTime = {TRUE, FALSE}
  MaxRuns = 2
\* Both processes may have ended.
CHECK_DEADLOCK FALSE
INVARIANTS
  IInv
  Bracketed
  FoundIsSecret
  Halved
PROPERTIES
  Finishes
