CONSTANTS
  N = 3
  c1 = c1
  c2 = c2
  Conns = {c1, c2}
SPECIFICATION FairSpec
INVARIANTS
  Balanced
  RunsUntilStopped
PROPERTIES
  StopEndsRun
