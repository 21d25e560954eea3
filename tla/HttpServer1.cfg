CONSTANTS
  c1 = c1
  c2 = c2
  c3 = c3
  c4 = c4
  Conns = {c1, c2, c3, c4}
SPECIFICATION FairSpec
INVARIANTS
  AcceptIsOutstanding
  ManagerHoldsTheLiveOnes
  StopReachesEverything
PROPERTIES
  ImplementsLifecycle
