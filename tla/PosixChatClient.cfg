CONSTANTS
  a = a
  b = b
  Letters = {a, b}
  Newline = Newline
  MaxBody = 2
  MaxTyped = 6
SPECIFICATION FairSpec
INVARIANTS
  TextIsKept
PROPERTIES
  EveryLineIsSent
  LossEndsRun
