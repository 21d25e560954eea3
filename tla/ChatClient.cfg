CONSTANTS
  a = a
  b = b
  Lines = {a, b}
  MaxLines = 3
  Endpoints = 2
SPECIFICATION FairSpec
INVARIANTS
  NoLineLostOrRepeated
PROPERTIES
  CloseIsFinal
  EveryLineIsSent
  ExitsAfterInput
  LostConnectionIsClosed
