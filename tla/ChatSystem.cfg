CONSTANTS
  s1 = s1
  s2 = s2
  Lines = {1, 2}
  MaxLines = 2
  Endpoints = 1
  Sessions = {s1, s2}
  OtherMsgs = {3}
  Mine = s1
  MaxRecent = 1
  MaxOthers = 1
SPECIFICATION FairSystemSpec
INVARIANTS
  OwnLinesInOrder
PROPERTIES
  LineIsPrinted
\* the user and the other clients may be silent for ever
CHECK_DEADLOCK FALSE
