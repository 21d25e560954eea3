CONSTANTS
  s1 = s1
  s2 = s2
  a = a
  b = b
  t1 = t1
  t2 = t2
  Sessions = {s1, s2}
  Clients = {a, b}
  BufferSize = 2
  MaxBytes = 3
  MaxDatagrams = 3
  MaxErrors = 1
  Threads = {t1, t2}
  MainThread = t1
  Limit = 4
  Posts = 2
SPECIFICATION MCSpec
INVARIANTS
  OneHandlerInBlock
  ClientsGetTheirBytes
  RepliesGoToTheirSenders
  CountsInOrder
  StrandKeepsOrder
PROPERTIES
  EveryRequestIsAnswered
  ProgramEnds
\* a server whose clients are silent stops, and a program that has ended
CHECK_DEADLOCK FALSE
