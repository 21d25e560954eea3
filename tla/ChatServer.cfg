CONSTANTS
  s1 = s1
  s2 = s2
  m1 = m1
  m2 = m2
  Sessions = {s1, s2}
  Msgs = {m1, m2}
  MaxRecent = 2
  MaxPublished = 3
SPECIFICATION FairSpec
INVARIANTS
  OneWritePerQueue
  MembershipFollowsReads
  StreamsFollowLog
PROPERTIES
  ImplementsBroadcast
  EveryMessageIsSent
  GoneSessionsAreDestroyed
\* every peer is silent, or the bounds are used up
CHECK_DEADLOCK FALSE
