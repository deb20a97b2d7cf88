SPECIFICATION FairSpec
CONSTANTS
  Sessions = {s1}
  NoSession = NoSession
  Jobs = {j1, j2}
  j1 = j1
  j2 = j2
  Events <- TwoAndOne
  Capacity = 1
  MaxSubs = 2
  c1 = c1
  c2 = c2
  Conns = {c1, c2}
  Transport <- OneOfEach
INVARIANTS
  TypeOK
  OneWriter
  NoSendOnClosed
PROPERTIES
  InOrderAtMostOnce
  SlowClientDoesNotBlock
  AcceptedIsDelivered
  HangupCleansUp
CHECK_DEADLOCK FALSE
