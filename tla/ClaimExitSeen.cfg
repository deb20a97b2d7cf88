SPECIFICATION Spec
CONSTANTS
  Sessions = {s1}
  NoSession = NoSession
  Jobs = {j1}
  j1 = j1
  j2 = j2
  Events <- OneExit
  Capacity = 1
  MaxSubs = 1
  c1 = c1
  c2 = c2
  Conns = {c1, c2}
  Transport <- OneOfEach
INVARIANT ExitIsSeen
CHECK_DEADLOCK FALSE
