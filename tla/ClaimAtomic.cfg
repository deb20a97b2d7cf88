SPECIFICATION Spec
CONSTANTS
  h1 = h1
  h2 = h2
  f1 = f1
  f2 = f2
  Handlers = {h1, h2}
  Paths = {f1}
  Texts <- ShortAndLong
  Starts <- ShortAndLong
  Writes <- Together
  Methods <- Replace
  MaxNow = 1
  MaxCalls = 1
  MaxHunks = 1
  MaxCrashes = 0
  MaxTroubles = 0
INVARIANT
  EveryFileIsWhole
CHECK_DEADLOCK FALSE
