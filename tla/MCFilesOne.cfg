SPECIFICATION Spec
CONSTANTS
  h1 = h1
  h2 = h2
  f1 = f1
  f2 = f2
  Handlers = {h1}
  Paths = {f1, f2}
  Texts <- Blocks
  Starts <- Blocks
  Writes <- OneWriter
  Methods <- AllMethods
  MaxNow = 2
  MaxCalls = 3
  MaxHunks = 2
  MaxCrashes = 0
  MaxTroubles = 1
PROPERTIES
  MoveKeepsContent
  GuardHolds
CHECK_DEADLOCK FALSE
