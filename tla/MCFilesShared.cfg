SPECIFICATION Spec
CONSTANTS
  h1 = h1
  h2 = h2
  f1 = f1
  f2 = f2
  Handlers = {h1, h2}
  Paths = {f1, f2}
  Texts <- ShortAndLong
  Starts <- Pair
  Writes <- Shared
  Methods <- ReplaceOrPatch
  MaxNow = 1
  MaxCalls = 2
  MaxHunks = 1
  MaxCrashes = 1
  MaxTroubles = 1
INVARIANTS
  TypeOK
  NoPartialFile
  NoPartialRead
  NoTmpLeft
PROPERTIES WritesAreAtomic
CHECK_DEADLOCK FALSE
