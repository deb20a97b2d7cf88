SPECIFICATION FairSpec
CONSTANTS
  Sessions = {s1}
  MaxConcurrentSessions = 0
  Procs = {p1}
  Streams = {}
  MaxLines = 0
  MaxOutput = 0
  Handlers = {h1, h2}
  MaxProcessesPerSession = 1
  Payloads = {"small"}
  NoSession = NoSession
  NoProc = NoProc
PROPERTY EveryChildIsReaped
CHECK_DEADLOCK FALSE
