SPECIFICATION Spec
CONSTANTS
  Sessions = {s1}
  MaxConcurrentSessions = 0
  Procs = {p1}
  Streams = {"stdout"}
  MaxLines = 1
  MaxOutput = 0
  Handlers = {h1}
  MaxProcessesPerSession = 1
  Payloads = {"small"}
  NoSession = NoSession
  NoProc = NoProc
INVARIANT ExitIsTerminal
CHECK_DEADLOCK FALSE
