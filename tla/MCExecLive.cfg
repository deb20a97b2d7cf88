SPECIFICATION FairSpec
CONSTANTS
  Sessions = {s1}
  MaxConcurrentSessions = 0
  Procs = {p1}
  Streams = {"stdout", "stderr"}
  MaxLines = 2
  MaxOutput = 2
  Handlers = {h1}
  MaxProcessesPerSession = 1
  Payloads = {"small"}
  NoSession = NoSession
  NoProc = NoProc
INVARIANTS
  ReportedTimeoutIsReal
  SeqIsStrict
  OutputIsCapped
PROPERTIES
  EveryChildIsReaped
  TimerIsReleased
CHECK_DEADLOCK FALSE
