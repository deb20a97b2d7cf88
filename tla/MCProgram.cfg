SPECIFICATION FairProgram
CONSTANTS
  Sessions = {s1}
  MaxConcurrentSessions = 0
  Procs = {p1}
  Streams = {}
  MaxLines = 0
  MaxOutput = 0
  Handlers = {h1, h2}
  MaxProcessesPerSession = 1
  Payloads = {"small", "large"}
  NoSession = NoSession
  NoProc = NoProc
  Terms = {t1}
  MaxPtyLines = 1
  MaxChildren = 1
  StdioLoop = h1
  HttpTransport <- OneOfEach
  h1 = h1
  h2 = h2
  NoTerm = NoTerm
  NoHandler = NoHandler
INVARIANTS
  ProgramTypeOK
  PtyGoneMeansAnnounced
  ChildOutlivesRequest
PROPERTIES
  ClosedTerminalEnds
  LeftChildrenEnd
CHECK_DEADLOCK FALSE
