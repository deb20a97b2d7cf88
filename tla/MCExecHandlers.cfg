SPECIFICATION Spec
CONSTANTS
  Sessions = {s1}
  MaxConcurrentSessions = 0
  Procs = {p1, p2, p3}
  Streams = {}
  MaxLines = 0
  MaxOutput = 0
  Handlers = {h1, h2}
  MaxProcessesPerSession = 1
  Payloads = {"large"}
  NoSession = NoSession
  NoProc = NoProc
SYMMETRY Symmetry
INVARIANTS
  TypeOK
  OvershootIsBounded
  TimeoutKillIsReported
  CountMatches
  GoneMeansAnnounced
  NoStrayChild
CHECK_DEADLOCK FALSE
