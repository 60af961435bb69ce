SPECIFICATION FairHost
CONSTANTS
  h1 = h1
  h2 = h2
  m1 = m1
  m2 = m2
  c1 = c1
  c2 = c2
  Handler <- TwoHandlers
  Model = {m1}
  Tuning = {o1}
  Conversation = {c1}
  Requests <- EngineRequests
  MaxRequests = 2
  MaxLines = 2
  NoThread = NoThread
INVARIANTS
  HostTypeOK
  SettledWithoutServer
  ReadyHasServer
PROPERTIES
  HandlersReturn
  ShutdownEnds
CHECK_DEADLOCK FALSE
