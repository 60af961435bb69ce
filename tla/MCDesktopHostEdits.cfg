SPECIFICATION HostSpec
CONSTANTS
  h1 = h1
  h2 = h2
  m1 = m1
  m2 = m2
  c1 = c1
  c2 = c2
  Handler <- TwoHandlers
  Model = {m1}
  Tuning = {o1, o2}
  Conversation = {c1}
  Requests <- SettingsRequests
  MaxRequests = 3
  MaxLines = 1
  NoThread = NoThread
SYMMETRY Symmetry
INVARIANT
  EditsSurvive
CHECK_DEADLOCK FALSE
