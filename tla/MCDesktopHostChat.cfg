SPECIFICATION HostSpec
CONSTANTS
  h1 = h1
  h2 = h2
  m1 = m1
  m2 = m2
  c1 = c1
  c2 = c2
  Handler <- TwoHandlers
  Model <- TwoModels
  Tuning = {o1}
  Conversation <- TwoConversations
  Requests <- ChatRequests
  MaxRequests = 3
  MaxLines = 1
  NoThread = NoThread
SYMMETRY Symmetry
INVARIANTS
  ThreadsJoined
  RepliesFollowQuestions
CHECK_DEADLOCK FALSE
