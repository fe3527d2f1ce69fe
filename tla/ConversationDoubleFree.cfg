SPECIFICATION Spec
CONSTANTS
  Conversation = {c1}
  Task = {t1, t2}
  Main = main
  Service = {s1, s2}
  TaskService = {s1}
  NoService = NoService
  NoConversation = NoConversation
  KeepAliveMax = 2
  MaxRequests = 2
  MaxPerFragment = 1
  PipelinedClient = TRUE
  LateAbend = TRUE
INVARIANT NoDoubleFree
