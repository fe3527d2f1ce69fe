SPECIFICATION FairSpec
CONSTANTS
  Conversation = {c1}
  Task = {t1, t2}
  Main = main
  Service = {s1}
  TaskService = {s1}
  NoService = NoService
  NoConversation = NoConversation
  KeepAliveMax = 2
  MaxRequests = 2
  MaxPerFragment = 1
  PipelinedClient = TRUE
  LateAbend = FALSE
PROPERTY HangupLeadsToFree
