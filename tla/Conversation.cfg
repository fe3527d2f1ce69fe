SPECIFICATION WaitingSpec
CONSTANTS
  Conversation = {c1}
  Task = {t1, t2}
  Main = main
  Service = {s1, s2}
  TaskService = {s1}
  NoService = NoService
  NoConversation = NoConversation
  KeepAliveMax = 1
  MaxRequests = 2
  MaxPerFragment = 2
  PipelinedClient = TRUE
  LateAbend = TRUE
INVARIANTS
  TypeOK
  IInv
  RunningTasksExact
  NoUseAfterFree
  OneCloseInFlight
  
  RightServiceWaiting
PROPERTIES
  FlagsStick
  HangupOfWaiting
