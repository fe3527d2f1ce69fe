SPECIFICATION Spec
CONSTANTS
  m1 = m1  m2 = m2
  k1 = k1  k2 = k2  k3 = k3
  NoMsg = NoMsg  Main = Main  None = None
  Msgs = {m1, m2}  Commands = {k1, k2, k3}  MaxTasks = 2  MainCells = 1  FallbackCells = 1
  Signals = {"SEGV", "FPE"}  Flags <- MCFlags  MaxPushes = 3  MaxAbends = 2
  Conversations <- MCConversations  Short = 3  Medium = 5  Reads <- MCReads  Utf8 <- MCUtf8
  FrameSize = 12  BigEndian = TRUE  BufferSize = 1
  Chosen = {"tasks", "parser", "socket", "recovery", "cache", "schema", "configuration"}
  HttpStreams <- MCStreams
  Sizes <- MCSizes  Digests <- MCDigests  Things = {"x", "y"}  Place <- CachePlace
\* What clients send, what is logged and what is pushed comes to an end.
CHECK_DEADLOCK FALSE
INVARIANTS
  MessagesAccounted
  CallbacksBounded
  RequestsAsSent
  MalformedRefused
  MessagesAsSent
  AnswersAsWritten
  ChainIsOpenBlocks
  CleanedInOrder
  ListAndTableAgree
  VerdictAsMeant
  LoadedAsMeant
PROPERTIES
  LoggedIsPrinted
  EvictsOldest
