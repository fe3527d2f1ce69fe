CONSTANTS
  a = a
  b = b
  m1 = m1
  m2 = m2
  Worker = {p, q}
  Work = {a, b}
  Module = {m1, m2}
  Target <- MCTarget
  Socket = {l, s, t}
  Listener = l
  InRange = {l, s}
  Capacity = 2
  System = {"zos", "linux", "aix", "windows"}
  AllHandled = TRUE
  EarlyWork = FALSE
  MaxArrivals = 2
  MaxCommands = 1
SPECIFICATION PromptSpec
CHECK_DEADLOCK FALSE
INVARIANTS
  TypeOK
  NoLostWakeup
  NoLostStop
  SocketSetKept
PROPERTIES
  PromptWork
  StopEnds
  SocketServed
