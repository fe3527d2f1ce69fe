CONSTANTS
  a = a
  b = b
  m1 = m1
  m2 = m2
  Worker = {p}
  Work = {a}
  Module = {m1, m2}
  Target <- MCTarget
  Socket = {l}
  Listener = l
  InRange = {l}
  Capacity = 1
  System = {"windows"}
  AllHandled = FALSE
  EarlyWork = FALSE
  MaxArrivals = 2
  MaxCommands = 0
SPECIFICATION Spec
INVARIANT NoStuckSocket
CHECK_DEADLOCK FALSE
