CONSTANTS
  a = a
  b = b
  m1 = m1
  m2 = m2
  Worker = {p}
  Work = {a, b}
  Module = {m1, m2}
  Target <- MCTarget
  Socket = {l, s}
  Listener = l
  InRange = {l, s}
  Capacity = 2
  System = {"zos", "linux", "aix", "windows"}
  AllHandled = FALSE
  EarlyWork = TRUE
  MaxArrivals = 3
  MaxCommands = 0
SPECIFICATION TimelySpec
PROPERTY WorkServed
CHECK_DEADLOCK FALSE
