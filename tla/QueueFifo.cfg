SPECIFICATION MCSpec
CONSTANTS
  Thread = {t1, t2, t3}
  Block = {b1, b2}
  Value = {v1, v2}
  Null = Null
  Serialization = "plo"
  CounterMax = 3
SYMMETRY Symmetry
INVARIANTS
  ListShape
  WindowValid
  QInvOfKind
PROPERTIES
  ImplementsFifo
  RetryEarned
