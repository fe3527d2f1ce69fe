SPECIFICATION Spec
CONSTANTS
  None = None
  Sizes = {0, 1, 2}  Digests = {11, 12, 13}  Things = {"x", "y"}  Place <- MCPlace
CHECK_DEADLOCK FALSE
INVARIANT LastGivenIsKept
