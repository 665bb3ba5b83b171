SPECIFICATION Spec
CONSTANTS
  Sources = {s1}
  Streams = {a}
  Timestamps = {1, 2, 3, 4}
  NoTs = 0
  MaxRows = {0, 2, 3}
CHECK_DEADLOCK FALSE
INVARIANT LastIsARow
