SPECIFICATION Spec
CONSTANTS
  Origin = o
  Copy = c
  Sources = {o, c}
  Streams = {a}
  Timestamps = {1, 2}
  NoTs = 0
  Cutoffs = {2}
  EntryTimes = {1}
  ClockTimes = {}
  Lossy = {"index"}
  Sinces = {0, 2}
  MaxEntries = 3
  MaxWork = 4
  MaxLost = 1
  MaxPolls = 1
CHECK_DEADLOCK FALSE
PROPERTY RowsAttributed
