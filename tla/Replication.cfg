SPECIFICATION Spec
CONSTANTS
  Origin = o
  Copy = c
  Sources = {o, c}
  Streams = {a}
  Timestamps = {1, 2, 3}
  NoTs = 0
  Cutoffs = {2}
  EntryTimes = {1}
  ClockTimes = {1}
  Lossy = {"rows", "segment"}
  Sinces = {0, 2}
  MaxEntries = 2
  MaxWork = 4
  MaxLost = 1
  MaxPolls = 1
CHECK_DEADLOCK FALSE
INVARIANTS NoHole NothingRefused NothingSkipped
PROPERTIES GapMeansLoss 
