SPECIFICATION Spec
CONSTANTS
  Sources = {s1, s2}
  Streams = {a}
  Timestamps = {1, 2}
  NoTs = 0
  Caps = {9}
  MaxTick = 2
  MaxDropped = 2
  Cutoffs = {2}
  ClockTimes = {}
  CallerTimes = {}
PROPERTIES WalAboveFloor
