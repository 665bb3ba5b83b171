SPECIFICATION Spec
CONSTANTS
  Sources = {s1}
  Streams = {a}
  Timestamps = {1, 2, 3}
  NoTs = 0
  Caps = {1, 2}
  MaxTick = 2
  MaxDropped = 1
  Cutoffs = {2, 4}
  ClockTimes = {2}
  CallerTimes = {1, 2}
INVARIANTS SealedInOrder
PROPERTIES NoResurrection HeldStreamsKept StoredIsReadable ReadsAsLog ObservationSurvives FullStatementSurvives
