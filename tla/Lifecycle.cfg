SPECIFICATION Spec
CONSTANTS
  Sources = {s1}
  Watched = {s1}
  StoppedAfter = 3
  MaxSessions = 3
  MaxRows = 2
INVARIANTS SessionsListed StoppedIsSilent
PROPERTIES CompleteIsFrozen StoppedIsNoticed
