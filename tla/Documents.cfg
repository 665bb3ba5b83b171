SPECIFICATION Spec
CONSTANTS
  Files = {f1, f2, f3}
  Names = {n}
  NoFile = none
  MaxRevisions = 4
  MaxCopying = 1
SYMMETRY FileSymmetry
INVARIANTS HistoryIsTrue NothingLostSilently
PROPERTIES ForksAreTrue
CHECK_DEADLOCK FALSE
