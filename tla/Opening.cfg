SPECIFICATION Spec
CONSTANTS
  Readers = {r1, r2}
  MaxCommits = 4
INVARIANTS NothingReadShort
PROPERTIES LeftForRecovery CommitsSurvive
CHECK_DEADLOCK FALSE
