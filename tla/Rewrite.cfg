SPECIFICATION Spec
CONSTANTS
  Sources = {s1}
  Streams = {a}
  Timestamps = {1, 2, 3, 4}
  NoTs = 0
  Written <- MCWritten
  Targets = {2, 3}
  Policies <- MCPolicies
  Cutoffs = {3}
  MaxPasses = 2
  CopySpecs <- MCCopySpecs
  Structural = {"t"}
INVARIANTS CopyIsComplete CopyIsAnArchive
PROPERTIES ReadsUnmoved ColumnsKeepTheirMeaning PassIsMaximal
CHECK_DEADLOCK FALSE
