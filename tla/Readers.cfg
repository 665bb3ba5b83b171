SPECIFICATION ReaderSpec
CONSTANTS
  Sources = {s1}
  Streams = {a, b}
  Timestamps = {1, 2}
  NoTs = 0
  Written <- MCWritten
  Targets = {9}
  Policies <- MCPolicies
  Cutoffs = {2}
  MaxPasses = 1
  RangeFrom = 2
  RangeTo = 2
SYMMETRY StreamSymmetry
INVARIANTS ReadIsOneInstant
