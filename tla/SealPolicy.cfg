SPECIFICATION PolicySpec
CONSTANTS
  thin = thin
  wide = wide
  Sources = {s1}
  Streams = {thin, wide}
  Timestamps <- MCTimestamps
  NoTs <- MCNoTs
  MaxRows = {0}
  Policies <- MCPolicies
  RowBytes <- MCRowBytes
  StaggerBuckets = 2
  Bucket <- MCBucket
  Lossy = {wide}
  Loose = 3
CHECK_DEADLOCK FALSE
INVARIANTS SealIsEncoding NothingHidden BucketsKept SealsAreEarned NeverTogether
