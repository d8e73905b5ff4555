CONSTANTS
  v1 = v1
  v2 = v2
  v3 = v3
  v4 = v4
  v5 = v5
  Values <- FiveValues
  Hash <- Hashes
  MaxBucketSize = 2
  MaxLen = 6
SPECIFICATION FairSpec
INVARIANTS TableOK ForeachComplete
PROPERTIES ImplementsSet ForeachEnds
