CONSTANTS
  NumActors = 2
  NumRollouts = 1
  BucketSize = 8
  Loads <- MCLoads
  MaxErrors = 1
SPECIFICATION FairSpec
INVARIANT NobodyIsRefused

