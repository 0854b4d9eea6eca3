CONSTANTS
  NumActors = 2
  NumRollouts = 3
  BucketSize = 8
  Loads <- MCLoads
  MaxErrors = 1
SPECIFICATION FairSpec
INVARIANT BuffersInOneUse
PROPERTIES ImplementsBroadcast EverySyncEnds
