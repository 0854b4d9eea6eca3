CONSTANTS
  NumActors = 3
  NumRollouts = 2
  BucketSize = 8
  Align = 2
  Loads <- MCLoads
  NodeOf <- MCNodeOf
  LateOnes <- NoOne
SPECIFICATION FairSpec
INVARIANT BuffersOutliveBroadcasts
PROPERTIES ImplementsBroadcast EverySyncEnds
