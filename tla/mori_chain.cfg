CONSTANTS
  Trainers <- MCTrainers
  Rollouts <- MCRollouts
  Stripes <- MCStripes
  Leader <- MCLeader
  Prev <- MCPrev
  Near <- MCNear
  Fallible <- MCFallible
  NumSlots = 2
  NumActors = 1
  MaxChains = 2
  NodeOf <- TwoNodes
  Load <- ThreeBuckets
  FaultKinds = {}
  MaxFaults = 0
  FallibleActors = {}
  FallibleRollouts = {}
  Stale <- StaleMessages
SPECIFICATION FairSpec
INVARIANT Delivery
PROPERTIES EveryoneSucceeds ImplementsBroadcast
