CONSTANTS
  Trainers <- MCTrainers
  Rollouts <- MCRollouts
  Stripes <- MCStripes
  Leader <- MCLeader
  Prev <- MCPrev
  Near <- MCNear
  Fallible <- MCFallible
  NumSlots = 2
  NumActors = 2
  MaxChains = 1
  NodeOf <- Single
  Load <- ThreeBuckets
  FaultKinds = {"timeout", "status", "interrupt", "close", "pump", "step", "lost"}
  MaxFaults = 1
  FallibleActors = {0}
  FallibleRollouts = {0}
  Stale <- NoMessages
SPECIFICATION FairSpec
INVARIANTS NoSlotOverwrittenInUse WrittenOnlyWhileGuarded DeliveredInOrder
PROPERTY EveryoneStops
