CONSTANTS
  Trainers <- MCTrainers
  Rollouts <- MCRollouts
  Stripes <- MCStripes
  Leader <- MCLeader
  Prev <- MCPrev
  Near <- MCNear
  Fallible <- MCFallible
  NumSlots = 2
  NumActors = 2
  MaxChains = 2
  NodeOf <- OneNode
  Load <- OneAndEmpty
  FaultKinds = {}
  MaxFaults = 0
  FallibleActors = {}
  FallibleRollouts = {}
  Stale <- NoMessages
SPECIFICATION Spec
INVARIANT SuccessIsQuiet
