CONSTANTS
  Trainer = t
  Pool = {a, b}
  MaxRetired = 1
  MaxSyncs = 5
  MaxEvents = 1
  NumWorkers = 2
  Threads = {1, 2}
  Main = 1
  Processes = {1, 2, 3}
SPECIFICATION Spec
INVARIANTS WritesHaveBothEnds PinnedToRaysDevice AveragesDivideOnce
PROPERTIES NumaBindingTakesEffect QueriesMeetTheRuntime
