CONSTANTS
  Groups <- MCGroups
  Shape <- MCShape
  ActiveSets <- MCActive
  MaxSteps = 2
  WorldSize = 5
  FirstStep = 9
  Keeps = {1, 2}
  Flaky = {4}
  LastStep = 11
  MaxRestarts = 1
SPECIFICATION Spec
INVARIANTS StepsAreExact Recoverable ResumesTheSave
PROPERTIES EveryOperationEnds
