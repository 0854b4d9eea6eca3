SPECIFICATION FairSpec
CONSTANTS
  Ranks = {r1, r2}
  Replicas = {p1, p2}
  r1 = r1
  r2 = r2
  p1 = p1
  p2 = p2
  LastStep = 3
  Options <- AllOptions
  FaultKinds = {"elastic", "relayout", "shapes", "send", "init", "transfer", "damage", "install", "stats"}
  MaxFaults = 2
INVARIANTS Sound ServesWhatItsTagSays SyncedAfterWait
PROPERTIES ImplementsPromise PausedEndsOrStops FailureSurfaces
