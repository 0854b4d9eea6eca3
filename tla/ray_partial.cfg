SPECIFICATION Spec
CONSTANTS
  w1 = w1
  w2 = w2
  w3 = w3
  p1 = p1
  p2 = p2
  h1 = h1
  h2 = h2
  Workers = {w1, w2, w3}
  Replicas = {p1, p2}
  Hosts = {h1, h2}
  ReplicaOf <- MCReplicaOf
  HostOf <- MCHostOf
  LastStep = 2
  FaultKinds = {"slow"}
  MaxFaults = 1
INVARIANT ServesWhatItsTagSays
