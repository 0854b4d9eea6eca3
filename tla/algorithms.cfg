CONSTANTS
  MaxActors = 3
  MaxRollouts = 4
  MaxChains = 5
  Nodes = {n1, n2, n3}
  Hidden = 2
  Vocab = 4
  Inner = 4
  MoePad = 3
  Clusters <- MCClusters
  Environs <- MCEnvirons
  PoolSizes <- MCPoolSizes
  DispatchJobs <- MCJobs
  EntropyWorks <- MCWorks
SPECIFICATION Spec
INVARIANTS EveryNodeFedOnce RowsGoAndComeBack InstalledAsLoaded ReplicasCounted MeshIsThePool LogprobsAreExact GradientsAreWhole
CHECK_DEADLOCK FALSE
