SPECIFICATION FairSpec
CONSTANTS
  Node = {1, 2, 3, 4, 5}
  Source = {1, 2}
  Target = 4
  Tree <- SmallTree
  Mesh <- SmallMesh
  Hints <- AllHints
  Exact <- UpToDate
  None = None
  MaxTtl = 4
  MaxAttempts = 2
  MaxQueue = 1
  MaxIds = 4
  MaxFaults = 1
CHECK_DEADLOCK FALSE
INVARIANTS  OneAnswer
