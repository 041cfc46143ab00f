SPECIFICATION Spec
CONSTANTS
  Small = n1
  Large = n2
  Index = {i1, i2, i3}
  None = None
  RekeyChoices <- BothOrOne
  RekeyAfter = 3
  MinRekeyAge = 3
  Dampening = 3
  DrainWindow = 1
  LinkDead = 2
  Heartbeat = 1
  FailureLimit = 2
  MaxFresh = 2
  MaxInFlight = 2
  MaxTraffic = 1
  MaxAge = 0
  ManyTicks = TRUE
  MayLose = TRUE
  MayDuplicate = TRUE
  MayReorder = TRUE
SYMMETRY IndexSymmetry
CHECK_DEADLOCK FALSE
INVARIANTS IndexSafety  
