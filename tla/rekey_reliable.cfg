SPECIFICATION Spec
CONSTANTS
  Small = n1
  Large = n2
  Index = {i1, i2, i3, i4}
  None = None
  RekeyChoices <- BothOrOne
  RekeyAfter = 4
  MinRekeyAge = 4
  Dampening = 4
  DrainWindow = 2
  LinkDead = 5
  Heartbeat = 2
  FailureLimit = 2
  MaxFresh = 3
  MaxInFlight = 3
  MaxTraffic = 2
  MaxAge = 0
  ManyTicks = TRUE
  MayLose = FALSE
  MayDuplicate = FALSE
  MayReorder = FALSE
SYMMETRY IndexSymmetry
CHECK_DEADLOCK FALSE
INVARIANTS HitlessCutover ConvergedWhenQuiet
