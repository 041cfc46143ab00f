SPECIFICATION Spec
CONSTANTS
  Node = {1, 2}
  Id = {1, 2, 3, 4, 5, 6}
  None = None
  RekeyOn = TRUE
  MaxQueue = 1
  MaxResends = 1
  Faults = {"setup", "ack", "frame", "late", "noroute", "forget"}
  MaxFaults = 1
CHECK_DEADLOCK FALSE
INVARIANTS NothingStranded HitlessRekey EndsAgree NobodyWaitsForNothing
