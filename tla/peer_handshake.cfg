SPECIFICATION Spec
CONSTANTS
  Node = {1, 2}
  LinkId = {1, 2, 3, 4, 5}
  Index = {1, 2, 3, 4, 5, 6, 7, 8}
  None = None
  AutoConnect <- Both
  RekeyOn = TRUE
  MaxPeers = 1
  MaxRetries = 1
  MaxResends = 1
  MaxFaults = 1
  MaxRefusals = 1
CHECK_DEADLOCK FALSE
INVARIANTS IndexAccounting  EndsAgree
PROPERTIES Settles
