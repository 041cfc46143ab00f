SPECIFICATION Spec
CONSTANTS
  Conn = {1, 2, 3}
  Try = {1, 2, 3}
  None = None
  Running = Running
  Failed = Failed
  DialerSets <- OneOrBoth
  MaxInbound = 3
  MaxResends <- ResendsForOne
  MaxPending = 1
  MaxFaults <- FaultsForOne
CHECK_DEADLOCK FALSE
INVARIANTS ReaderOwnsEntry EndsAgree
PROPERTIES Recovers
