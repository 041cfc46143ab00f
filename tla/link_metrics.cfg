CONSTANTS
  Delay = 1
  RekeyAge = 3
  Drain = 1
  Grace = 2
  Overtaking = FALSE
  Used = 2
  MaxOld = 3
  MaxNew = 4
  MaxFrames = 2
  MaxLost = 1
  MaxTime = 3
SPECIFICATION LinkSpec
INVARIANTS  TimesAreReal
CHECK_DEADLOCK FALSE
