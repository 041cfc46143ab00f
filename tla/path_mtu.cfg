SPECIFICATION Spec
CONSTANTS
  Routes <- SomeRoutes
  TransportMtu <- Transport
  Packet = {4}
  Unknown = 5
  None = None
  Interval <- Intervals
  Overhead = 1
  Coords = 1
  MaxAir = 1
  MaxChanges = 2
INVARIANTS NeverTooLow
PROPERTIES NoFlapping Follows
