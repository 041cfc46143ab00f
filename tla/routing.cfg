SPECIFICATION FairSpec
CONSTANTS
  Node = {1, 2, 3, 4, 5}
  Src = 4
  Dst = 5
  MaxTree = 2
  Coord <- Coords2
  Links <- Links2
  Filter <- Filter2
  Cost <- Costs
  None = None
  Ttl = 5
  Warmups = 2
  Evictable = {5}
  MaxAir = 1
  MaxFaults = 1
CHECK_DEADLOCK FALSE
PROPERTIES EachHopCloser BrokenMeansStale 
