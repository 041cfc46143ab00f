SPECIFICATION FairFilterSpec
CONSTANTS
  Node = {0, 1, 2}
  Links <- Triangle
  Rising = {{0, 1}}
  Connected <- Triangle
  Start <- Star
  Settled = TRUE
  None = None
  StartCost = 1
  Costs = {1}
  HystNum = 1
  HystDen = 5
  Suppressed = {TRUE, FALSE}
  MayLose = FALSE
  Timely = TRUE
  MaxEvents = 2
  InOrder = TRUE
CHECK_DEADLOCK FALSE
INVARIANTS SimplePaths CoordsFollowParent SequenceIdentifiesPath CalmTree 
PROPERTIES FiltersSettle
