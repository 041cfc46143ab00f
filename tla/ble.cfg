SPECIFICATION FairSpec
CONSTANTS
  Node = {1, 2, 3}
  Stream = {1, 2, 3}
  None = None
  Settings <- PairAndLine
CHECK_DEADLOCK FALSE
INVARIANTS OnlyOwnEntry EndsAgree
 
