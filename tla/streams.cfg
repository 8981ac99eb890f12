SPECIFICATION Spec
CONSTANTS
  p1 = p1
  p2 = p2
  Pages <- OnePage
  MaxPulls = 2
  MaxLines = 1
  MaxFaults = 1
INVARIANTS FollowsItsJob LogIsWhole
PROPERTY FollowersLearnTheEnd
CHECK_DEADLOCK FALSE
