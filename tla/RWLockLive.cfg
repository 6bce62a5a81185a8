SPECIFICATION FairSpec
CONSTANTS
  Proc = {p1, p2, p3}
  NoProc = NoProc
  Writers = {p1}
  SignalPoints <- SafePoints
  MaxDepth = 1
PROPERTIES
  WritersNotStarved
  ExitTrapEnds
CHECK_DEADLOCK FALSE
