SPECIFICATION Spec
CONSTANTS
  Proc = {p1, p2}
  NoProc = NoProc
  Writers = {p1}
  SignalPoints <- PollPoint
  MaxDepth = 1
INVARIANTS
  OnlyWritersHoldUpReaders
CHECK_DEADLOCK FALSE
