SPECIFICATION Spec
CONSTANTS
  Proc = {p1, p2, p3}
  NoProc = NoProc
  Writers = {p1, p2}
  SignalPoints <- SafePoints
  MaxDepth = 2
INVARIANTS
  TypeOK
  WriterAlone
  CountsAgree
  WaitingIsExact
  NothingLeftBehind
PROPERTIES
  WritersPreferred
  AbsSpec
CHECK_DEADLOCK FALSE
