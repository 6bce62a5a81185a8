SPECIFICATION Spec
CONSTANTS
  Proc = {p1, p2}
  Res = {r1}
  NoProc = NoProc
  Signalled = {p1}
  MaxDepth = 1
INVARIANTS
  NoLockOutlivesItsOwner
CHECK_DEADLOCK FALSE
