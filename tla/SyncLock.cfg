SPECIFICATION FairSpec
CONSTANTS
  Proc = {p1, p2}
  Res = {r1, r2}
  NoProc = NoProc
  Signalled = {p1, p2}
  MaxDepth = 2
INVARIANTS
  TypeOK
  MutualExclusion
  RecordsAgree
  ExitTrapReleasesAll
PROPERTIES
  ExitTrapEnds
  AbsSpec
CHECK_DEADLOCK FALSE
