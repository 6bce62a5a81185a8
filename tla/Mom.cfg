SPECIFICATION FairSpec
CONSTANTS
  Server = circd
  Clients = {c1, c2}
  Patient = {c1}
  KillWindow = FALSE
  MaxRequests = 2
INVARIANTS
  TypeOK
  OneBytePerMessage
  ReplyMatchesCall
  OneReplyPerCall
PROPERTIES
  PatientAnswered
  CallsEnd
CHECK_DEADLOCK FALSE
