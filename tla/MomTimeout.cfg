SPECIFICATION Spec
CONSTANTS
  Server = circd
  Clients = {c1}
  Patient = {}
  KillWindow = TRUE
  MaxRequests = 2
INVARIANTS
  NoMessageStranded
CHECK_DEADLOCK FALSE
