SPECIFICATION PSpec
CONSTANTS
  LastChannel = 1
  isdn1 = isdn1
  isdn2 = isdn2
  dsl = dsl
  isp = isp
  peer = peer
  Circuits = {isdn1, isdn2, dsl}
  NoCircuit = NoCircuit
  Lines <- MCLines
  Calls <- MCCalls
  Absent = Absent
  Idle = Idle
  Bundled = {isdn1}
  BandwidthTime = 2
  HourOf <- MCHourOf
  Budgets <- MCBudgets
  MaxTime = 6
  MAX_CLIENTS = 2
  Passwords = {secret, topsecret}
  NoPass = NoPass
  Years <- MCYears
  key1 = key1
  key2 = key2
  key3 = key3
  a1 = a1
  a2 = a2
  b1 = b1
  b2 = b2
  c1 = c1
  Hole = Hole
  NumModules = 3
  Unlisted = Unlisted
  pppd = pppd
  ip = ip
  libc = libc
  libcrypt = libcrypt
  libcrypt_own = libcrypt_own
  libz = libz
  libm = libm
  link = link
  None = None
INVARIANTS
  WellFormed
  OnlineAgrees
  RightsEarned
  HolidaysRight
PROPERTIES
  ChargeNeverFalls
  LinkAddedInTime
  RouteFollowed
  MapAgrees
  ModulesPlaced
  LibrariesPlaced
CHECK_DEADLOCK FALSE
