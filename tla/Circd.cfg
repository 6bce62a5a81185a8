SPECIFICATION FairSpec
CONSTANTS
  dsl = dsl
  vpn = vpn
  Circuits = {dsl, vpn}
  Order <- MCOrder
  Protocols = {ipv4, ipv6}
  AnyProtocol = any
  Deps <- VpnNeedsDsl
  WeakDeps <- Nothing
  WhenOnline = {dsl}
  UpAtBoot = {}
  AsksMode = {dsl}
  BootMode = "auto"
  MaxFailures = 0
  Daemons = {d1, d2}
  Commands <- UserCommands
  MaxCommands = 2
  MaxQueue = 2
INVARIANTS
  TypeOK
  DependenciesHonoured
  NoCircuitForgotten
  OneDaemon
PROPERTIES
  AbsSpec
  HangupEnds
CHECK_DEADLOCK FALSE
