SPECIFICATION Spec
CONSTANTS
  dsl = dsl
  vpn = vpn
  Circuits = {dsl, vpn}
  Order <- MCOrder
  Protocols = {ipv4}
  AnyProtocol = any
  Deps <- Nothing
  WeakDeps <- VpnNeedsDslWeakly
  WhenOnline = {dsl}
  UpAtBoot = {dsl, vpn}
  AsksMode = {dsl}
  BootMode = "off"
  MaxFailures = 1
  Daemons = {d1, d2}
  Commands <- AllCommands
  MaxCommands = 2
  MaxQueue = 1
INVARIANTS
  RouterStateAgrees
  DependenciesHonoured
PROPERTIES
  NoDialWhenOff
CHECK_DEADLOCK FALSE
