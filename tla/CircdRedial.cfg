SPECIFICATION Spec
CONSTANTS
  dsl = dsl
  vpn = vpn
  Circuits = {dsl}
  Order <- OneOrder
  Protocols = {ipv4}
  AnyProtocol = any
  Deps <- Nothing
  WeakDeps <- Nothing
  WhenOnline = {dsl}
  UpAtBoot = {}
  AsksMode = {}
  BootMode = "auto"
  MaxFailures = 1
  Daemons = {d1}
  Commands <- UserCommands
  MaxCommands = 2
  MaxQueue = 1
INVARIANTS
  InactiveNotDialled
CHECK_DEADLOCK FALSE
