SPECIFICATION FairSpec
CONSTANTS
  dsl = dsl
  vpn = vpn
  Circuits = {dsl}
  Order <- OneOrder
  Protocols = {ipv4}
  AnyProtocol = any
  Deps <- Nothing
  WeakDeps <- Nothing
  WhenOnline = {dsl}
  UpAtBoot = {}
  AsksMode = {}
  BootMode = "auto"
  MaxFailures = 0
  Daemons = {d1}
  Commands <- StopCommands
  MaxCommands = 3
  MaxQueue = 1
PROPERTIES
  ShutdownEnds
CHECK_DEADLOCK FALSE
