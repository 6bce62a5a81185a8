------------------------------ MODULE MCCircd ------------------------------
(* Instances of Circd for TLC. *)
EXTENDS Circd, TLC

CONSTANTS dsl, vpn   \* two circuits; vpn depends on dsl

MCOrder == <<dsl, vpn>>
OneOrder == <<dsl>>

VpnNeedsDsl == (dsl :> {}) @@ (vpn :> {<<dsl, AnyProtocol>>})
VpnNeedsDslWeakly == (dsl :> {}) @@ (vpn :> {dsl})
Nothing == [c \in Circuits |-> {}]

UserCommands ==
  [type : {"activate", "hangup", "deactivate"}, circuit : Circuits]
    \cup [type : {"set_global_dialmode"}, mode : {"off", "auto"}]

AllCommands == Command

StopCommands == [type : {"activate", "hangup"}, circuit : Circuits]
                  \cup [type : {"stop_service"}]
=============================================================================
