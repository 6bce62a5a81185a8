------------------------------- MODULE Circd -------------------------------
(***************************************************************************)
(* circd, the circuit daemon (usr/share/circuits/circd): the state machine *)
(* of every circuit, the dial modes, the dependencies between circuits and *)
(* the shutdown, together with the processes circd talks to: the queue     *)
(* process of each circuit, which runs the circuit's control script, and   *)
(* the daemon (pppd, a DHCP client, ...) which that script asks circd to   *)
(* start and which reports its layer-3 protocols.                          *)
(*                                                                         *)
(* circd runs one message handler after the other, in the order of its     *)
(* message queue, "inbox".  Handlers call circd_change_state, which calls  *)
(* itself again through circd_handle_state_change, circd_circuit_autodialup*)
(* and circd_initiate_dialup, for the circuit itself and for the ones that *)
(* depend on it.  "todo" is the rest of the running handler: the calls yet *)
(* to be made, innermost first.  A step of circd carries out the first of  *)
(* them; other processes run in between, no other handler does.            *)
(*                                                                         *)
(* Modelled are circuits that are controlled by a daemon and depend on     *)
(* other circuits by name.  Clones (the state "deleted"), bundle links     *)
(* (link events, forced hangups), circuit classes and control scripts that *)
(* bring a protocol up without a daemon are not part of this module.       *)
(***************************************************************************)
EXTENDS Naturals, Sequences, FiniteSets

CONSTANTS
  Circuits,     \* circuit identifiers
  Order,        \* the same as a sequence: the order of their creation
  Protocols,    \* circ_protocols: layer-3 protocols, the same for every circuit
  AnyProtocol,          \* in a dependency: no protocol in particular
  Deps,         \* circ_deps: Deps[c] is a set of pairs <<circuit, protocol or AnyProtocol>>
  WeakDeps,     \* circ_bundle and circ_origin: WeakDeps[c] is a set of circuits
  WhenOnline,   \* the circuits that make the router online (CIRCUITS_WHEN_ONLINE)
  UpAtBoot,     \* the circuits with CIRC_x_UP='yes'
  AsksMode,     \* the circuits whose script asks circd for the dial mode: those of pppd
  BootMode,     \* the dial mode at the start of the model, see Init
  MaxFailures,  \* bound: how many times a control script fails to dial
  Daemons,      \* bound: the process identifiers daemons can have
  Commands,     \* the messages fli4lctrl may send, see Command
  MaxCommands,  \* bound: how many of them
  MaxQueue      \* bound: a running daemon reports nothing while an inbox is that
                \* long, or the queue of a queue process longer

Mode == {"off", "manual", "auto"}
State == {"inactive", "active", "ready", "semionline", "online", "failed"}
Up == {"ready", "semionline", "online"}

(* What a queue process is doing: nothing, one of the two scripts, or none *)
(* of it any more.  A dial script may be waiting for circd's reply         *)
(* ("asks") or have read it.                                               *)
Work == {"idle", "dial", "asks", "allowed", "refused", "hangup", "gone"}

CircuitCommand == {"activate", "dialup", "hangup", "deactivate", "fail"}

Command ==
  [type : CircuitCommand, circuit : Circuits]
    \cup [type : {"set_global_dialmode"}, mode : Mode]
    \cup [type : {"set_local_dialmode"}, circuit : Circuits, mode : Mode]
    \cup [type : {"stop_service"}]

ASSUME CircdAssumption ==
  /\ Order \in Seq(Circuits) /\ Order # <<>>
  /\ \A c \in Circuits : Cardinality({i \in DOMAIN Order : Order[i] = c}) = 1
  /\ Protocols # {} /\ AnyProtocol \notin Protocols
  /\ Deps \in [Circuits -> SUBSET (Circuits \X (Protocols \cup {AnyProtocol}))]
  /\ WeakDeps \in [Circuits -> SUBSET Circuits]
  /\ WhenOnline \subseteq Circuits
  /\ UpAtBoot \subseteq Circuits
  /\ AsksMode \subseteq Circuits
  /\ BootMode \in Mode /\ (BootMode = "auto" => UpAtBoot = {})
  /\ Commands \subseteq Command
  /\ MaxFailures \in Nat /\ MaxCommands \in Nat /\ MaxQueue \in Nat

VARIABLES
  state,          \* state[c]: which states/ directory lists c
  operation,      \* circ_current_operation: "none", "dial" or "hangup"
  hangup_state,   \* circ_hangup_state, "none" if empty
  protocols_up,   \* circ_protocols_up
  router_state,   \* the contents of $router_state_file
  global_mode,    \* the contents of $dialmode_file
  local_mode,     \* $local_dialmodes_file
  daemons,        \* $daemons_file: daemons[c] is a set of pairs <<TERM or HANGUP, pid>>
  shutting_down,  \* circd_shutting_down
  children,       \* circd_children: <<"q", circuit>>, or <<"d", pid>> for a wrapper
  running,        \* circd has not left its message loop
  todo,           \* calls left to make in the running handler
  inbox,          \* messages for circd
  queue,          \* queue[c]: messages for the queue process of c
  worker,         \* worker[c]: what the queue process of c is doing
  translated,     \* translated[c]: circ_dev_translated is set
  process,        \* process[d]: is d running, or has it been told to terminate?
  owner,          \* owner[d]: the circuit the daemon d is or was the last to serve
  named,          \* the daemons whose wrapper has the endpoint CIRCUIT:d
  net,            \* net[d]: the protocols the daemon d has up
  commands,       \* how many commands have been sent
  failures        \* how many attempts to dial have failed

circuit == <<state, operation, hangup_state, protocols_up, router_state>>
modes == <<global_mode, local_mode>>
service == <<shutting_down, children, running>>
scripts == <<worker, translated>>
world == <<process, owner, named, net>>
bounds == <<commands, failures>>
vars == <<circuit, modes, daemons, service, todo, inbox, queue, scripts, world, bounds>>

Circd == <<"circd">>   \* the sender of a message that comes from circd itself

Message ==
  Command \cup [type : {"up", "down"}, circuit : Circuits, protocol : Protocols]
          \cup [type : {"dialup_failed", "hangup_failed", "start_daemon",
                        "stop_daemon", "get_effective_dialmode"}, circuit : Circuits]
          \cup [type : {"daemon_exited"}, daemon : Daemons]
          \cup [type : {"child_exited"}, child : ({"q"} \X Circuits) \cup ({"d"} \X Daemons) \cup {Circd}]

(* A call: the function, or the part of a function after a call it makes.  *)
Call ==
  [fn : {"change_state"}, circuit : Circuits, to : State]
    \cup [fn : {"react"}, circuit : Circuits, changed : Circuits, to : State,
          position : {0} \cup DOMAIN Order]
    \cup [fn : {"mode_change"}, circuit : Circuits, old : Mode, mode : Mode]
    \cup [fn : {"finalize_hangup", "dialled", "went_online", "hung_up",
                "not_dialled", "stop_queue"}, circuit : Circuits]

TypeOK ==
  /\ state \in [Circuits -> State]
  /\ operation \in [Circuits -> {"none", "dial", "hangup"}]
  /\ hangup_state \in [Circuits -> {"none", "active", "inactive", "failed"}]
  /\ protocols_up \in [Circuits -> SUBSET Protocols]
  /\ router_state \in {"online", "offline"}
  /\ global_mode \in Mode
  /\ local_mode \in [Circuits -> Mode]
  /\ daemons \in [Circuits -> SUBSET ({"TERM", "HANGUP"} \X Daemons)]
  /\ shutting_down \in BOOLEAN
  /\ children \subseteq ({"q"} \X Circuits) \cup ({"d"} \X Daemons)
  /\ running \in BOOLEAN
  /\ todo \in Seq(Call)
  /\ inbox \in Seq(Message)
  /\ queue \in [Circuits -> Seq({"dial", "hangup", "quit"})]
  /\ worker \in [Circuits -> Work]
  /\ translated \in [Circuits -> BOOLEAN]
  /\ process \in [Daemons -> {"none", "running", "killed"}]
  /\ owner \in [Daemons -> Circuits]
  /\ named \subseteq Daemons
  /\ net \in [Daemons -> SUBSET Protocols]
  /\ commands \in 0..MaxCommands
  /\ failures \in 0..MaxFailures

(* The circuits have been created and have their queue processes; the ones *)
(* with CIRC_x_UP='yes' have been activated.  The dial mode is "off", as   *)
(* circd initialises it, or has been set by rc498.circd; then the model    *)
(* starts without active circuits, for "auto" would have dialled them.     *)
Init ==
  /\ state = [c \in Circuits |-> IF c \in UpAtBoot THEN "active" ELSE "inactive"]
  /\ operation = [c \in Circuits |-> "none"]
  /\ hangup_state = [c \in Circuits |-> "none"]
  /\ protocols_up = [c \in Circuits |-> {}]
  /\ router_state = "offline"
  /\ global_mode = BootMode
  /\ local_mode = [c \in Circuits |-> "auto"]
  /\ daemons = [c \in Circuits |-> {}]
  /\ shutting_down = FALSE
  /\ children = {"q"} \X Circuits
  /\ running = TRUE
  /\ todo = <<>>
  /\ inbox = <<>>
  /\ queue = [c \in Circuits |-> <<>>]
  /\ worker = [c \in Circuits |-> "idle"]
  /\ translated = [c \in Circuits |-> FALSE]
  /\ process = [d \in Daemons |-> "none"]
  /\ owner = [d \in Daemons |-> Head(Order)]
  /\ named = {}
  /\ net = [d \in Daemons |-> {}]
  /\ commands = 0
  /\ failures = 0

-----------------------------------------------------------------------------
(* What circd asks about circuits *)

Smaller(a, b) == CASE "off" \in {a, b} -> "off"
                   [] "off" \notin {a, b} /\ "manual" \in {a, b} -> "manual"
                   [] OTHER -> "auto"

(* circd_get_effective_dialmode *)
EffectiveMode(c) == Smaller(global_mode, local_mode[c])

(* Faulty variant: a circuit that is being hung up still counts. *)
FaultyIsOnline(c, p) == IF p = AnyProtocol THEN state[c] = "online" ELSE p \in protocols_up[c]

(* circd_is_online *)
IsOnline(c, p) ==
  /\ IF p = AnyProtocol THEN state[c] = "online" ELSE p \in protocols_up[c]
  /\ operation[c] # "hangup"

(* circd_is_at_least_ready *)
IsAtLeastReady(c, hangup_check) ==
  state[c] \in Up /\ (hangup_check => operation[c] # "hangup")

(* circd_check_dependencies and circd_check_weak_dependencies *)
DependenciesMet(c, hangup_check) ==
  /\ \A d \in Deps[c] : IsOnline(d[1], d[2])
  /\ \A d \in WeakDeps[c] : IsAtLeastReady(d, hangup_check)

(* circd_router_is_online *)
RouterIsOnline(st) == \E c \in WhenOnline : st[c] = "online"

(* Faulty variant: going offline is forgotten. *)
FaultyRouterState(st, new) ==
  IF router_state = "offline" /\ new = "online" /\ RouterIsOnline(st)
  THEN "online" ELSE router_state

(* What circd_change_state writes into $router_state_file when a circuit   *)
(* has reached the state new.                                              *)
RouterState(st, new) ==
  CASE router_state = "offline" /\ new = "online" /\ RouterIsOnline(st) -> "online"
    [] router_state = "online" /\ new # "online" /\ ~RouterIsOnline(st) -> "offline"
    [] OTHER -> router_state

(* Faulty variant: weak dependencies are not recorded. *)
FaultyDependents(c) == {x \in Circuits : \E d \in Deps[x] : d[1] = c}

(* circd_revdeps_<c>, filled by circd_circuit_postprocessing in the order  *)
(* in which circuits are created                                           *)
Dependents(c) ==
  {x \in Circuits : c \in WeakDeps[x] \/ \E d \in Deps[x] : d[1] = c}

-----------------------------------------------------------------------------
(* The calls *)

ChangeState(c, s) == [fn |-> "change_state", circuit |-> c, to |-> s]
FinalizeHangup(c) == [fn |-> "finalize_hangup", circuit |-> c]
After(what, c) == [fn |-> what, circuit |-> c]

(* circd_initiate_dialup *)
InitiateDialup(c) == <<ChangeState(c, "ready"), After("dialled", c)>>

(* The running call is replaced by the calls it makes. *)
Run(calls) == todo' = calls \o Tail(todo)
Return == Run(<<>>)

Running(fn) == todo # <<>> /\ Head(todo).fn = fn

(* A message to a queue process.  After its end nobody receives it. *)
ToQueue(c, m) ==
  queue' = IF worker[c] = "gone" THEN queue ELSE [queue EXCEPT ![c] = Append(@, m)]

(* circd_circuit_hangup, with circd_initiate_hangup *)
CircuitHangup(c, target) ==
  IF operation[c] = "hangup"
  THEN UNCHANGED <<operation, hangup_state, queue>>
  ELSE /\ operation' = [operation EXCEPT ![c] = "hangup"]
       /\ hangup_state' = [hangup_state EXCEPT ![c] = target]
       /\ ToQueue(c, "hangup")

(* The loop of circd_handle_state_change looks at the circuit c whose      *)
(* state is now s, then at its dependents; position is how far it has come *)
(* in Order.                                                               *)
React(x, c, s, i) ==
  [fn |-> "react", circuit |-> x, changed |-> c, to |-> s, position |-> i]

(* Faulty variant: only the circuit itself is looked at. *)
FaultyNextRound(c, s, i) == <<>>

NextRound(c, s, i) ==
  LET left == {j \in DOMAIN Order : j > i /\ Order[j] \in Dependents(c)}
      first == {j \in left : \A k \in left : j <= k}
  IN  IF first = {} THEN <<>>
      ELSE LET j == CHOOSE j \in first : TRUE IN <<React(Order[j], c, s, j)>>

(* circd_change_state *)
DoChangeState ==
  /\ Running("change_state")
  /\ LET c == Head(todo).circuit
         new == Head(todo).to
         stop == IF shutting_down /\ new \in {"inactive", "failed"}
                 THEN <<After("stop_queue", c)>> ELSE <<>>
     IN  IF state[c] = new
         THEN Run(stop) /\ UNCHANGED <<state, router_state>>
         ELSE /\ state' = [state EXCEPT ![c] = new]
              /\ router_state' = RouterState(state', new)
              /\ Run(<<React(c, c, new, 0)>> \o stop)
  /\ UNCHANGED <<operation, hangup_state, protocols_up, modes, daemons, service,
                 inbox, queue, scripts, world, bounds>>

(* One round of the loop in circd_handle_state_change.  The state of the   *)
(* circuit that has changed is not looked up again.                        *)
DoReact ==
  /\ Running("react")
  /\ LET x == Head(todo).circuit
         c == Head(todo).changed
         s == IF x = c THEN Head(todo).to ELSE state[x]
         rest == NextRound(c, Head(todo).to, Head(todo).position)
     IN  IF s = "active" /\ EffectiveMode(x) = "auto" /\ DependenciesMet(x, TRUE)
         THEN /\ Run(InitiateDialup(x) \o rest)
              /\ UNCHANGED <<operation, hangup_state, queue>>
         ELSE /\ Run(rest)
              /\ IF s \in Up /\ ~DependenciesMet(x, FALSE)
                 THEN CircuitHangup(x, "active")
                 ELSE UNCHANGED <<operation, hangup_state, queue>>
  /\ UNCHANGED <<state, protocols_up, router_state, modes, daemons, service,
                 inbox, scripts, world, bounds>>

(* circd_handle_effective_dialmode_change, called if the mode has changed *)
DoModeChange ==
  /\ Running("mode_change")
  /\ LET c == Head(todo).circuit
         m == Head(todo).mode
         changed == Head(todo).old # m
     IN  IF changed /\ m = "auto" /\ state[c] = "active" /\ DependenciesMet(c, TRUE)
         THEN Run(InitiateDialup(c)) /\ UNCHANGED <<operation, hangup_state, queue>>
         ELSE /\ Return
              /\ IF /\ changed
                    /\ \/ m = "manual" /\ state[c] = "ready"
                       \/ m = "off" /\ state[c] \in Up
                 THEN CircuitHangup(c, "active")
                 ELSE UNCHANGED <<operation, hangup_state, queue>>
  /\ UNCHANGED <<state, protocols_up, router_state, modes, daemons, service,
                 inbox, scripts, world, bounds>>

(* The rest of circd_initiate_dialup *)
Dialled ==
  /\ Running("dialled")
  /\ LET c == Head(todo).circuit
     IN  /\ operation' = [operation EXCEPT ![c] = "dial"]
         /\ ToQueue(c, "dial")
  /\ Return
  /\ UNCHANGED <<state, hangup_state, protocols_up, router_state, modes, daemons,
                 service, inbox, scripts, world, bounds>>

(* The daemons registered for c as kind *)
Registered(c, kind) == {d \in Daemons : <<kind, d>> \in daemons[c]}

Deregistered(c, kind) == {r \in daemons[c] : r[1] # kind}

(* Faulty variant: a circuit whose daemon is still running is not spared. *)
FaultyHangupDelayed(c) == protocols_up[c] # {}

(* circd_finalize_hangup returns early: it will be called again when the   *)
(* last protocol is down, or when the daemon has terminated.               *)
HangupDelayed(c) == protocols_up[c] # {} \/ Registered(c, "HANGUP") # {}

(* circd_finalize_hangup *)
DoFinalizeHangup ==
  /\ Running("finalize_hangup")
  /\ LET c == Head(todo).circuit
         target == IF hangup_state[c] = "none" THEN "active" ELSE hangup_state[c]
         idle == state[c] \in {"inactive", "failed", "active"} /\ target = "active"
     IN  Run(CASE HangupDelayed(c) -> <<>>
               [] ~HangupDelayed(c) /\ idle -> <<After("hung_up", c)>>
               [] OTHER -> <<ChangeState(c, target), After("hung_up", c)>>)
  /\ UNCHANGED <<circuit, modes, daemons, service, inbox, queue, scripts, world, bounds>>

(* Faulty variant: the operation is left as it is. *)
FaultyAfterHangup(op) == op

AfterHangup(op) == IF op = "hangup" THEN "none" ELSE op

(* The rest of circd_finalize_hangup *)
HungUp ==
  /\ Running("hung_up")
  /\ LET c == Head(todo).circuit
     IN  /\ operation' = [operation EXCEPT ![c] = AfterHangup(@)]
         /\ hangup_state' = [hangup_state EXCEPT ![c] = "none"]
         /\ daemons' = [daemons EXCEPT ![c] = Deregistered(c, "HANGUP")]
  /\ Return
  /\ UNCHANGED <<state, protocols_up, router_state, modes, service, inbox, queue,
                 scripts, world, bounds>>

(* The rest of circd_go_online_if_possible *)
WentOnline ==
  /\ Running("went_online")
  /\ operation' = [operation EXCEPT ![Head(todo).circuit] = IF @ = "dial" THEN "none" ELSE @]
  /\ Return
  /\ UNCHANGED <<state, hangup_state, protocols_up, router_state, modes, daemons,
                 service, inbox, queue, scripts, world, bounds>>

(* The rest of handle_dialup_control_circuit_event *)
NotDialled ==
  /\ Running("not_dialled")
  /\ operation' = [operation EXCEPT ![Head(todo).circuit] = "none"]
  /\ Return
  /\ UNCHANGED <<state, hangup_state, protocols_up, router_state, modes, daemons,
                 service, inbox, queue, scripts, world, bounds>>

(* circd_stop_queue *)
StopQueue ==
  /\ Running("stop_queue")
  /\ ToQueue(Head(todo).circuit, "quit")
  /\ Return
  /\ UNCHANGED <<circuit, modes, daemons, service, inbox, scripts, world, bounds>>

CircdCall == \/ DoChangeState \/ DoReact \/ DoModeChange \/ Dialled
             \/ DoFinalizeHangup \/ HungUp \/ WentOnline \/ NotDialled \/ StopQueue

-----------------------------------------------------------------------------
(* The message handlers of circd *)

(* circd's message loop takes the first message and calls its handler. *)
Receives(type) ==
  /\ running /\ todo = <<>> /\ inbox # <<>> /\ Head(inbox).type = type

Msg == Head(inbox)

(* handle_activate_circuit_message *)
HandleActivate ==
  /\ Receives("activate")
  /\ inbox' = Tail(inbox)
  /\ todo' = IF ~shutting_down /\ state[Msg.circuit] \in {"inactive", "failed"}
             THEN <<ChangeState(Msg.circuit, "active")>> ELSE <<>>
  /\ UNCHANGED <<circuit, modes, daemons, service, queue, scripts, world, bounds>>

(* Faulty variant: the dial mode is not looked at. *)
FaultyMayDial(c) == state[c] = "active" /\ DependenciesMet(c, TRUE)

MayDial(c) ==
  /\ state[c] = "active"
  /\ EffectiveMode(c) # "off"
  /\ DependenciesMet(c, TRUE)

(* handle_dialup_circuit_message *)
HandleDialup ==
  /\ Receives("dialup")
  /\ inbox' = Tail(inbox)
  /\ todo' = IF ~shutting_down /\ MayDial(Msg.circuit)
             THEN InitiateDialup(Msg.circuit) ELSE <<>>
  /\ UNCHANGED <<circuit, modes, daemons, service, queue, scripts, world, bounds>>

(* Faulty variant: the message is taken for the name of a state. *)
FaultyTarget(type) == IF type = "hangup" THEN "active" ELSE type

Target(type) == CASE type = "hangup" -> "active"
                  [] type = "deactivate" -> "inactive"
                  [] type = "fail" -> "failed"

(* handle_hangup_or_deactivate_circuit_message *)
HandleHangup ==
  /\ \E type \in {"hangup", "deactivate", "fail"} : Receives(type)
  /\ inbox' = Tail(inbox)
  /\ LET c == Msg.circuit
         target == Target(Msg.type)
     IN  IF state[c] \in Up
         THEN CircuitHangup(c, target) /\ UNCHANGED todo
         ELSE /\ hangup_state' = [hangup_state EXCEPT ![c] = target]
              /\ todo' = <<FinalizeHangup(c)>>
              /\ UNCHANGED <<operation, queue>>
  /\ UNCHANGED <<state, protocols_up, router_state, modes, daemons, service,
                 scripts, world, bounds>>

(* One round for every circuit, which compares its old and its new mode *)
ModeChanges(old, new) ==
  [i \in DOMAIN Order |-> [fn |-> "mode_change", circuit |-> Order[i],
                           old |-> old[Order[i]], mode |-> new[Order[i]]]]

(* handle_set_global_dialmode_message, handle_set_local_dialmode_message *)
HandleSetMode ==
  /\ Receives("set_global_dialmode") \/ Receives("set_local_dialmode")
  /\ inbox' = Tail(inbox)
  /\ IF shutting_down
     THEN UNCHANGED <<modes, todo>>
     ELSE /\ IF Msg.type = "set_global_dialmode"
             THEN global_mode' = Msg.mode /\ UNCHANGED local_mode
             ELSE /\ local_mode' = [local_mode EXCEPT ![Msg.circuit] = Msg.mode]
                  /\ UNCHANGED global_mode
          /\ todo' = ModeChanges([c \in Circuits |-> EffectiveMode(c)],
                                 [c \in Circuits |-> EffectiveMode(c)'])
  /\ UNCHANGED <<circuit, daemons, service, queue, scripts, world, bounds>>

(* handle_get_effective_dialmode_message: the script of a pppd circuit is  *)
(* waiting for the reply.  For "off" there is no file of pppd options.     *)
HandleGetMode ==
  /\ Receives("get_effective_dialmode")
  /\ inbox' = Tail(inbox)
  /\ LET c == Msg.circuit
         answer == IF EffectiveMode(c) = "off" THEN "refused" ELSE "allowed"
     IN  worker' = [worker EXCEPT ![c] = IF @ = "asks" THEN answer ELSE @]
  /\ UNCHANGED <<circuit, modes, daemons, service, todo, queue, translated, world, bounds>>

(* handle_up_l3prot_circuit_event: circd_go_online_if_possible *)
HandleUp ==
  /\ Receives("up")
  /\ inbox' = Tail(inbox)
  /\ LET c == Msg.circuit
     IN  /\ protocols_up' = [protocols_up EXCEPT ![c] = @ \cup {Msg.protocol}]
         /\ todo' = CASE Msg.protocol \in protocols_up[c] -> <<>>
                      [] Msg.protocol \notin protocols_up[c] /\ protocols_up'[c] = Protocols
                           -> <<ChangeState(c, "online"), After("went_online", c)>>
                      [] OTHER -> <<ChangeState(c, "semionline")>>
  /\ UNCHANGED <<state, operation, hangup_state, router_state, modes, daemons, service,
                 queue, scripts, world, bounds>>

(* handle_down_l3prot_circuit_event: circd_go_offline_if_necessary *)
HandleDown ==
  /\ Receives("down")
  /\ inbox' = Tail(inbox)
  /\ LET c == Msg.circuit
     IN  /\ protocols_up' = [protocols_up EXCEPT ![c] = @ \ {Msg.protocol}]
         /\ todo' = CASE Msg.protocol \notin protocols_up[c] -> <<>>
                      [] Msg.protocol \in protocols_up[c] /\ protocols_up'[c] = {}
                           -> <<FinalizeHangup(c)>>
                      [] OTHER -> <<ChangeState(c, "semionline")>>
  /\ UNCHANGED <<state, operation, hangup_state, router_state, modes, daemons, service,
                 queue, scripts, world, bounds>>

(* handle_dialup_control_circuit_event, with a nonzero status code *)
HandleDialupFailed ==
  /\ Receives("dialup_failed")
  /\ inbox' = Tail(inbox)
  /\ todo' = <<ChangeState(Msg.circuit, "active"), After("not_dialled", Msg.circuit)>>
  /\ UNCHANGED <<circuit, modes, daemons, service, queue, scripts, world, bounds>>

(* handle_hangup_control_circuit_event, with a nonzero status code *)
HandleHangupFailed ==
  /\ Receives("hangup_failed")
  /\ inbox' = Tail(inbox)
  /\ todo' = <<FinalizeHangup(Msg.circuit)>>
  /\ UNCHANGED <<circuit, modes, daemons, service, queue, scripts, world, bounds>>

(* A process identifier that is in use nowhere *)
Unused(d) ==
  /\ process[d] = "none" /\ net[d] = {} /\ <<"d", d>> \notin children
  /\ \A i \in DOMAIN inbox : inbox[i].type = "daemon_exited" => inbox[i].daemon # d

(* handle_start_daemon_circuit_message: circd_daemon_wrapper returns when  *)
(* its child has started and registered the daemon, whose registration     *)
(* replaces those of the circuit and of the process identifier.  While     *)
(* another child has the endpoint CIRCUIT:d, the new one cannot create its *)
(* own and sends its messages in the name of circd.                        *)
HandleStartDaemon ==
  /\ Receives("start_daemon")
  /\ inbox' = Tail(inbox)
  /\ \/ shutting_down /\ UNCHANGED <<process, owner, named, daemons, children>>
     \/ /\ ~shutting_down
        /\ \E d \in Daemons :
             /\ Unused(d)
             /\ process' = [process EXCEPT ![d] = "running"]
             /\ owner' = [owner EXCEPT ![d] = Msg.circuit]
             /\ named' = IF \E x \in named : owner[x] = Msg.circuit
                         THEN named ELSE named \cup {d}
             /\ children' = children \cup {<<"d", d>>}
             /\ daemons' = [c \in Circuits |->
                              IF c = Msg.circuit THEN {"TERM", "HANGUP"} \X {d}
                              ELSE {r \in daemons[c] : r[2] # d}]
  /\ UNCHANGED <<circuit, modes, shutting_down, running, todo, queue, scripts, net, bounds>>

(* handle_stop_daemon_circuit_message: circd_daemon_terminate.  The signal *)
(* is SIGTERM, or SIGHUP if the circuit has no hangup timeout: pppd, which *)
(* is the daemon then and runs with "nopersist", ends on either.           *)
HandleStopDaemon ==
  /\ Receives("stop_daemon")
  /\ inbox' = Tail(inbox)
  /\ daemons' = [daemons EXCEPT ![Msg.circuit] = Deregistered(Msg.circuit, "TERM")]
  /\ process' = [d \in Daemons |->
                   IF d \in Registered(Msg.circuit, "TERM") /\ process[d] = "running"
                   THEN "killed" ELSE process[d]]
  /\ UNCHANGED <<circuit, modes, service, todo, queue, scripts, owner, named, net, bounds>>

(* handle_daemon_exited_circuit_event: circd_daemon_terminated, then       *)
(* circd_daemon_hangup for the circuit that has not been hung up yet       *)
HandleDaemonExited ==
  /\ Receives("daemon_exited")
  /\ inbox' = Tail(inbox)
  /\ daemons' = [c \in Circuits |-> {r \in daemons[c] : r[2] # Msg.daemon}]
  /\ \/ \E c \in Circuits : /\ Msg.daemon \in Registered(c, "HANGUP")
                           /\ todo' = <<FinalizeHangup(c)>>
     \/ /\ \A c \in Circuits : Msg.daemon \notin Registered(c, "HANGUP")
        /\ todo' = <<>>
  /\ UNCHANGED <<circuit, modes, service, queue, scripts, world, bounds>>

(* circd_check_exit.  As "deleted" is not modelled, the composite state is *)
(* failed or inactive if every state is.                                   *)
SafeToExit(kids) ==
  /\ \A c \in Circuits : state[c] \in {"inactive", "failed"}
  /\ kids = {}
  /\ \A c \in Circuits : daemons[c] = {}

(* handle_child_exited_circd_event *)
HandleChildExited ==
  /\ Receives("child_exited")
  /\ inbox' = Tail(inbox)
  /\ children' = children \ {Msg.child}
  /\ running' = ~(shutting_down /\ SafeToExit(children'))
  /\ UNCHANGED <<circuit, modes, daemons, shutting_down, todo, queue, scripts, world, bounds>>

(* handle_stop_service_message: circd sends itself messages that           *)
(* deactivate all circuits.                                                *)
HandleStopService ==
  /\ Receives("stop_service")
  /\ shutting_down' = TRUE
  /\ IF shutting_down
     THEN inbox' = Tail(inbox) /\ UNCHANGED running
     ELSE /\ inbox' = Tail(inbox) \o
                [i \in DOMAIN Order |-> [type |-> "deactivate", circuit |-> Order[i]]]
          /\ running' = ~SafeToExit(children)
  /\ UNCHANGED <<circuit, modes, daemons, children, todo, queue, scripts, world, bounds>>

CircdHandler ==
  \/ HandleActivate \/ HandleDialup \/ HandleHangup \/ HandleSetMode \/ HandleGetMode
  \/ HandleUp \/ HandleDown \/ HandleDialupFailed \/ HandleHangupFailed
  \/ HandleStartDaemon \/ HandleStopDaemon \/ HandleDaemonExited
  \/ HandleChildExited \/ HandleStopService

CircdStep == CircdCall \/ CircdHandler

-----------------------------------------------------------------------------
(* The queue process of a circuit: mom_run_message_loop *)

QueueTakes(c) ==
  /\ worker[c] = "idle" /\ queue[c] # <<>>
  /\ queue' = [queue EXCEPT ![c] = Tail(@)]
  /\ IF Head(queue[c]) = "quit"
     THEN /\ worker' = [worker EXCEPT ![c] = "gone"]
          /\ inbox' = Append(inbox, [type |-> "child_exited", child |-> <<"q", c>>])
     ELSE worker' = [worker EXCEPT ![c] = Head(queue[c])] /\ UNCHANGED inbox
  /\ UNCHANGED <<circuit, modes, daemons, service, todo, translated, world, bounds>>

(* handle_dialup_circuit_queue_message: the interface may not exist; if it *)
(* does, the control script asks circd to start the daemon, or fails.  The *)
(* script of a pppd circuit first asks for the effective dial mode; if     *)
(* circd does not answer in time, that is a failure as well.  A status     *)
(* code of zero makes circd do nothing and is left out.                    *)
DialScript(c) ==
  /\ worker[c] = "dial"
  /\ \E found \in BOOLEAN, type \in {"start_daemon", "get_effective_dialmode", "dialup_failed"} :
       /\ type = "start_daemon" => found /\ c \notin AsksMode
       /\ type = "get_effective_dialmode" => found /\ c \in AsksMode
       /\ failures' = failures + (IF type = "dialup_failed" THEN 1 ELSE 0)
       /\ failures' <= MaxFailures
       /\ translated' = [translated EXCEPT ![c] = @ \/ found]
       /\ worker' = [worker EXCEPT ![c] =
                       IF type = "get_effective_dialmode" THEN "asks" ELSE "idle"]
       /\ inbox' = Append(inbox, [type |-> type, circuit |-> c])
  /\ UNCHANGED <<circuit, modes, daemons, service, todo, queue, world, commands>>

(* The rest of pppd-circuit-ctrl.sh: with mode "off" its last command is   *)
(* log_error, which returns 1, and so does the script.                     *)
DialAnswered(c) ==
  /\ worker[c] \in {"allowed", "refused"}
  /\ worker' = [worker EXCEPT ![c] = "idle"]
  /\ inbox' = Append(inbox, [type |-> IF worker[c] = "allowed" THEN "start_daemon"
                                      ELSE "dialup_failed",
                             circuit |-> c])
  /\ UNCHANGED <<circuit, modes, daemons, service, todo, queue, translated, world, bounds>>

(* handle_hangup_circuit_queue_message: the interface is looked up only if *)
(* no attempt to dial has ever found it.                                   *)
HangupScript(c) ==
  /\ worker[c] = "hangup"
  /\ worker' = [worker EXCEPT ![c] = "idle"]
  /\ \E type \in {"stop_daemon", "hangup_failed"} :
       /\ type = "hangup_failed" => ~translated[c]
       /\ inbox' = Append(inbox, [type |-> type, circuit |-> c])
  /\ UNCHANGED <<circuit, modes, daemons, service, todo, queue, translated, world, bounds>>

-----------------------------------------------------------------------------
(* The daemons, their ip-up and ip-down scripts, and the children of       *)
(* circd_daemon_wrapper that wait for them.                                *)

Room == Len(inbox) < MaxQueue /\ \A c \in Circuits : Len(queue[c]) <= MaxQueue

Announce(d, type, p) ==
  inbox' = Append(inbox, [type |-> type, circuit |-> owner[d], protocol |-> p])

ProtocolUp(d, p) ==
  /\ Room
  /\ process[d] = "running" /\ p \notin net[d]
  /\ net' = [net EXCEPT ![d] = @ \cup {p}]
  /\ Announce(d, "up", p)
  /\ UNCHANGED <<circuit, modes, daemons, service, todo, queue, scripts, process, owner, named, bounds>>

(* A connection is lost, or the daemon is about to exit or has exited. *)
ProtocolDown(d, p) ==
  /\ process[d] = "running" => Room
  /\ p \in net[d]
  /\ net' = [net EXCEPT ![d] = @ \ {p}]
  /\ Announce(d, "down", p)
  /\ UNCHANGED <<circuit, modes, daemons, service, todo, queue, scripts, process, owner, named, bounds>>

(* The daemon exits, killed or by itself.  Its wrapper reports that, and   *)
(* the wrapper's exit trap reports the end of the wrapper and destroys its *)
(* endpoint.  This is one step here, two moments in the code: the next     *)
(* daemon of the circuit is taken to start only after the second.          *)
DaemonExits(d) ==
  /\ process[d] = "killed" \/ (process[d] = "running" /\ Room)
  /\ process' = [process EXCEPT ![d] = "none"]
  /\ named' = named \ {d}
  /\ inbox' = inbox \o <<[type |-> "daemon_exited", daemon |-> d],
                         [type |-> "child_exited",
                          child |-> IF d \in named THEN <<"d", d>> ELSE Circd]>>
  /\ UNCHANGED <<circuit, modes, daemons, service, todo, queue, scripts, owner, net, bounds>>

(* fli4lctrl, an event script, or the boot scripts *)
Send(m) ==
  /\ running /\ commands < MaxCommands
  /\ commands' = commands + 1
  /\ inbox' = Append(inbox, m)
  /\ UNCHANGED <<circuit, modes, daemons, service, todo, queue, scripts, world, failures>>

Script(c) == QueueTakes(c) \/ DialScript(c) \/ DialAnswered(c) \/ HangupScript(c)

Daemon(d) == DaemonExits(d) \/ \E p \in Protocols : ProtocolUp(d, p) \/ ProtocolDown(d, p)

Next == \/ CircdStep
        \/ \E c \in Circuits : Script(c)
        \/ \E d \in Daemons : Daemon(d)
        \/ \E m \in Commands : Send(m)

Spec == Init /\ [][Next]_vars

(* The kernel runs circd, the queue processes, the scripts of a daemon     *)
(* that is gone, and a daemon that has been killed.  Nothing forces a      *)
(* daemon to connect, to lose a connection or to exit by itself.           *)
FairSpec ==
  /\ Spec
  /\ WF_vars(CircdStep)
  /\ \A c \in Circuits : WF_vars(Script(c))
  /\ \A d \in Daemons :
       /\ WF_vars(process[d] = "killed" /\ DaemonExits(d))
       /\ \A p \in Protocols : WF_vars(process[d] # "running" /\ ProtocolDown(d, p))

-----------------------------------------------------------------------------
(* Properties *)

(* No handler is running, so the files circd keeps should fit together.    *)
Quiescent == running /\ todo = <<>>

(* The router counts as online if and only if one of the circuits that     *)
(* make it so is online, at every moment other processes can look.         *)
RouterStateAgrees == router_state = "online" <=> RouterIsOnline(state)

(* A circuit that is ready or online and whose dependee is down is being   *)
(* hung up ("Hangs up a circuit if necessary, i.e. if dependencies are not *)
(* fulfilled").  A dependee that is itself being hung up is given time.    *)
DependenciesHonoured ==
  Quiescent =>
    \A c \in Circuits :
      state[c] \in Up /\ operation[c] # "hangup" =>
        /\ \A d \in Deps[c] : IF d[2] = AnyProtocol THEN state[d[1]] = "online"
                                            ELSE d[2] \in protocols_up[d[1]]
        /\ \A d \in WeakDeps[c] : state[d] \in Up

(* With dial mode "auto", an active circuit whose dependencies are met has *)
(* been dialled: no circuit is left behind when the last of its            *)
(* dependencies comes up, or its mode changes.                             *)
NoCircuitForgotten ==
  Quiescent =>
    \A c \in Circuits :
      state[c] = "active" /\ EffectiveMode(c) = "auto" => ~DependenciesMet(c, TRUE)

(* A circuit never has two daemons: when circd starts one, the last one    *)
(* has exited and is no longer registered.  That is so as long as no dial  *)
(* script fails by itself (MaxFailures = 0; to be refused for the dial     *)
(* mode does no harm): otherwise circd can queue a second dial behind the  *)
(* first, and this property is violated.                                   *)
OneDaemon ==
  Receives("start_daemon") =>
    /\ \A d \in Daemons :
         owner[d] = Msg.circuit => process[d] = "none" /\ net[d] = {}
    /\ daemons[Msg.circuit] = {}

(* No operation "dial" starts while the effective dial mode is "off",      *)
(* whichever of the four ways to dial is taken and whatever was decided    *)
(* before the mode changed.                                                *)
NoDialWhenOff ==
  [][\A c \in Circuits :
       operation[c] # "dial" /\ operation'[c] = "dial" => EffectiveMode(c) # "off"]_vars

(* An inactive circuit "cannot be used to dial" (base documentation, table *)
(* of circuit states): no daemon is started for one.                       *)
InactiveNotDialled ==
  Receives("start_daemon") /\ ~shutting_down => state[Msg.circuit] # "inactive"

Abs == INSTANCE AbstractCircuit

(* The circuits live the life that is documented, on the condition of      *)
(* OneDaemon.                                                              *)
AbsSpec == Abs!Spec

(* Hanging up ends, whatever the circuit was doing: dialling, waiting for  *)
(* the answer about the dial mode, being refused for it, going online.  As *)
(* OneDaemon, this needs that no dial script fails by itself.              *)
HangupEnds ==
  \A c \in Circuits : operation[c] = "hangup" ~> operation[c] # "hangup"

(* "circd_stop_queue() eventually leads to a child_exited_circd_event      *)
(* whose handler calls circd_check_exit()": a shutdown ends.               *)
ShutdownEnds == shutting_down ~> ~running

=============================================================================
