----------------------------- MODULE CircdProofs -----------------------------
(***************************************************************************)
(* For any set of circuits, any dependencies between them and any number   *)
(* of daemons, commands and failures: circd is type correct, which         *)
(* includes that the calls a handler has yet to make are calls the         *)
(* functions are written for; the router state agrees with the states of   *)
(* the circuits; and nothing is dialled while the dial mode is "off".      *)
(* If circuits depend on whole circuits, not on single protocols of them,  *)
(* dependencies are honoured and no circuit is forgotten.                  *)
(*                                                                         *)
(* That nothing is dialled in mode "off" is about a decision and an action *)
(* with other calls in between.  It rests on the invariant that every call *)
(* on the stack still fits the dial modes, which no call changes: only a   *)
(* handler that starts with an empty stack does.                           *)
(*                                                                         *)
(* The last two properties hold when the stack is empty, and say nothing   *)
(* before.  Their invariant, DepsInv, says which call on the stack is      *)
(* still going to look at a circuit whose dependencies have changed, and   *)
(* why none of the calls above it can take that back.                      *)
(***************************************************************************)
EXTENDS Circd, SequenceTheorems, FiniteSetTheorems, WellFoundedInduction, TLAPS

(* What a call relies on when its turn comes *)
FitsModes(x) ==
  /\ x.fn = "dialled" => EffectiveMode(x.circuit) # "off"
  /\ x.fn = "mode_change" => x.mode = EffectiveMode(x.circuit)

GoodCall == {x \in Call : FitsModes(x)}

CircdInv == /\ TypeOK
            /\ RouterStateAgrees
            /\ todo \in Seq(GoodCall)

-----------------------------------------------------------------------------
(* Modes *)

(* The effective mode of a circuit is one of the three modes. *)
LEMMA EffectiveModeType ==
  ASSUME TypeOK, NEW c \in Circuits
  PROVE  EffectiveMode(c) \in Mode
BY DEF TypeOK, EffectiveMode, Smaller, Mode

(* While no mode changes, a call that fits the modes goes on to do so. *)
LEMMA SameModes ==
  ASSUME UNCHANGED modes
  PROVE  GoodCall' = GoodCall
BY DEF modes, GoodCall, FitsModes, EffectiveMode, Smaller, Call

-----------------------------------------------------------------------------
(* Calls *)

(* What the arguments of a call are *)
LEMMA CallTypes ==
  ASSUME NEW x \in Call
  PROVE  /\ x.circuit \in Circuits
         /\ x.fn = "change_state" => x.to \in State
         /\ x.fn = "react" => x.changed \in Circuits /\ x.to \in State
         /\ x.fn = "mode_change" => x.mode \in Mode
BY DEF Call

(* The calls circd makes without looking at a mode *)
LEMMA CallsMade ==
  ASSUME NEW c \in Circuits
  PROVE  /\ \A s \in State : ChangeState(c, s) \in GoodCall
         /\ \A x \in Circuits, s \in State, i \in {0} \cup DOMAIN Order :
              React(x, c, s, i) \in GoodCall
         /\ FinalizeHangup(c) \in GoodCall
         /\ \A what \in {"hung_up", "went_online", "not_dialled", "stop_queue"} :
              After(what, c) \in GoodCall
BY DEF ChangeState, React, FinalizeHangup, After, GoodCall, FitsModes, Call

(* Dialling fits a mode that is not off. *)
LEMMA DialMade ==
  ASSUME NEW c \in Circuits, EffectiveMode(c) # "off"
  PROVE  InitiateDialup(c) \in Seq(GoodCall)
<1>1. "ready" \in State
  BY DEF State
<1>2. ChangeState(c, "ready") \in GoodCall
  BY <1>1, CallsMade
<1>3. After("dialled", c) \in GoodCall
  BY DEF After, GoodCall, FitsModes, Call
<1> QED BY <1>2, <1>3 DEF InitiateDialup

(* The next round of the loop over the dependents *)
LEMMA NextRoundType ==
  ASSUME NEW c \in Circuits, NEW s \in State, NEW i
  PROVE  NextRound(c, s, i) \in Seq(GoodCall)
<1> DEFINE left == {j \in DOMAIN Order : j > i /\ Order[j] \in Dependents(c)}
           first == {j \in left : \A k \in left : j <= k}
           j == CHOOSE j \in first : TRUE
<1>1. CASE first = {}
  BY <1>1 DEF NextRound
<1>2. CASE first # {}
  <2>1. j \in DOMAIN Order
    BY <1>2
  <2>2. Order[j] \in Circuits
    BY <2>1, CircdAssumption
  <2>3. React(Order[j], c, s, j) \in GoodCall
    BY <2>1, <2>2, CallsMade
  <2>4. NextRound(c, s, i) = <<React(Order[j], c, s, j)>>
    BY <1>2 DEF NextRound
  <2> HIDE DEF j
  <2> QED BY <2>3, <2>4
<1> QED BY <1>1, <1>2

(* The stack stays good if good calls are put on it. *)
LEMMA RunGood ==
  ASSUME todo \in Seq(GoodCall), todo # <<>>,
         NEW calls \in Seq(GoodCall), Run(calls), UNCHANGED modes
  PROVE  todo' \in Seq(GoodCall')
BY SameModes, HeadTailProperties, ConcatProperties DEF Run

-----------------------------------------------------------------------------
(* Messages *)

(* What the fields of a message are *)
LEMMA MessageTypes ==
  ASSUME NEW m \in Message
  PROVE  /\ m.type \notin {"set_global_dialmode", "stop_service", "daemon_exited", "child_exited"}
              => m.circuit \in Circuits
         /\ m.type \in {"up", "down"} => m.protocol \in Protocols
         /\ m.type \in {"set_global_dialmode", "set_local_dialmode"} => m.mode \in Mode
         /\ m.type = "daemon_exited" => m.daemon \in Daemons
         /\ m.type = "child_exited" => 
              m.child \in ({"q"} \X Circuits) \cup ({"d"} \X Daemons) \cup {Circd}
BY DEF Message, Command, CircuitCommand

(* circd receives a message, and the rest stays well-formed. *)
LEMMA Received ==
  ASSUME TypeOK, NEW type, Receives(type)
  PROVE  Msg \in Message /\ Msg.type = type /\ Tail(inbox) \in Seq(Message) /\ todo = <<>>
BY HeadTailProperties DEF TypeOK, Receives, Msg

(* A message to a queue process *)
LEMMA ToQueueType ==
  ASSUME TypeOK, NEW c \in Circuits, NEW m \in {"dial", "hangup", "quit"}, ToQueue(c, m)
  PROVE  queue' \in [Circuits -> Seq({"dial", "hangup", "quit"})]
BY AppendProperties DEF TypeOK, ToQueue

(* circd_circuit_hangup *)
LEMMA CircuitHangupType ==
  ASSUME TypeOK, NEW c \in Circuits, NEW t \in {"active", "inactive", "failed"},
         CircuitHangup(c, t)
  PROVE  /\ operation' \in [Circuits -> {"none", "dial", "hangup"}]
         /\ hangup_state' \in [Circuits -> {"none", "active", "inactive", "failed"}]
         /\ queue' \in [Circuits -> Seq({"dial", "hangup", "quit"})]
         /\ \A x \in Circuits : operation[x] # "dial" => operation'[x] # "dial"
<1>1. CASE operation[c] = "hangup"
  BY <1>1 DEF CircuitHangup, TypeOK
<1>2. CASE operation[c] # "hangup"
  <2>1. /\ operation' = [operation EXCEPT ![c] = "hangup"]
        /\ hangup_state' = [hangup_state EXCEPT ![c] = t]
        /\ ToQueue(c, "hangup")
    BY <1>2 DEF CircuitHangup
  <2>2. /\ operation \in [Circuits -> {"none", "dial", "hangup"}]
        /\ hangup_state \in [Circuits -> {"none", "active", "inactive", "failed"}]
    BY DEF TypeOK
  <2>3. queue' \in [Circuits -> Seq({"dial", "hangup", "quit"})]
    BY <2>1, ToQueueType
  <2>4. operation' \in [Circuits -> {"none", "dial", "hangup"}]
        /\ \A x \in Circuits : operation[x] # "dial" => operation'[x] # "dial"
    BY <2>1, <2>2
  <2>5. hangup_state' \in [Circuits -> {"none", "active", "inactive", "failed"}]
    BY <2>1, <2>2
  <2> QED BY <2>3, <2>4, <2>5
<1> QED BY <1>1, <1>2

-----------------------------------------------------------------------------
(* The invariant *)

LEMMA InitCircdInv == Init => CircdInv
<1> SUFFICES ASSUME Init PROVE CircdInv
  OBVIOUS
<1> USE CircdAssumption DEF Init
<1>1. TypeOK
  <2>1. state \in [Circuits -> State] /\ global_mode \in Mode /\ local_mode \in [Circuits -> Mode]
    BY DEF State, Mode
  <2>2. owner \in [Daemons -> Circuits]
    BY HeadTailProperties
  <2>3. todo \in Seq(Call) /\ inbox \in Seq(Message)
    OBVIOUS
  <2>4. queue \in [Circuits -> Seq({"dial", "hangup", "quit"})]
    OBVIOUS
  <2>5. /\ operation \in [Circuits -> {"none", "dial", "hangup"}]
        /\ hangup_state \in [Circuits -> {"none", "active", "inactive", "failed"}]
        /\ protocols_up \in [Circuits -> SUBSET Protocols]
        /\ router_state \in {"online", "offline"}
    OBVIOUS
  <2>6. /\ daemons \in [Circuits -> SUBSET ({"TERM", "HANGUP"} \X Daemons)]
        /\ children \subseteq ({"q"} \X Circuits) \cup ({"d"} \X Daemons)
        /\ shutting_down \in BOOLEAN /\ running \in BOOLEAN
    OBVIOUS
  <2>7. /\ worker \in [Circuits -> Work]
        /\ translated \in [Circuits -> BOOLEAN]
        /\ process \in [Daemons -> {"none", "running", "killed"}]
        /\ named \subseteq Daemons /\ net \in [Daemons -> SUBSET Protocols]
        /\ commands \in 0..MaxCommands /\ failures \in 0..MaxFailures
    BY DEF Work
  <2> QED BY <2>1, <2>2, <2>3, <2>4, <2>5, <2>6, <2>7 DEF TypeOK
<1>2. RouterStateAgrees
  BY DEF RouterStateAgrees, RouterIsOnline
<1>3. todo \in Seq(GoodCall)
  OBVIOUS
<1> QED BY <1>1, <1>2, <1>3 DEF CircdInv

(* The function that is running *)
LEMMA RunningCall ==
  ASSUME CircdInv, NEW fn, Running(fn)
  PROVE  /\ todo # <<>> /\ Head(todo).fn = fn
         /\ Head(todo) \in GoodCall /\ Head(todo) \in Call
         /\ Head(todo).circuit \in Circuits
         /\ <<>> \in Seq(GoodCall)
<1>1. todo # <<>> /\ Head(todo).fn = fn /\ Head(todo) \in GoodCall
  BY HeadTailProperties DEF Running, CircdInv
<1>2. Head(todo) \in Call
  BY <1>1 DEF GoodCall
<1> QED BY <1>1, <1>2, CallTypes

(* The stack of good calls is a stack of calls. *)
LEMMA GoodIsTyped == ASSUME todo' \in Seq(GoodCall') PROVE todo' \in Seq(Call)
<1>1. GoodCall' \subseteq Call
  BY DEF GoodCall
<1> QED BY <1>1, SeqMonotonic

(* No other action changes what the router state depends on. *)
LEMMA SameRouterState ==
  ASSUME RouterStateAgrees, UNCHANGED <<state, router_state>>
  PROVE  RouterStateAgrees'
BY DEF RouterStateAgrees, RouterIsOnline

-----------------------------------------------------------------------------
(* One lemma per function of circd *)

LEMMA ChangeStateInv == CircdInv /\ DoChangeState => CircdInv' /\ UNCHANGED operation
<1> SUFFICES ASSUME CircdInv, DoChangeState PROVE CircdInv' /\ UNCHANGED operation
  OBVIOUS
<1> DEFINE c == Head(todo).circuit
           new == Head(todo).to
           stop == IF shutting_down /\ new \in {"inactive", "failed"}
                   THEN <<After("stop_queue", c)>> ELSE <<>>
<1>1. Head(todo) \in Call /\ Head(todo).fn = "change_state" /\ todo # <<>>
  BY RunningCall DEF DoChangeState
<1>2. c \in Circuits /\ new \in State
  BY <1>1, CallTypes
<1>3. stop \in Seq(GoodCall)
  BY <1>2, CallsMade
<1>4. <<React(c, c, new, 0)>> \o stop \in Seq(GoodCall)
  BY <1>2, <1>3, CallsMade, ConcatProperties
<1>5. todo \in Seq(GoodCall) /\ UNCHANGED <<modes, operation>>
  BY DEF CircdInv, DoChangeState
<1>6. todo' \in Seq(GoodCall')
  <2>1. Run(stop) \/ Run(<<React(c, c, new, 0)>> \o stop)
    BY DEF DoChangeState
  <2> HIDE DEF c, new, stop
  <2> QED BY <1>1, <1>3, <1>4, <1>5, <2>1, RunGood
<1>7. state' \in [Circuits -> State] /\ router_state' \in {"online", "offline"}
  BY <1>2 DEF CircdInv, TypeOK, DoChangeState, RouterState
<1>8. RouterStateAgrees'
  <2>1. CASE state[c] = new
    BY <2>1 DEF DoChangeState, CircdInv, RouterStateAgrees, RouterIsOnline
  <2>2. CASE state[c] # new
    <3>1. state' = [state EXCEPT ![c] = new] /\ router_state' = RouterState(state', new)
      BY <2>2 DEF DoChangeState
    <3>2. WhenOnline \subseteq Circuits
      BY CircdAssumption
    <3> HIDE DEF c, new
    <3> QED BY <1>2, <3>1, <3>2
            DEF CircdInv, TypeOK, RouterStateAgrees, RouterIsOnline, RouterState
  <2> QED BY <2>1, <2>2
<1>9. TypeOK'
  BY <1>6, <1>7, GoodIsTyped
     DEF CircdInv, TypeOK, DoChangeState, modes, service, scripts, world, bounds
<1> QED BY <1>5, <1>6, <1>8, <1>9 DEF CircdInv

(* Dialling starts only where the mode is not off. *)
DialsOnlyIfAllowed ==
  \A c \in Circuits :
    operation[c] # "dial" /\ operation'[c] = "dial" => EffectiveMode(c) # "off"

(* What is left to show of a function that changes no state *)
LEMMA FunctionInv ==
  ASSUME CircdInv, todo # <<>>, NEW calls \in Seq(GoodCall), Run(calls),
         UNCHANGED <<state, protocols_up, router_state, modes, service, inbox,
                     scripts, world, bounds>>,
         operation' \in [Circuits -> {"none", "dial", "hangup"}],
         hangup_state' \in [Circuits -> {"none", "active", "inactive", "failed"}],
         daemons' \in [Circuits -> SUBSET ({"TERM", "HANGUP"} \X Daemons)],
         queue' \in [Circuits -> Seq({"dial", "hangup", "quit"})]
  PROVE  CircdInv'
<1>1. todo' \in Seq(GoodCall')
  BY RunGood DEF CircdInv
<1>2. TypeOK'
  BY <1>1, GoodIsTyped DEF CircdInv, TypeOK, modes, service, scripts, world, bounds
<1>3. RouterStateAgrees'
  BY SameRouterState DEF CircdInv
<1> QED BY <1>1, <1>2, <1>3 DEF CircdInv

LEMMA ReactInv == CircdInv /\ DoReact => CircdInv' /\ DialsOnlyIfAllowed
<1> SUFFICES ASSUME CircdInv, DoReact PROVE CircdInv' /\ DialsOnlyIfAllowed
  OBVIOUS
<1> DEFINE x == Head(todo).circuit
           c == Head(todo).changed
           s == IF x = c THEN Head(todo).to ELSE state[x]
           rest == NextRound(c, Head(todo).to, Head(todo).position)
<1>1. /\ todo # <<>> /\ x \in Circuits /\ c \in Circuits
      /\ Head(todo).to \in State
  BY RunningCall, CallTypes DEF DoReact
<1>2. rest \in Seq(GoodCall)
  BY <1>1, NextRoundType
<1>3. /\ daemons' = daemons
      /\ UNCHANGED <<state, protocols_up, router_state, modes, service, inbox,
                     scripts, world, bounds>>
  BY DEF DoReact
<1>4. TypeOK
  BY DEF CircdInv
<1>5. CASE s = "active" /\ EffectiveMode(x) = "auto" /\ DependenciesMet(x, TRUE)
  <2>1. Run(InitiateDialup(x) \o rest) /\ UNCHANGED <<operation, hangup_state, queue>>
    BY <1>5 DEF DoReact
  <2>2. InitiateDialup(x) \o rest \in Seq(GoodCall)
    <3>1. InitiateDialup(x) \in Seq(GoodCall)
      BY <1>1, <1>5, DialMade
    <3> HIDE DEF rest
    <3> QED BY <3>1, <1>2, ConcatProperties
  <2> HIDE DEF x, c, rest
  <2>3. CircdInv'
    BY <1>1, <1>3, <1>4, <2>1, <2>2, FunctionInv DEF TypeOK
  <2> QED BY <2>1, <2>3 DEF DialsOnlyIfAllowed
<1>6. CASE ~(s = "active" /\ EffectiveMode(x) = "auto" /\ DependenciesMet(x, TRUE))
  <2>1. /\ Run(rest)
        /\ CircuitHangup(x, "active") \/ UNCHANGED <<operation, hangup_state, queue>>
    BY <1>6 DEF DoReact
  <2> HIDE DEF x, c, rest
  <2>2. /\ operation' \in [Circuits -> {"none", "dial", "hangup"}]
        /\ hangup_state' \in [Circuits -> {"none", "active", "inactive", "failed"}]
        /\ queue' \in [Circuits -> Seq({"dial", "hangup", "quit"})]
        /\ \A y \in Circuits : operation[y] # "dial" => operation'[y] # "dial"
    BY <1>1, <1>4, <2>1, CircuitHangupType DEF TypeOK
  <2>3. CircdInv'
    BY <1>1, <1>2, <1>3, <1>4, <2>1, <2>2, FunctionInv DEF TypeOK
  <2> QED BY <2>2, <2>3 DEF DialsOnlyIfAllowed
<1> QED BY <1>5, <1>6

LEMMA ModeChangeInv == CircdInv /\ DoModeChange => CircdInv' /\ DialsOnlyIfAllowed
<1> SUFFICES ASSUME CircdInv, DoModeChange PROVE CircdInv' /\ DialsOnlyIfAllowed
  OBVIOUS
<1> DEFINE c == Head(todo).circuit
           m == Head(todo).mode
           dial == /\ Head(todo).old # m /\ m = "auto"
                   /\ state[c] = "active" /\ DependenciesMet(c, TRUE)
<1>1. todo # <<>> /\ c \in Circuits /\ m = EffectiveMode(c)
  BY RunningCall DEF DoModeChange, GoodCall, FitsModes
<1>2. /\ daemons' = daemons
      /\ UNCHANGED <<state, protocols_up, router_state, modes, service, inbox,
                     scripts, world, bounds>>
  BY DEF DoModeChange
<1>3. TypeOK
  BY DEF CircdInv
<1>4. CASE dial
  <2>1. Run(InitiateDialup(c)) /\ UNCHANGED <<operation, hangup_state, queue>>
    BY <1>4 DEF DoModeChange
  <2>2. InitiateDialup(c) \in Seq(GoodCall)
    BY <1>1, <1>4, DialMade
  <2> HIDE DEF c, m, dial
  <2>3. CircdInv'
    BY <1>1, <1>2, <1>3, <2>1, <2>2, FunctionInv DEF TypeOK
  <2> QED BY <2>1, <2>3 DEF DialsOnlyIfAllowed
<1>5. CASE ~dial
  <2>1. /\ Run(<<>>)
        /\ CircuitHangup(c, "active") \/ UNCHANGED <<operation, hangup_state, queue>>
    BY <1>5 DEF DoModeChange, Return
  <2> HIDE DEF c, m, dial
  <2>2. /\ operation' \in [Circuits -> {"none", "dial", "hangup"}]
        /\ hangup_state' \in [Circuits -> {"none", "active", "inactive", "failed"}]
        /\ queue' \in [Circuits -> Seq({"dial", "hangup", "quit"})]
        /\ \A y \in Circuits : operation[y] # "dial" => operation'[y] # "dial"
    BY <1>1, <1>3, <2>1, CircuitHangupType DEF TypeOK
  <2>3. CircdInv'
    BY <1>1, <1>2, <1>3, <2>1, <2>2, FunctionInv, EmptySeq DEF TypeOK
  <2> QED BY <2>2, <2>3 DEF DialsOnlyIfAllowed
<1> QED BY <1>4, <1>5

LEMMA DialledInv == CircdInv /\ Dialled => CircdInv' /\ DialsOnlyIfAllowed
<1> SUFFICES ASSUME CircdInv, Dialled PROVE CircdInv' /\ DialsOnlyIfAllowed
  OBVIOUS
<1> DEFINE c == Head(todo).circuit
<1>1. todo # <<>> /\ c \in Circuits /\ EffectiveMode(c) # "off"
  BY RunningCall DEF Dialled, GoodCall, FitsModes
<1>2. TypeOK
  BY DEF CircdInv
<1>3. /\ operation' = [operation EXCEPT ![c] = "dial"]
      /\ ToQueue(c, "dial") /\ Run(<<>>)
      /\ UNCHANGED <<hangup_state, daemons, state, protocols_up, router_state, modes,
                     service, inbox, scripts, world, bounds>>
  BY DEF Dialled, Return
<1> HIDE DEF c
<1>4. queue' \in [Circuits -> Seq({"dial", "hangup", "quit"})]
  BY <1>1, <1>2, <1>3, ToQueueType
<1>5. CircdInv'
  BY <1>1, <1>2, <1>3, <1>4, FunctionInv, EmptySeq DEF TypeOK
<1>6. DialsOnlyIfAllowed
  BY <1>1, <1>2, <1>3 DEF DialsOnlyIfAllowed, TypeOK
<1> QED BY <1>5, <1>6

(* The functions that only finish what another one has begun *)
LEMMA HungUpInv == CircdInv /\ HungUp => CircdInv' /\ DialsOnlyIfAllowed
<1> SUFFICES ASSUME CircdInv, HungUp PROVE CircdInv' /\ DialsOnlyIfAllowed
  OBVIOUS
<1> DEFINE c == Head(todo).circuit
<1>1. todo # <<>> /\ c \in Circuits
  BY RunningCall DEF HungUp
<1>2. TypeOK
  BY DEF CircdInv
<1>3. /\ operation' = [operation EXCEPT ![c] = AfterHangup(@)]
      /\ hangup_state' = [hangup_state EXCEPT ![c] = "none"]
      /\ daemons' = [daemons EXCEPT ![c] = Deregistered(c, "HANGUP")]
      /\ Run(<<>>)
      /\ UNCHANGED <<queue, state, protocols_up, router_state, modes,
                     service, inbox, scripts, world, bounds>>
  BY DEF HungUp, Return
<1> HIDE DEF c
<1>4. daemons' \in [Circuits -> SUBSET ({"TERM", "HANGUP"} \X Daemons)]
  BY <1>1, <1>2, <1>3 DEF TypeOK, Deregistered
<1>5. /\ operation' \in [Circuits -> {"none", "dial", "hangup"}]
      /\ \A y \in Circuits : operation[y] # "dial" => operation'[y] # "dial"
  BY <1>1, <1>2, <1>3 DEF TypeOK, AfterHangup
<1>6. CircdInv'
  BY <1>1, <1>2, <1>3, <1>4, <1>5, FunctionInv, EmptySeq DEF TypeOK
<1> QED BY <1>5, <1>6 DEF DialsOnlyIfAllowed

LEMMA EndOfDialInv == CircdInv /\ (WentOnline \/ NotDialled) => CircdInv' /\ DialsOnlyIfAllowed
<1> SUFFICES ASSUME CircdInv, WentOnline \/ NotDialled PROVE CircdInv' /\ DialsOnlyIfAllowed
  OBVIOUS
<1> DEFINE c == Head(todo).circuit
<1>1. todo # <<>> /\ c \in Circuits
  BY RunningCall DEF WentOnline, NotDialled
<1>2. TypeOK
  BY DEF CircdInv
<1>3. /\ \/ operation' = [operation EXCEPT ![c] = IF @ = "dial" THEN "none" ELSE @]
         \/ operation' = [operation EXCEPT ![c] = "none"]
      /\ Run(<<>>)
      /\ UNCHANGED <<hangup_state, daemons, queue, state, protocols_up, router_state,
                     modes, service, inbox, scripts, world, bounds>>
  BY DEF WentOnline, NotDialled, Return
<1> HIDE DEF c
<1>4. /\ operation' \in [Circuits -> {"none", "dial", "hangup"}]
      /\ \A y \in Circuits : operation[y] # "dial" => operation'[y] # "dial"
  BY <1>1, <1>2, <1>3 DEF TypeOK
<1>5. CircdInv'
  BY <1>1, <1>2, <1>3, <1>4, FunctionInv, EmptySeq DEF TypeOK
<1> QED BY <1>4, <1>5 DEF DialsOnlyIfAllowed

LEMMA FinalizeHangupInv == CircdInv /\ DoFinalizeHangup => CircdInv' /\ UNCHANGED operation
<1> SUFFICES ASSUME CircdInv, DoFinalizeHangup PROVE CircdInv' /\ UNCHANGED operation
  OBVIOUS
<1> DEFINE c == Head(todo).circuit
           target == IF hangup_state[c] = "none" THEN "active" ELSE hangup_state[c]
<1>1. todo # <<>> /\ c \in Circuits
  BY RunningCall DEF DoFinalizeHangup
<1>2. TypeOK
  BY DEF CircdInv
<1>3. /\ \/ Run(<<>>)
         \/ Run(<<After("hung_up", c)>>)
         \/ Run(<<ChangeState(c, target), After("hung_up", c)>>)
      /\ UNCHANGED <<operation, hangup_state, daemons, queue, state, protocols_up,
                     router_state, modes, service, inbox, scripts, world, bounds>>
  BY DEF DoFinalizeHangup, circuit
<1>4. target \in State
  BY <1>1, <1>2 DEF TypeOK, State
<1> HIDE DEF c, target
<1>5. After("hung_up", c) \in GoodCall /\ ChangeState(c, target) \in GoodCall
  BY <1>1, <1>4, CallsMade
<1>6. /\ <<>> \in Seq(GoodCall)
      /\ <<After("hung_up", c)>> \in Seq(GoodCall)
      /\ <<ChangeState(c, target), After("hung_up", c)>> \in Seq(GoodCall)
  BY <1>5
<1>7. PICK calls \in Seq(GoodCall) : Run(calls)
  BY <1>3, <1>6, Zenon
<1> QED BY <1>1, <1>2, <1>3, <1>7, FunctionInv DEF TypeOK

LEMMA StopQueueInv == CircdInv /\ StopQueue => CircdInv' /\ UNCHANGED operation
<1> SUFFICES ASSUME CircdInv, StopQueue PROVE CircdInv' /\ UNCHANGED operation
  OBVIOUS
<1> DEFINE c == Head(todo).circuit
<1>1. todo # <<>> /\ c \in Circuits
  BY RunningCall DEF StopQueue
<1>2. TypeOK
  BY DEF CircdInv
<1>3. /\ ToQueue(c, "quit") /\ Run(<<>>)
      /\ UNCHANGED <<operation, hangup_state, daemons, state, protocols_up,
                     router_state, modes, service, inbox, scripts, world, bounds>>
  BY DEF StopQueue, Return, circuit
<1> HIDE DEF c
<1>4. queue' \in [Circuits -> Seq({"dial", "hangup", "quit"})]
  BY <1>1, <1>2, <1>3, ToQueueType
<1> QED BY <1>1, <1>2, <1>3, <1>4, FunctionInv, EmptySeq DEF TypeOK

-----------------------------------------------------------------------------
(* The handlers and the other processes *)

(* The part of the type invariant these actions can disturb, besides the   *)
(* stack and the inbox *)
OthersOK ==
  /\ operation \in [Circuits -> {"none", "dial", "hangup"}]
  /\ hangup_state \in [Circuits -> {"none", "active", "inactive", "failed"}]
  /\ protocols_up \in [Circuits -> SUBSET Protocols]
  /\ daemons \in [Circuits -> SUBSET ({"TERM", "HANGUP"} \X Daemons)]
  /\ shutting_down \in BOOLEAN
  /\ children \subseteq ({"q"} \X Circuits) \cup ({"d"} \X Daemons)
  /\ running \in BOOLEAN
  /\ queue \in [Circuits -> Seq({"dial", "hangup", "quit"})]
  /\ worker \in [Circuits -> Work]
  /\ translated \in [Circuits -> BOOLEAN]
  /\ process \in [Daemons -> {"none", "running", "killed"}]
  /\ owner \in [Daemons -> Circuits]
  /\ named \subseteq Daemons
  /\ net \in [Daemons -> SUBSET Protocols]
  /\ commands \in 0..MaxCommands
  /\ failures \in 0..MaxFailures

(* What is left to show of a step that changes neither states nor modes *)
LEMMA StepInv ==
  ASSUME CircdInv, UNCHANGED <<state, router_state, modes>>,
         todo' \in Seq(GoodCall), inbox' \in Seq(Message), OthersOK'
  PROVE  CircdInv'
<1>1. todo' \in Seq(GoodCall')
  BY SameModes
<1>2. TypeOK'
  BY <1>1, GoodIsTyped DEF CircdInv, TypeOK, OthersOK, modes
<1>3. RouterStateAgrees'
  BY SameRouterState DEF CircdInv
<1> QED BY <1>1, <1>2, <1>3 DEF CircdInv

(* The other variables are well-typed, and so they stay if unchanged. *)
LEMMA OthersSame ==
  ASSUME CircdInv
  PROVE  /\ OthersOK
         /\ UNCHANGED <<operation, hangup_state, protocols_up, daemons, service, queue,
                        scripts, world, bounds>> => OthersOK'
BY DEF CircdInv, TypeOK, OthersOK, service, scripts, world, bounds

(* Stacks a handler begins with *)
LEMMA Stacks ==
  ASSUME NEW c \in Circuits
  PROVE  /\ <<>> \in Seq(GoodCall)
         /\ <<FinalizeHangup(c)>> \in Seq(GoodCall)
         /\ \A s \in State : <<ChangeState(c, s)>> \in Seq(GoodCall)
         /\ <<ChangeState(c, "active"), After("not_dialled", c)>> \in Seq(GoodCall)
         /\ <<ChangeState(c, "online"), After("went_online", c)>> \in Seq(GoodCall)
<1>1. "active" \in State /\ "online" \in State
  BY DEF State
<1>2. /\ ChangeState(c, "active") \in GoodCall /\ ChangeState(c, "online") \in GoodCall
      /\ After("not_dialled", c) \in GoodCall /\ After("went_online", c) \in GoodCall
      /\ FinalizeHangup(c) \in GoodCall
      /\ \A s \in State : ChangeState(c, s) \in GoodCall
  BY <1>1, CallsMade
<1> QED BY <1>2

(* Handlers that only decide which functions to call *)
LEMMA ActivateInv ==
  CircdInv /\ (HandleActivate \/ HandleDialup) => CircdInv' /\ UNCHANGED operation
<1> SUFFICES ASSUME CircdInv, HandleActivate \/ HandleDialup
             PROVE  CircdInv' /\ UNCHANGED operation
  OBVIOUS
<1>1. PICK type \in {"activate", "dialup"} : Receives(type)
  BY DEF HandleActivate, HandleDialup
<1>2. Msg \in Message /\ Msg.type = type /\ Tail(inbox) \in Seq(Message)
  BY <1>1, Received DEF CircdInv
<1>3. Msg.circuit \in Circuits
  BY <1>2, MessageTypes
<1>4. /\ inbox' \in Seq(Message)
      /\ UNCHANGED <<state, router_state, modes, operation, hangup_state, protocols_up,
                     daemons, service, queue, scripts, world, bounds>>
  BY <1>2 DEF HandleActivate, HandleDialup, circuit
<1>5. todo' \in Seq(GoodCall)
  <2>1. CASE HandleActivate
    <3>1. todo' = <<ChangeState(Msg.circuit, "active")>> \/ todo' = <<>>
      BY <2>1 DEF HandleActivate
    <3> QED BY <1>3, <3>1, Stacks DEF State
  <2>2. CASE HandleDialup
    <3>1. \/ MayDial(Msg.circuit) /\ todo' = InitiateDialup(Msg.circuit)
          \/ todo' = <<>>
      BY <2>2 DEF HandleDialup
    <3>2. MayDial(Msg.circuit) => EffectiveMode(Msg.circuit) # "off"
      BY DEF MayDial
    <3> QED BY <1>3, <3>1, <3>2, Stacks, DialMade
  <2> QED BY <2>1, <2>2
<1>6. OthersOK'
  BY <1>4, OthersSame
<1> QED BY <1>4, <1>5, <1>6, StepInv

LEMMA FailedInv ==
  CircdInv /\ (HandleDialupFailed \/ HandleHangupFailed) => CircdInv' /\ UNCHANGED operation
<1> SUFFICES ASSUME CircdInv, HandleDialupFailed \/ HandleHangupFailed
             PROVE  CircdInv' /\ UNCHANGED operation
  OBVIOUS
<1>1. PICK type \in {"dialup_failed", "hangup_failed"} : Receives(type)
  BY DEF HandleDialupFailed, HandleHangupFailed
<1>2. Msg \in Message /\ Msg.type = type /\ Tail(inbox) \in Seq(Message)
  BY <1>1, Received DEF CircdInv
<1>3. Msg.circuit \in Circuits
  BY <1>2, MessageTypes
<1>4. /\ inbox' \in Seq(Message)
      /\ UNCHANGED <<state, router_state, modes, operation, hangup_state, protocols_up,
                     daemons, service, queue, scripts, world, bounds>>
  BY <1>2 DEF HandleDialupFailed, HandleHangupFailed, circuit
<1>5. todo' \in Seq(GoodCall)
  BY <1>3, Stacks DEF HandleDialupFailed, HandleHangupFailed
<1>6. OthersOK'
  BY <1>4, OthersSame
<1> QED BY <1>4, <1>5, <1>6, StepInv

LEMMA HandleHangupInv == CircdInv /\ HandleHangup => CircdInv' /\ DialsOnlyIfAllowed
<1> SUFFICES ASSUME CircdInv, HandleHangup PROVE CircdInv' /\ DialsOnlyIfAllowed
  OBVIOUS
<1> DEFINE c == Msg.circuit
           target == Target(Msg.type)
<1>1. PICK type \in {"hangup", "deactivate", "fail"} : Receives(type)
  BY DEF HandleHangup
<1>2. Msg \in Message /\ Msg.type = type /\ Tail(inbox) \in Seq(Message) /\ todo = <<>>
  BY <1>1, Received DEF CircdInv
<1>3. c \in Circuits
  BY <1>2, MessageTypes
<1>4. target \in {"active", "inactive", "failed"}
  BY <1>2 DEF Target
<1>5. /\ inbox' \in Seq(Message)
      /\ UNCHANGED <<state, router_state, modes, protocols_up, daemons, service,
                     scripts, world, bounds>>
  BY <1>2 DEF HandleHangup
<1>6. \/ CircuitHangup(c, target) /\ todo' = todo
      \/ /\ hangup_state' = [hangup_state EXCEPT ![c] = target]
         /\ todo' = <<FinalizeHangup(c)>>
         /\ UNCHANGED <<operation, queue>>
  BY DEF HandleHangup
<1>7. TypeOK
  BY DEF CircdInv
<1> HIDE DEF c, target
<1>8. todo' \in Seq(GoodCall)
  BY <1>2, <1>3, <1>6, Stacks
<1>9. /\ operation' \in [Circuits -> {"none", "dial", "hangup"}]
      /\ hangup_state' \in [Circuits -> {"none", "active", "inactive", "failed"}]
      /\ queue' \in [Circuits -> Seq({"dial", "hangup", "quit"})]
      /\ \A x \in Circuits : operation[x] # "dial" => operation'[x] # "dial"
  <2>1. CASE CircuitHangup(c, target)
    BY <1>3, <1>4, <1>7, <2>1, CircuitHangupType
  <2>2. CASE /\ hangup_state' = [hangup_state EXCEPT ![c] = target]
             /\ UNCHANGED <<operation, queue>>
    BY <1>3, <1>4, <1>7, <2>2 DEF TypeOK
  <2> QED BY <1>6, <2>1, <2>2
<1>10. OthersOK'
  BY <1>5, <1>7, <1>9 DEF TypeOK, OthersOK, service, scripts, world, bounds
<1>11. CircdInv'
  BY <1>5, <1>8, <1>10, StepInv
<1> QED BY <1>9, <1>11 DEF DialsOnlyIfAllowed

(* The modes change only here, and the calls put on the stack fit the new  *)
(* ones; there are no others.                                              *)
LEMMA SetModeInv == CircdInv /\ HandleSetMode => CircdInv' /\ UNCHANGED operation
<1> SUFFICES ASSUME CircdInv, HandleSetMode PROVE CircdInv' /\ UNCHANGED operation
  OBVIOUS
<1>1. PICK type \in {"set_global_dialmode", "set_local_dialmode"} : Receives(type)
  BY DEF HandleSetMode
<1>2. Msg \in Message /\ Msg.type = type /\ Tail(inbox) \in Seq(Message) /\ todo = <<>>
  BY <1>1, Received DEF CircdInv
<1>3. Msg.mode \in Mode /\ (type = "set_local_dialmode" => Msg.circuit \in Circuits)
  BY <1>2, MessageTypes
<1>4. /\ inbox' \in Seq(Message)
      /\ UNCHANGED <<state, router_state, operation, hangup_state, protocols_up, daemons,
                     service, queue, scripts, world, bounds>>
  BY <1>2 DEF HandleSetMode, circuit
<1>5. TypeOK
  BY DEF CircdInv
<1>6. global_mode' \in Mode /\ local_mode' \in [Circuits -> Mode]
  BY <1>2, <1>3, <1>5 DEF HandleSetMode, TypeOK, modes
<1>7. todo' \in Seq(GoodCall')
  <2>1. CASE shutting_down
    BY <1>2, <2>1 DEF HandleSetMode
  <2>2. CASE ~shutting_down
    <3> DEFINE old == [c \in Circuits |-> EffectiveMode(c)]
               new == [c \in Circuits |-> EffectiveMode(c)']
               call(i) == [fn |-> "mode_change", circuit |-> Order[i],
                           old |-> old[Order[i]], mode |-> new[Order[i]]]
    <3>1. todo' = [i \in DOMAIN Order |-> call(i)]
      BY <2>2 DEF HandleSetMode, ModeChanges
    <3>2. ASSUME NEW i \in DOMAIN Order PROVE call(i) \in GoodCall'
      <4>1. Order[i] \in Circuits
        BY CircdAssumption
      <4>2. old[Order[i]] \in Mode
        BY <1>5, <4>1, EffectiveModeType
      <4>3. EffectiveMode(Order[i])' \in Mode
        BY <1>6 DEF EffectiveMode, Smaller, Mode
      <4>4. new[Order[i]] = EffectiveMode(Order[i])'
        BY <4>1
      <4> HIDE DEF old, new
      <4>5. call(i) \in Call
        BY <4>1, <4>2, <4>3, <4>4 DEF Call
      <4>6. GoodCall' =
              {x \in Call : /\ x.fn = "dialled" => EffectiveMode(x.circuit)' # "off"
                            /\ x.fn = "mode_change" => x.mode = EffectiveMode(x.circuit)'}
        BY DEF GoodCall, FitsModes
      <4>7. call(i).fn = "mode_change" /\ call(i).circuit = Order[i]
            /\ call(i).mode = EffectiveMode(Order[i])'
        BY <4>4
      <4> HIDE DEF call
      <4> QED BY <4>5, <4>6, <4>7
    <3>3. DOMAIN Order = 1..Len(Order) /\ Len(Order) \in Nat
      BY CircdAssumption
    <3> HIDE DEF call
    <3> QED BY <3>1, <3>2, <3>3
  <2> QED BY <2>1, <2>2
<1>8. TypeOK'
  BY <1>4, <1>5, <1>6, <1>7, GoodIsTyped DEF TypeOK, service, scripts, world, bounds
<1>9. RouterStateAgrees'
  BY <1>4, SameRouterState DEF CircdInv
<1> QED BY <1>4, <1>7, <1>8, <1>9 DEF CircdInv

(* A script is told the dial mode. *)
LEMMA GetModeInv == CircdInv /\ HandleGetMode => CircdInv' /\ UNCHANGED operation
<1> SUFFICES ASSUME CircdInv, HandleGetMode PROVE CircdInv' /\ UNCHANGED operation
  OBVIOUS
<1>1. Tail(inbox) \in Seq(Message) /\ todo \in Seq(GoodCall) /\ TypeOK
  BY Received DEF CircdInv, HandleGetMode
<1>2. /\ inbox' \in Seq(Message)
      /\ UNCHANGED <<todo, state, router_state, modes, operation, hangup_state, protocols_up,
                     daemons, service, queue, translated, world, bounds>>
  BY <1>1 DEF HandleGetMode, circuit
<1>3. worker' \in [Circuits -> Work]
  BY <1>1 DEF HandleGetMode, TypeOK, Work
<1>4. OthersOK'
  BY <1>1, <1>2, <1>3 DEF OthersOK, TypeOK, service, world, bounds
<1> QED BY <1>1, <1>2, <1>4, StepInv

(* A protocol has come up or gone down. *)
LEMMA ProtocolInv ==
  CircdInv /\ (HandleUp \/ HandleDown) => CircdInv' /\ UNCHANGED operation
<1> SUFFICES ASSUME CircdInv, HandleUp \/ HandleDown PROVE CircdInv' /\ UNCHANGED operation
  OBVIOUS
<1>1. PICK type \in {"up", "down"} : Receives(type)
  BY DEF HandleUp, HandleDown
<1>2. Msg \in Message /\ Msg.type = type /\ Tail(inbox) \in Seq(Message)
  BY <1>1, Received DEF CircdInv
<1>3. Msg.circuit \in Circuits /\ Msg.protocol \in Protocols
  BY <1>2, MessageTypes
<1>4. /\ inbox' \in Seq(Message)
      /\ UNCHANGED <<state, router_state, modes, operation, hangup_state, daemons,
                     service, queue, scripts, world, bounds>>
  BY <1>2 DEF HandleUp, HandleDown
<1>5. todo' \in Seq(GoodCall)
  <2>1. \/ todo' = <<>> \/ todo' = <<FinalizeHangup(Msg.circuit)>>
        \/ todo' = <<ChangeState(Msg.circuit, "semionline")>>
        \/ todo' = <<ChangeState(Msg.circuit, "online"), After("went_online", Msg.circuit)>>
    BY DEF HandleUp, HandleDown
  <2>2. "semionline" \in State
    BY DEF State
  <2> QED BY <1>3, <2>1, <2>2, Stacks
<1>6. TypeOK
  BY DEF CircdInv
<1>7. protocols_up' \in [Circuits -> SUBSET Protocols]
  <2>1. CASE HandleUp
    BY <1>3, <1>6, <2>1 DEF HandleUp, TypeOK
  <2>2. CASE HandleDown
    BY <1>3, <1>6, <2>2 DEF HandleDown, TypeOK
  <2> QED BY <2>1, <2>2
<1>8. OthersOK'
  BY <1>4, <1>6, <1>7 DEF OthersOK, TypeOK, service, scripts, world, bounds
<1> QED BY <1>4, <1>5, <1>8, StepInv

LEMMA StartDaemonInv == CircdInv /\ HandleStartDaemon => CircdInv' /\ UNCHANGED operation
<1> SUFFICES ASSUME CircdInv, HandleStartDaemon PROVE CircdInv' /\ UNCHANGED operation
  OBVIOUS
<1>1. Receives("start_daemon")
  BY DEF HandleStartDaemon
<1>2. Msg \in Message /\ Msg.type = "start_daemon" /\ Tail(inbox) \in Seq(Message)
  BY <1>1, Received DEF CircdInv
<1>3. Msg.circuit \in Circuits
  BY <1>2, MessageTypes
<1>4. /\ inbox' \in Seq(Message) /\ todo' = todo
      /\ UNCHANGED <<state, router_state, operation, hangup_state, protocols_up, modes,
                     shutting_down, running, queue, scripts, net, bounds>>
  BY <1>2 DEF HandleStartDaemon, circuit
<1>5. TypeOK /\ todo \in Seq(GoodCall)
  BY DEF CircdInv
<1>6. /\ process' \in [Daemons -> {"none", "running", "killed"}]
      /\ owner' \in [Daemons -> Circuits]
      /\ named' \subseteq Daemons
      /\ children' \subseteq ({"q"} \X Circuits) \cup ({"d"} \X Daemons)
      /\ daemons' \in [Circuits -> SUBSET ({"TERM", "HANGUP"} \X Daemons)]
  <2>1. CASE UNCHANGED <<process, owner, named, daemons, children>>
    BY <1>5, <2>1 DEF TypeOK
  <2>2. CASE ~UNCHANGED <<process, owner, named, daemons, children>>
    <3>1. PICK d \in Daemons :
            /\ process' = [process EXCEPT ![d] = "running"]
            /\ owner' = [owner EXCEPT ![d] = Msg.circuit]
            /\ named' = named \/ named' = named \cup {d}
            /\ children' = children \cup {<<"d", d>>}
            /\ daemons' = [c \in Circuits |->
                             IF c = Msg.circuit THEN {"TERM", "HANGUP"} \X {d}
                             ELSE {r \in daemons[c] : r[2] # d}]
      BY <2>2 DEF HandleStartDaemon
    <3>2. process' \in [Daemons -> {"none", "running", "killed"}]
          /\ owner' \in [Daemons -> Circuits]
      BY <1>3, <1>5, <3>1 DEF TypeOK
    <3>3. /\ named' \subseteq Daemons
          /\ children' \subseteq ({"q"} \X Circuits) \cup ({"d"} \X Daemons)
      BY <1>5, <3>1 DEF TypeOK
    <3>4. daemons' \in [Circuits -> SUBSET ({"TERM", "HANGUP"} \X Daemons)]
      BY <1>5, <3>1 DEF TypeOK
    <3> QED BY <3>2, <3>3, <3>4
  <2> QED BY <2>1, <2>2
<1>7. OthersOK'
  BY <1>4, <1>5, <1>6 DEF OthersOK, TypeOK, scripts, bounds
<1> QED BY <1>4, <1>5, <1>7, StepInv

LEMMA StopDaemonInv == CircdInv /\ HandleStopDaemon => CircdInv' /\ UNCHANGED operation
<1> SUFFICES ASSUME CircdInv, HandleStopDaemon PROVE CircdInv' /\ UNCHANGED operation
  OBVIOUS
<1>1. Receives("stop_daemon")
  BY DEF HandleStopDaemon
<1>2. Msg \in Message /\ Msg.type = "stop_daemon" /\ Tail(inbox) \in Seq(Message)
  BY <1>1, Received DEF CircdInv
<1>3. Msg.circuit \in Circuits
  BY <1>2, MessageTypes
<1>4. /\ inbox' \in Seq(Message) /\ todo' = todo
      /\ UNCHANGED <<state, router_state, operation, hangup_state, protocols_up, modes,
                     service, queue, scripts, owner, named, net, bounds>>
  BY <1>2 DEF HandleStopDaemon, circuit
<1>5. TypeOK /\ todo \in Seq(GoodCall)
  BY DEF CircdInv
<1>6. daemons' \in [Circuits -> SUBSET ({"TERM", "HANGUP"} \X Daemons)]
  BY <1>3, <1>5 DEF HandleStopDaemon, Deregistered, TypeOK
<1>7. process' \in [Daemons -> {"none", "running", "killed"}]
  BY <1>5 DEF HandleStopDaemon, TypeOK
<1>8. OthersOK'
  BY <1>4, <1>5, <1>6, <1>7 DEF OthersOK, TypeOK, service, scripts, bounds
<1> QED BY <1>4, <1>5, <1>8, StepInv

LEMMA DaemonExitedInv == CircdInv /\ HandleDaemonExited => CircdInv' /\ UNCHANGED operation
<1> SUFFICES ASSUME CircdInv, HandleDaemonExited PROVE CircdInv' /\ UNCHANGED operation
  OBVIOUS
<1>1. Receives("daemon_exited")
  BY DEF HandleDaemonExited
<1>2. Msg \in Message /\ Tail(inbox) \in Seq(Message) /\ todo = <<>>
  BY <1>1, Received DEF CircdInv
<1>3. /\ inbox' \in Seq(Message)
      /\ UNCHANGED <<state, router_state, operation, hangup_state, protocols_up, modes,
                     service, queue, scripts, world, bounds>>
  BY <1>2 DEF HandleDaemonExited, circuit
<1>4. TypeOK
  BY DEF CircdInv
<1>5. daemons' \in [Circuits -> SUBSET ({"TERM", "HANGUP"} \X Daemons)]
  BY <1>4 DEF HandleDaemonExited, TypeOK
<1>6. todo' \in Seq(GoodCall)
  <2>1. todo' = <<>> \/ \E c \in Circuits : todo' = <<FinalizeHangup(c)>>
    BY DEF HandleDaemonExited
  <2> QED BY <2>1, Stacks, EmptySeq
<1>7. OthersOK'
  BY <1>3, <1>4, <1>5 DEF OthersOK, TypeOK, service, scripts, world, bounds
<1> QED BY <1>3, <1>6, <1>7, StepInv

LEMMA ChildExitedInv == CircdInv /\ HandleChildExited => CircdInv' /\ UNCHANGED operation
<1> SUFFICES ASSUME CircdInv, HandleChildExited PROVE CircdInv' /\ UNCHANGED operation
  OBVIOUS
<1>1. Receives("child_exited")
  BY DEF HandleChildExited
<1>2. Tail(inbox) \in Seq(Message)
  BY <1>1, Received DEF CircdInv
<1>3. /\ inbox' \in Seq(Message) /\ todo' = todo
      /\ children' \subseteq children /\ running' \in BOOLEAN
      /\ UNCHANGED <<state, router_state, operation, hangup_state, protocols_up, modes,
                     daemons, shutting_down, queue, scripts, world, bounds>>
  BY <1>2 DEF HandleChildExited, circuit
<1>4. TypeOK /\ todo \in Seq(GoodCall)
  BY DEF CircdInv
<1>5. OthersOK'
  BY <1>3, <1>4 DEF OthersOK, TypeOK, scripts, world, bounds
<1> QED BY <1>3, <1>4, <1>5, StepInv

LEMMA StopServiceInv == CircdInv /\ HandleStopService => CircdInv' /\ UNCHANGED operation
<1> SUFFICES ASSUME CircdInv, HandleStopService PROVE CircdInv' /\ UNCHANGED operation
  OBVIOUS
<1> DEFINE message(i) == [type |-> "deactivate", circuit |-> Order[i]]
           messages == [i \in DOMAIN Order |-> message(i)]
<1>1. Receives("stop_service")
  BY DEF HandleStopService
<1>2. Tail(inbox) \in Seq(Message)
  BY <1>1, Received DEF CircdInv
<1>3. ASSUME NEW i \in DOMAIN Order PROVE message(i) \in Message
  <2>1. Order[i] \in Circuits
    BY CircdAssumption
  <2> QED BY <2>1 DEF Message, Command, CircuitCommand
<1>4. messages \in Seq(Message)
  <2>1. DOMAIN Order = 1..Len(Order) /\ Len(Order) \in Nat
    BY CircdAssumption
  <2> HIDE DEF message
  <2> QED BY <1>3, <2>1
<1>5. inbox' = Tail(inbox) \/ inbox' = Tail(inbox) \o messages
  BY DEF HandleStopService
<1> HIDE DEF messages
<1>6. inbox' \in Seq(Message)
  BY <1>2, <1>4, <1>5, ConcatProperties
<1>7. TypeOK /\ todo \in Seq(GoodCall)
  BY DEF CircdInv
<1>8. shutting_down' \in BOOLEAN /\ running' \in BOOLEAN
  BY <1>7 DEF HandleStopService, TypeOK
<1>9. UNCHANGED <<todo, state, router_state, operation, hangup_state, protocols_up, modes,
                  daemons, children, queue, scripts, world, bounds>>
  BY DEF HandleStopService, circuit
<1>10. OthersOK'
  BY <1>7, <1>8, <1>9 DEF OthersOK, TypeOK, scripts, world, bounds
<1> QED BY <1>6, <1>7, <1>9, <1>10, StepInv

(* The messages the other processes send *)
LEMMA MessagesSent ==
  /\ \A c \in Circuits : \A type \in {"start_daemon", "stop_daemon", "dialup_failed",
                                      "hangup_failed", "get_effective_dialmode"} :
       [type |-> type, circuit |-> c] \in Message
  /\ \A c \in Circuits, p \in Protocols, type \in {"up", "down"} :
       [type |-> type, circuit |-> c, protocol |-> p] \in Message
  /\ \A d \in Daemons : [type |-> "daemon_exited", daemon |-> d] \in Message
  /\ \A k \in ({"q"} \X Circuits) \cup ({"d"} \X Daemons) \cup {Circd} :
       [type |-> "child_exited", child |-> k] \in Message
  /\ Commands \subseteq Message
BY CircdAssumption DEF Message

(* The queue process and the script of a circuit *)
LEMMA ScriptInv ==
  ASSUME CircdInv, NEW c \in Circuits, Script(c)
  PROVE  CircdInv' /\ UNCHANGED operation
<1>1. TypeOK /\ todo \in Seq(GoodCall)
  BY DEF CircdInv
<1>2. UNCHANGED <<todo, state, router_state, operation, hangup_state, protocols_up, modes,
                  daemons, service, world, commands>>
  BY DEF Script, QueueTakes, DialScript, DialAnswered, HangupScript, circuit, bounds
<1>3. CASE QueueTakes(c)
  <2>1. queue[c] \in Seq({"dial", "hangup", "quit"}) /\ queue[c] # <<>>
    BY <1>1, <1>3 DEF QueueTakes, TypeOK
  <2>2. /\ Head(queue[c]) \in {"dial", "hangup", "quit"}
        /\ Tail(queue[c]) \in Seq({"dial", "hangup", "quit"})
    BY <2>1, HeadTailProperties
  <2>3. queue' \in [Circuits -> Seq({"dial", "hangup", "quit"})]
    BY <1>1, <1>3, <2>2 DEF QueueTakes, TypeOK
  <2>4. worker' \in [Circuits -> Work]
    <3>1. \/ worker' = [worker EXCEPT ![c] = "gone"]
          \/ /\ Head(queue[c]) # "quit"
             /\ worker' = [worker EXCEPT ![c] = Head(queue[c])]
      BY <1>3 DEF QueueTakes
    <3>2. worker \in [Circuits -> Work]
      BY <1>1 DEF TypeOK
    <3> QED BY <2>2, <3>1, <3>2 DEF Work
  <2>5. [type |-> "child_exited", child |-> <<"q", c>>] \in Message
    BY MessagesSent
  <2>6. inbox' \in Seq(Message)
    <3>1. \/ inbox' = Append(inbox, [type |-> "child_exited", child |-> <<"q", c>>])
          \/ inbox' = inbox
      BY <1>3 DEF QueueTakes
    <3>2. inbox \in Seq(Message)
      BY <1>1 DEF TypeOK
    <3> QED BY <2>5, <3>1, <3>2, AppendProperties
  <2>7. OthersOK'
    BY <1>1, <1>2, <1>3, <2>3, <2>4
       DEF OthersOK, TypeOK, QueueTakes, service, scripts, world, bounds
  <2> QED BY <1>1, <1>2, <2>6, <2>7, StepInv
<1>4. CASE DialScript(c)
  <2>1. PICK found \in BOOLEAN,
             type \in {"start_daemon", "get_effective_dialmode", "dialup_failed"} :
          /\ failures' = failures + (IF type = "dialup_failed" THEN 1 ELSE 0)
          /\ failures' <= MaxFailures
          /\ translated' = [translated EXCEPT ![c] = @ \/ found]
          /\ worker' = [worker EXCEPT ![c] =
                          IF type = "get_effective_dialmode" THEN "asks" ELSE "idle"]
          /\ inbox' = Append(inbox, [type |-> type, circuit |-> c])
    BY <1>4 DEF DialScript
  <2>2. [type |-> type, circuit |-> c] \in Message
    BY MessagesSent
  <2>3. inbox' \in Seq(Message)
    BY <1>1, <2>1, <2>2, AppendProperties DEF TypeOK
  <2>4. failures' \in 0..MaxFailures
    BY <1>1, <2>1, CircdAssumption DEF TypeOK
  <2>5. /\ worker' \in [Circuits -> Work]
        /\ UNCHANGED queue
    BY <1>1, <1>4, <2>1 DEF DialScript, TypeOK, Work
  <2>6. translated' \in [Circuits -> BOOLEAN]
    <3>1. (translated[c] \/ found) \in BOOLEAN
      OBVIOUS
    <3> QED BY <1>1, <2>1, <3>1 DEF TypeOK
  <2>7. OthersOK'
    BY <1>1, <1>2, <2>4, <2>5, <2>6 DEF OthersOK, TypeOK, service, world
  <2> QED BY <1>1, <1>2, <2>3, <2>7, StepInv
<1>5. CASE HangupScript(c)
  <2>1. PICK type \in {"stop_daemon", "hangup_failed"} :
          inbox' = Append(inbox, [type |-> type, circuit |-> c])
    BY <1>5 DEF HangupScript
  <2>2. [type |-> type, circuit |-> c] \in Message
    BY MessagesSent
  <2>3. inbox' \in Seq(Message)
    BY <1>1, <2>1, <2>2, AppendProperties DEF TypeOK
  <2>4. /\ worker' \in [Circuits -> Work]
        /\ UNCHANGED <<queue, translated, bounds>>
    BY <1>1, <1>5 DEF HangupScript, TypeOK, Work
  <2>5. OthersOK'
    BY <1>1, <1>2, <2>4 DEF OthersOK, TypeOK, service, world, bounds
  <2> QED BY <1>1, <1>2, <2>3, <2>5, StepInv
<1>6. CASE DialAnswered(c)
  <2>1. PICK type \in {"start_daemon", "dialup_failed"} :
          inbox' = Append(inbox, [type |-> type, circuit |-> c])
    BY <1>6 DEF DialAnswered
  <2>2. [type |-> type, circuit |-> c] \in Message
    BY MessagesSent
  <2>3. inbox' \in Seq(Message)
    BY <1>1, <2>1, <2>2, AppendProperties DEF TypeOK
  <2>4. /\ worker' \in [Circuits -> Work]
        /\ UNCHANGED <<queue, translated, bounds>>
    BY <1>1, <1>6 DEF DialAnswered, TypeOK, Work
  <2>5. OthersOK'
    BY <1>1, <1>2, <2>4 DEF OthersOK, TypeOK, service, world, bounds
  <2> QED BY <1>1, <1>2, <2>3, <2>5, StepInv
<1> QED BY <1>2, <1>3, <1>4, <1>5, <1>6 DEF Script

(* A daemon, its scripts and the children that wait for it *)
LEMMA DaemonInv ==
  ASSUME CircdInv, NEW d \in Daemons, Daemon(d)
  PROVE  CircdInv' /\ UNCHANGED operation
<1>1. TypeOK /\ todo \in Seq(GoodCall)
  BY DEF CircdInv
<1>2. UNCHANGED <<todo, state, router_state, operation, hangup_state, protocols_up, modes,
                  daemons, service, queue, scripts, owner, bounds>>
  BY DEF Daemon, DaemonExits, ProtocolUp, ProtocolDown, circuit
<1>3. CASE DaemonExits(d)
  <2> DEFINE first == [type |-> "daemon_exited", daemon |-> d]
             child == IF d \in named THEN <<"d", d>> ELSE Circd
             second == [type |-> "child_exited", child |-> child]
  <2>1. first \in Message /\ second \in Message
    <3>1. child \in ({"q"} \X Circuits) \cup ({"d"} \X Daemons) \cup {Circd}
      OBVIOUS
    <3> HIDE DEF child
    <3> QED BY <3>1, MessagesSent
  <2>2. inbox' = inbox \o <<first, second>>
    BY <1>3 DEF DaemonExits
  <2> HIDE DEF first, second
  <2>3. <<first, second>> \in Seq(Message)
    BY <2>1
  <2>4. inbox' \in Seq(Message)
    BY <1>1, <2>2, <2>3, ConcatProperties DEF TypeOK
  <2>5. /\ process' \in [Daemons -> {"none", "running", "killed"}]
        /\ named' \subseteq Daemons /\ UNCHANGED net
    BY <1>1, <1>3 DEF DaemonExits, TypeOK
  <2>6. OthersOK'
    BY <1>1, <1>2, <2>5 DEF OthersOK, TypeOK, service, scripts, bounds
  <2> QED BY <1>1, <1>2, <2>4, <2>6, StepInv
<1>4. CASE \E p \in Protocols : ProtocolUp(d, p) \/ ProtocolDown(d, p)
  <2>1. PICK p \in Protocols, type \in {"up", "down"} :
          /\ Announce(d, type, p)
          /\ \/ net' = [net EXCEPT ![d] = @ \cup {p}]
             \/ net' = [net EXCEPT ![d] = @ \ {p}]
          /\ UNCHANGED <<process, named>>
    BY <1>4 DEF ProtocolUp, ProtocolDown
  <2>2. owner[d] \in Circuits
    BY <1>1 DEF TypeOK
  <2>3. [type |-> type, circuit |-> owner[d], protocol |-> p] \in Message
    BY <2>2, MessagesSent
  <2>4. inbox' \in Seq(Message)
    BY <1>1, <2>1, <2>3, AppendProperties DEF TypeOK, Announce
  <2>5. net' \in [Daemons -> SUBSET Protocols]
    <3>1. net[d] \in SUBSET Protocols
      BY <1>1 DEF TypeOK
    <3>2. net[d] \cup {p} \in SUBSET Protocols /\ net[d] \ {p} \in SUBSET Protocols
      BY <3>1
    <3>3. net \in [Daemons -> SUBSET Protocols]
      BY <1>1 DEF TypeOK
    <3> QED BY <2>1, <3>2, <3>3
  <2>6. OthersOK'
    BY <1>1, <1>2, <2>1, <2>5 DEF OthersOK, TypeOK, service, scripts, bounds
  <2> QED BY <1>1, <1>2, <2>4, <2>6, StepInv
<1> QED BY <1>2, <1>3, <1>4 DEF Daemon

LEMMA SendInv ==
  ASSUME CircdInv, NEW m \in Commands, Send(m)
  PROVE  CircdInv' /\ UNCHANGED operation
<1>1. TypeOK /\ todo \in Seq(GoodCall)
  BY DEF CircdInv
<1>2. m \in Message
  BY MessagesSent
<1>3. inbox' \in Seq(Message)
  BY <1>1, <1>2, AppendProperties DEF Send, TypeOK
<1>4. commands' \in 0..MaxCommands
  BY <1>1, CircdAssumption DEF Send, TypeOK
<1>5. UNCHANGED <<todo, state, router_state, operation, hangup_state, protocols_up, modes,
                  daemons, service, queue, scripts, world, failures>>
  BY DEF Send, circuit
<1>6. OthersOK'
  BY <1>1, <1>4, <1>5 DEF OthersOK, TypeOK, service, scripts, world
<1> QED BY <1>1, <1>3, <1>5, <1>6, StepInv

LEMMA StutterInv == CircdInv /\ UNCHANGED vars => CircdInv' /\ UNCHANGED operation
<1> SUFFICES ASSUME CircdInv, UNCHANGED vars PROVE CircdInv' /\ UNCHANGED operation
  OBVIOUS
<1>1. /\ UNCHANGED <<state, router_state, modes, todo, inbox, operation, hangup_state,
                     protocols_up, daemons, service, queue, scripts, world, bounds>>
  BY DEF vars, circuit
<1>2. todo' \in Seq(GoodCall) /\ inbox' \in Seq(Message)
  BY <1>1 DEF CircdInv, TypeOK
<1>3. OthersOK'
  BY <1>1, OthersSame
<1> QED BY <1>1, <1>2, <1>3, StepInv

-----------------------------------------------------------------------------
(* The theorems *)

(* An operation that stays as it is does not become "dial". *)
LEMMA SameOperation == UNCHANGED operation => DialsOnlyIfAllowed
BY DEF DialsOnlyIfAllowed

(* The invariant is inductive, and every step respects the dial mode. *)
LEMMA NextCircdInv == CircdInv /\ [Next]_vars => CircdInv' /\ DialsOnlyIfAllowed
<1> SUFFICES ASSUME CircdInv, [Next]_vars PROVE CircdInv' /\ DialsOnlyIfAllowed
  OBVIOUS
<1>1. CASE CircdCall
  BY <1>1, SameOperation, ChangeStateInv, ReactInv, ModeChangeInv, DialledInv, HungUpInv,
     EndOfDialInv, FinalizeHangupInv, StopQueueInv, Zenon DEF CircdCall
<1>2. CASE CircdHandler
  BY <1>2, SameOperation, ActivateInv, FailedInv, HandleHangupInv, SetModeInv, GetModeInv, ProtocolInv,
     StartDaemonInv, StopDaemonInv, DaemonExitedInv, ChildExitedInv, StopServiceInv, Zenon
     DEF CircdHandler
<1>3. CASE \E c \in Circuits : Script(c)
  BY <1>3, SameOperation, ScriptInv
<1>4. CASE \E d \in Daemons : Daemon(d)
  BY <1>4, SameOperation, DaemonInv
<1>5. CASE \E m \in Commands : Send(m)
  BY <1>5, SameOperation, SendInv
<1>6. CASE UNCHANGED vars
  BY <1>6, SameOperation, StutterInv
<1> QED BY <1>1, <1>2, <1>3, <1>4, <1>5, <1>6 DEF Next, CircdStep

(* The invariant holds in every state circd and its processes can reach. *)
THEOREM CircdInvariance == Spec => []CircdInv
<1>1. CircdInv /\ [Next]_vars => CircdInv'
  BY NextCircdInv
<1> QED BY <1>1, InitCircdInv, PTL DEF Spec

(* circd, the queue processes, the scripts and the daemons are type        *)
(* correct: no handler is given a message, and no function of circd a call,*)
(* it is not written for.                                                  *)
THEOREM CircdTypeCorrect == Spec => []TypeOK
<1>1. CircdInv => TypeOK
  BY DEF CircdInv
<1> QED BY <1>1, CircdInvariance, PTL

(* The router state circd_change_state keeps agrees with the states of the *)
(* circuits that make the router online, also in the middle of a handler.  *)
THEOREM RouterAgrees == Spec => []RouterStateAgrees
<1>1. CircdInv => RouterStateAgrees
  BY DEF CircdInv
<1> QED BY <1>1, CircdInvariance, PTL

(* No operation "dial" starts while the effective dial mode is "off", by   *)
(* whichever way the circuit comes to be dialled.                          *)
THEOREM NothingDialledWhenOff == Spec => NoDialWhenOff
<1>1. CircdInv /\ [Next]_vars =>
        [\A c \in Circuits :
           operation[c] # "dial" /\ operation'[c] = "dial" => EffectiveMode(c) # "off"]_vars
  BY NextCircdInv DEF DialsOnlyIfAllowed
<1> QED BY <1>1, CircdInvariance, PTL DEF Spec, NoDialWhenOff

-----------------------------------------------------------------------------
(* Calls are told apart by their function. *)

LEMMA CallKinds ==
  ASSUME NEW c, NEW s, NEW what, NEW x, NEW i
  PROVE  /\ ChangeState(c, s).fn = "change_state" /\ ChangeState(c, s).circuit = c
         /\ ChangeState(c, s).to = s
         /\ FinalizeHangup(c).fn = "finalize_hangup" /\ FinalizeHangup(c).circuit = c
         /\ After(what, c).fn = what /\ After(what, c).circuit = c
         /\ React(x, c, s, i).fn = "react" /\ React(x, c, s, i).circuit = x
         /\ React(x, c, s, i).changed = c /\ React(x, c, s, i).to = s
         /\ React(x, c, s, i).position = i
BY DEF ChangeState, FinalizeHangup, After, React

LEMMA CallIs ==
  ASSUME NEW x \in Call
  PROVE  /\ x.circuit \in Circuits
         /\ x.fn = "change_state" => x = ChangeState(x.circuit, x.to) /\ x.to \in State
         /\ x.fn = "react" => /\ x.changed \in Circuits /\ x.to \in State
                              /\ x.position \in {0} \cup DOMAIN Order
         /\ x.fn \in {"finalize_hangup", "dialled", "went_online", "hung_up", "not_dialled",
                      "stop_queue"} => x = After(x.fn, x.circuit)
BY DEF Call, ChangeState, After

-----------------------------------------------------------------------------
(* Sequences that are joined.  Appending is joining one element, and what  *)
(* has a head is the head joined to the rest.                              *)

LEMMA Joined ==
  ASSUME NEW S, NEW s \in Seq(S), NEW t \in Seq(S)
  PROVE  /\ s \o t \in Seq(S) /\ Len(s) \in Nat /\ Len(t) \in Nat
         /\ DOMAIN s = 1 .. Len(s) /\ DOMAIN t = 1 .. Len(t)
         /\ DOMAIN (s \o t) = 1 .. Len(s) + Len(t)
         /\ \A i \in DOMAIN s : i \in DOMAIN (s \o t) /\ (s \o t)[i] = s[i]
         /\ \A i \in DOMAIN t : Len(s) + i \in DOMAIN (s \o t) /\ (s \o t)[Len(s) + i] = t[i]
         /\ \A i \in DOMAIN (s \o t) :
              \/ i \in DOMAIN s
              \/ \E j \in DOMAIN t : i = Len(s) + j
<1>1. /\ s \o t \in Seq(S) /\ Len(s \o t) = Len(s) + Len(t)
      /\ \A i \in 1 .. Len(s) + Len(t) :
           (s \o t)[i] = IF i <= Len(s) THEN s[i] ELSE t[i - Len(s)]
  BY ConcatProperties
<1>2. Len(s) \in Nat /\ Len(t) \in Nat /\ DOMAIN s = 1 .. Len(s) /\ DOMAIN t = 1 .. Len(t)
  BY LenProperties
<1>3. DOMAIN (s \o t) = 1 .. Len(s) + Len(t)
  BY <1>1, LenProperties
<1> DEFINE q == s \o t
           n == Len(s)
           m == Len(t)
<1>4. /\ q \in Seq(S) /\ n \in Nat /\ m \in Nat /\ DOMAIN q = 1 .. n + m
      /\ DOMAIN s = 1 .. n /\ DOMAIN t = 1 .. m
      /\ \A i \in 1 .. n + m : q[i] = IF i <= n THEN s[i] ELSE t[i - n]
  BY <1>1, <1>2, <1>3
<1> HIDE DEF q, n, m
<1>5. \A i \in 1 .. n : i \in 1 .. n + m /\ q[i] = s[i]
  BY <1>4
<1>6. ASSUME NEW i \in 1 .. m
      PROVE  n + i \in 1 .. n + m /\ q[n + i] = t[i]
  <2>1. n + i \in 1 .. n + m /\ ~ (n + i <= n) /\ (n + i) - n = i
    BY <1>4
  <2> QED BY <1>4, <2>1
<1>7. ASSUME NEW i \in 1 .. n + m, i \notin 1 .. n
      PROVE  \E j \in 1 .. m : i = n + j
  <2>1. i - n \in 1 .. m /\ i = n + (i - n)
    BY <1>4, <1>7
  <2> QED BY <2>1
<1> QED BY <1>4, <1>5, <1>6, <1>7 DEF q, n, m

LEMMA Appending ==
  ASSUME NEW S, NEW s \in Seq(S), NEW m \in S
  PROVE  Append(s, m) = s \o <<m>> /\ <<m>> \in Seq(S)
<1>1. <<m>> \in Seq(S)
  OBVIOUS
<1> QED BY <1>1, AppendIsConcat

LEMMA Splitting ==
  ASSUME NEW S, NEW s \in Seq(S), s # <<>>
  PROVE  /\ s = <<Head(s)>> \o Tail(s)
         /\ <<Head(s)>> \in Seq(S) /\ Tail(s) \in Seq(S) /\ Head(s) \in S
         /\ 1 \in DOMAIN s /\ Head(s) = s[1]
<1>1. Head(s) \in S /\ Tail(s) \in Seq(S) /\ Len(s) \in Nat \ {0} /\ Head(s) = s[1]
      /\ DOMAIN s = 1 .. Len(s)
  BY HeadTailProperties, LenProperties, EmptySeq
<1> QED BY <1>1, HeadTailProperties, ConcatProperties

LEMMA One ==
  ASSUME NEW x
  PROVE  /\ DOMAIN <<x>> = {1} /\ <<x>>[1] = x
         /\ Len(<<x>>) = 1
OBVIOUS

-----------------------------------------------------------------------------
(* The order of calls on the stack *)

(* Above a dial that has been decided, only dials go on, of circuits that  *)
(* the one to be dialled does not depend on.                               *)
MayPrecede(x, y) ==
  y.fn = "dialled" =>
    /\ x.fn \in {"change_state", "react", "dialled"}
    /\ x.fn = "react" => y.circuit \notin Dependents(x.changed)

Ordered(q) == \A i, j \in DOMAIN q : i < j => MayPrecede(q[i], q[j])

LEMMA OrderedJoined ==
  ASSUME NEW S, NEW s \in Seq(S), NEW t \in Seq(S)
  PROVE  Ordered(s \o t) <=>
           /\ Ordered(s) /\ Ordered(t)
           /\ \A i \in DOMAIN s : \A j \in DOMAIN t : MayPrecede(s[i], t[j])
<1> DEFINE q == s \o t
           n == Len(s)
<1>1. /\ n \in Nat /\ Len(t) \in Nat
      /\ DOMAIN s = 1 .. n /\ DOMAIN t = 1 .. Len(t)
      /\ \A i \in DOMAIN s : i \in DOMAIN q /\ q[i] = s[i]
      /\ \A i \in DOMAIN t : n + i \in DOMAIN q /\ q[n + i] = t[i]
      /\ \A i \in DOMAIN q : i \in DOMAIN s \/ \E j \in DOMAIN t : i = n + j
  BY Joined
<1> HIDE DEF q, n
<1>2. ASSUME Ordered(q)
      PROVE  /\ Ordered(s) /\ Ordered(t)
             /\ \A i \in DOMAIN s : \A j \in DOMAIN t : MayPrecede(s[i], t[j])
  <2>1. Ordered(s)
    BY <1>1, <1>2 DEF Ordered
  <2>2. ASSUME NEW i \in DOMAIN t, NEW j \in DOMAIN t, i < j
        PROVE  MayPrecede(t[i], t[j])
    <3>1. n + i < n + j
      BY <1>1, <2>2
    <3> QED BY <1>1, <1>2, <3>1 DEF Ordered
  <2>3. ASSUME NEW i \in DOMAIN s, NEW j \in DOMAIN t
        PROVE  MayPrecede(s[i], t[j])
    <3>1. i < n + j
      BY <1>1
    <3> QED BY <1>1, <1>2, <3>1 DEF Ordered
  <2> QED BY <2>1, <2>2, <2>3 DEF Ordered
<1>3. ASSUME Ordered(s), Ordered(t),
             \A i \in DOMAIN s : \A j \in DOMAIN t : MayPrecede(s[i], t[j])
      PROVE  Ordered(q)
  <2> SUFFICES ASSUME NEW i \in DOMAIN q, NEW j \in DOMAIN q, i < j
               PROVE  MayPrecede(q[i], q[j])
    BY DEF Ordered
  <2>1. CASE i \in DOMAIN s /\ j \in DOMAIN s
    BY <1>1, <1>3, <2>1 DEF Ordered
  <2>2. ASSUME i \in DOMAIN s, NEW k \in DOMAIN t, j = n + k
        PROVE  MayPrecede(q[i], q[j])
    BY <1>1, <1>3, <2>2
  <2>3. ASSUME NEW l \in DOMAIN t, NEW k \in DOMAIN t, i = n + l, j = n + k
        PROVE  MayPrecede(q[i], q[j])
    <3>1. l < k
      BY <1>1, <2>3
    <3> QED BY <1>1, <1>3, <2>3, <3>1 DEF Ordered
  <2>4. ASSUME NEW l \in DOMAIN t, i = n + l, j \in DOMAIN s
        PROVE  FALSE
    BY <1>1, <2>4
  <2> QED BY <1>1, <2>1, <2>2, <2>3, <2>4
<1> QED BY <1>2, <1>3 DEF q

(* One call is in order, and so are two of which the first may precede. *)
LEMMA OrderedFew ==
  /\ Ordered(<<>>)
  /\ \A x : Ordered(<<x>>)
  /\ \A x, y : MayPrecede(x, y) => Ordered(<<x, y>>)
<1>1. Ordered(<<>>)
  BY DEF Ordered
<1>2. ASSUME NEW x
      PROVE  Ordered(<<x>>)
  BY One DEF Ordered
<1>3. ASSUME NEW x, NEW y, MayPrecede(x, y)
      PROVE  Ordered(<<x, y>>)
  <2>1. \A i, j \in DOMAIN <<x, y>> : i < j => i = 1 /\ j = 2
    OBVIOUS
  <2>2. <<x, y>>[1] = x /\ <<x, y>>[2] = y
    OBVIOUS
  <2> QED BY <1>3, <2>1, <2>2 DEF Ordered
<1> QED BY <1>1, <1>2, <1>3

-----------------------------------------------------------------------------
(* Dependencies between circuits.  When no handler is running, a circuit   *)
(* whose dependee is down is being hung up, and an active circuit in mode  *)
(* "auto" has been dialled if it could be.  Both are about what a chain of *)
(* calls leaves behind, and rest on what the calls still on the stack are  *)
(* going to look at.  All of it is for dependencies on whole circuits:     *)
(* nobody looks when a single protocol comes up or goes down.              *)

WholeCircuits == \A c \in Circuits : \A d \in Deps[c] : d[2] = AnyProtocol

Elems(q) == {q[i] : i \in DOMAIN q}
OnStack == Elems(todo)

(* A circuit is about to be dialled, or about to leave its operation. *)
Dialling(c) == After("dialled", c) \in OnStack
Putting(c) == After("hung_up", c) \in OnStack \/ After("not_dialled", c) \in OnStack

(* What the circuit depends on is there, ... *)
Supported(x) ==
  /\ \A d \in Deps[x] : state[d[1]] = "online"
  /\ \A d \in WeakDeps[x] : state[d] \in Up

(* ... is not being hung up as far as it matters to a circuit that is up,  *)
Kept(x) == Supported(x) /\ \A d \in Deps[x] : operation[d[1]] # "hangup"

(* ... and will not be when the handler has ended.                         *)
Undisturbed(c) == operation[c] # "hangup" \/ Dialling(c)

MetSoon(x) ==
  /\ Supported(x)
  /\ \A d \in Deps[x] : Undisturbed(d[1])
  /\ \A d \in WeakDeps[x] : Undisturbed(d)

(* The call k is going to look at x, now or in a later round. *)
Looks(k, x) ==
  /\ k.fn = "react"
  /\ \/ k.circuit = x
     \/ \E j \in DOMAIN Order : Order[j] = x /\ x \in Dependents(k.changed) /\ j >= k.position

(* The call k is going to dial x if it is active. *)
WillDial(k, x) ==
  \/ k.fn = "mode_change" /\ k.circuit = x /\ k.mode = "auto" /\ k.old # "auto"
  \/ k = ChangeState(x, "ready")

Attends(k, x) == Looks(k, x) \/ WillDial(k, x)

(* The round of a loop and the circuit it is about fit together. *)
RoundCall ==
  {k \in Call : k.fn = "react" =>
     IF k.position = 0 THEN k.circuit = k.changed
     ELSE k.circuit = Order[k.position] /\ k.circuit \in Dependents(k.changed)}

LaterCall ==
  {k \in RoundCall : /\ k.fn \notin {"change_state", "finalize_hangup"}
                     /\ k.fn = "react" => k.position # 0}

StackFits ==
  /\ todo \in Seq(RoundCall)
  /\ todo # <<>> => Tail(todo) \in Seq(LaterCall)
  /\ Ordered(todo)

(* The state a loop goes on to use for a circuit that depends on itself    *)
RoundsCurrent ==
  \A k \in OnStack : k.fn = "react" /\ k.changed \in Dependents(k.changed) =>
    state[k.changed] = k.to

(* Only one circuit at a time leaves its operation. *)
PutAlone ==
  \A c \in Circuits : Putting(c) => \A k \in OnStack :
    /\ k.fn \in {"change_state", "react", "dialled", "stop_queue", "hung_up", "not_dialled"}
    /\ k.fn \in {"hung_up", "not_dialled"} => k.circuit = c

HeadFits ==
  todo # <<>> =>
    LET x == Head(todo)
        c == x.circuit
        below == Elems(Tail(todo))
    IN  /\ x.fn = "change_state" /\ x.to = "ready" =>
             state[c] = "active" /\ Dialling(c) /\ Kept(c)
        /\ x.fn = "change_state" /\ x.to # "ready" =>
             \A k \in below : /\ k.circuit = c
                              /\ k.fn \in (IF x.to \in Up THEN {"went_online"}
                                           ELSE {"hung_up", "not_dialled"})
        /\ x.fn = "change_state" /\ x.to \notin Up /\ state[c] \in Up => Putting(c)
        /\ x.fn = "finalize_hangup" => below = {}
        /\ x.fn = "react" /\ x.position = 0 =>
             /\ state[c] = x.to
             /\ Dialling(c) => Kept(c)
             /\ x.to \in Up => Dialling(c) \/ \A e \in Circuits : ~Putting(e)

(* Between the decision and the dial nothing the circuit depends on is lost. *)
DialsSupported ==
  \A x \in Circuits : Dialling(x) =>
    /\ Supported(x) /\ x \notin Dependents(x)
    /\ state[x] = "ready" \/ (todo # <<>> /\ Head(todo) = ChangeState(x, "ready"))

(* The circuit is about to be put back. *)
Dropping(c) == /\ todo # <<>> /\ Head(todo).fn = "change_state"
               /\ Head(todo).circuit = c /\ Head(todo).to \notin Up

(* A circuit that leaves its operation is dialled at once or not at all.   *)
PutsKept ==
  \A c \in Circuits : Putting(c) =>
    /\ state[c] \notin Up =>
         /\ \A k \in OnStack : k.fn = "react" => k.changed = c
         /\ \A e \in Circuits : Dialling(e) => e = c
    /\ state[c] \in Up /\ ~Dropping(c) =>
         /\ Supported(c) /\ Undisturbed(c)
         /\ \A k \in OnStack : k.fn = "react" => c \notin Dependents(k.changed)

HangupsEnd ==
  \A c \in Circuits : operation[c] = "hangup" /\ state[c] \notin Up => Putting(c)

(* If the circuit was still being hung up when it was dialled, those that  *)
(* depend on it are looked at once more afterwards.                        *)
LooksAgain(q, op) ==
  \A i \in DOMAIN q : q[i].fn = "dialled" /\ op[q[i].circuit] = "hangup" =>
    \A x \in Dependents(q[i].circuit) : \E j \in DOMAIN q : j > i /\ Looks(q[j], x)

Honoured ==
  \A x \in Circuits : state[x] \in Up /\ ~Supported(x) =>
    operation[x] = "hangup" \/ \E k \in OnStack : Looks(k, x)

Remembered ==
  \A x \in Circuits : state[x] = "active" /\ EffectiveMode(x) = "auto" /\ MetSoon(x) =>
    \E k \in OnStack : Attends(k, x)

DepsInv == /\ StackFits /\ RoundsCurrent /\ PutAlone /\ HeadFits
           /\ DialsSupported /\ PutsKept /\ HangupsEnd
           /\ LooksAgain(todo, operation)
           /\ Honoured /\ Remembered

-----------------------------------------------------------------------------
(* The elements of sequences *)

LEMMA ElemsJoined ==
  ASSUME NEW S, NEW s \in Seq(S), NEW t \in Seq(S)
  PROVE  Elems(s \o t) = Elems(s) \cup Elems(t)
<1> DEFINE q == s \o t
           n == Len(s)
<1>1. /\ \A i \in DOMAIN s : i \in DOMAIN q /\ q[i] = s[i]
      /\ \A i \in DOMAIN t : n + i \in DOMAIN q /\ q[n + i] = t[i]
      /\ \A i \in DOMAIN q : i \in DOMAIN s \/ \E j \in DOMAIN t : i = n + j
  BY Joined
<1> HIDE DEF q, n
<1>2. Elems(s) \cup Elems(t) \subseteq Elems(q)
  BY <1>1 DEF Elems
<1>3. Elems(q) \subseteq Elems(s) \cup Elems(t)
  BY <1>1 DEF Elems
<1> QED BY <1>2, <1>3 DEF q

LEMMA ElemsFew ==
  /\ Elems(<<>>) = {}
  /\ \A x : Elems(<<x>>) = {x}
  /\ \A x, y : Elems(<<x, y>>) = {x, y}
<1>1. Elems(<<>>) = {}
  BY DEF Elems
<1>2. ASSUME NEW x
      PROVE  Elems(<<x>>) = {x}
  <2>1. DOMAIN <<x>> = {1} /\ <<x>>[1] = x
    OBVIOUS
  <2> QED BY <2>1 DEF Elems
<1>3. ASSUME NEW x, NEW y
      PROVE  Elems(<<x, y>>) = {x, y}
  <2> DEFINE q == <<x, y>>
  <2>1. DOMAIN q = {1, 2} /\ q[1] = x /\ q[2] = y
    OBVIOUS
  <2> HIDE DEF q
  <2>2. Elems(q) = {x, y}
    BY <2>1 DEF Elems
  <2> QED BY <2>2 DEF q
<1> QED BY <1>1, <1>2, <1>3

LEMMA ElemsIn ==
  ASSUME NEW S, NEW q \in Seq(S)
  PROVE  Elems(q) \subseteq S /\ (q # <<>> => Head(q) \in Elems(q))
<1>1. \A i \in DOMAIN q : q[i] \in S
  BY LenProperties, ElementOfSeq
<1>2. q # <<>> => 1 \in DOMAIN q /\ Head(q) = q[1]
  BY Splitting
<1> QED BY <1>1, <1>2 DEF Elems

(* Calls are looked at again if they are looked at below. *)
LEMMA LooksAgainJoined ==
  ASSUME NEW S, NEW s \in Seq(S), NEW t \in Seq(S), NEW op
  PROVE  /\ LooksAgain(s \o t, op) => LooksAgain(t, op)
         /\ /\ LooksAgain(t, op)
            /\ \A k \in Elems(s) : k.fn = "dialled" /\ op[k.circuit] = "hangup" =>
                 \A x \in Dependents(k.circuit) : \E m \in Elems(t) : Looks(m, x)
            => LooksAgain(s \o t, op)
<1> DEFINE q == s \o t
           n == Len(s)
<1>1. /\ n \in Nat /\ Len(t) \in Nat /\ DOMAIN s = 1 .. n /\ DOMAIN t = 1 .. Len(t)
      /\ \A i \in DOMAIN s : i \in DOMAIN q /\ q[i] = s[i]
      /\ \A i \in DOMAIN t : n + i \in DOMAIN q /\ q[n + i] = t[i]
      /\ \A i \in DOMAIN q : i \in DOMAIN s \/ \E j \in DOMAIN t : i = n + j
  BY Joined
<1> HIDE DEF q, n
<1>2. ASSUME LooksAgain(q, op), NEW i \in DOMAIN t, t[i].fn = "dialled",
             op[t[i].circuit] = "hangup", NEW x \in Dependents(t[i].circuit)
      PROVE  \E j \in DOMAIN t : j > i /\ Looks(t[j], x)
  <2>1. n + i \in DOMAIN q /\ q[n + i] = t[i]
    BY <1>1
  <2>2. PICK l \in DOMAIN q : l > n + i /\ Looks(q[l], x)
    BY <1>2, <2>1 DEF LooksAgain
  <2>3. l \notin DOMAIN s
    BY <1>1, <2>2
  <2>4. PICK j \in DOMAIN t : l = n + j
    BY <1>1, <2>3
  <2>5. j > i /\ q[l] = t[j]
    BY <1>1, <2>2, <2>4
  <2> QED BY <2>2, <2>5
<1>3. ASSUME LooksAgain(t, op),
             \A k \in Elems(s) : k.fn = "dialled" /\ op[k.circuit] = "hangup" =>
                 \A x \in Dependents(k.circuit) : \E m \in Elems(t) : Looks(m, x),
             NEW i \in DOMAIN q, q[i].fn = "dialled", op[q[i].circuit] = "hangup",
             NEW x \in Dependents(q[i].circuit)
      PROVE  \E j \in DOMAIN q : j > i /\ Looks(q[j], x)
  <2>1. CASE i \in DOMAIN s
    <3>1. q[i] = s[i] /\ s[i] \in Elems(s)
      BY <1>1, <2>1 DEF Elems
    <3>2. PICK m \in Elems(t) : Looks(m, x)
      BY <1>3, <3>1
    <3>3. PICK j \in DOMAIN t : m = t[j]
      BY <3>2 DEF Elems
    <3>4. n + j \in DOMAIN q /\ q[n + j] = t[j] /\ n + j > i
      BY <1>1, <2>1
    <3> QED BY <3>2, <3>3, <3>4
  <2>2. ASSUME NEW l \in DOMAIN t, i = n + l
        PROVE  \E j \in DOMAIN q : j > i /\ Looks(q[j], x)
    <3>1. q[i] = t[l]
      BY <1>1, <2>2
    <3>2. PICK j \in DOMAIN t : j > l /\ Looks(t[j], x)
      BY <1>3, <3>1 DEF LooksAgain
    <3>3. n + j \in DOMAIN q /\ q[n + j] = t[j] /\ n + j > i
      BY <1>1, <2>2, <3>2
    <3> QED BY <3>2, <3>3
  <2> QED BY <1>1, <2>1, <2>2
<1> QED BY <1>2, <1>3 DEF q, LooksAgain

(* Nothing is looked at again if nothing is dialled, or hung up. *)
LEMMA NothingAgain ==
  ASSUME NEW q, NEW op, \A k \in Elems(q) : k.fn = "dialled" => op[k.circuit] # "hangup"
  PROVE  LooksAgain(q, op)
BY DEF LooksAgain, Elems

(* What is being hung up may have become less. *)
LEMMA LooksAgainLess ==
  ASSUME NEW q, NEW op, NEW less, LooksAgain(q, op),
         \A k \in Elems(q) : k.fn = "dialled" /\ less[k.circuit] = "hangup" =>
           op[k.circuit] = "hangup"
  PROVE  LooksAgain(q, less)
BY DEF LooksAgain, Elems

-----------------------------------------------------------------------------
(* What is asked about circuits, and the rounds of a loop *)

LEMMA MetMeans ==
  ASSUME WholeCircuits, NEW x \in Circuits
  PROVE  /\ DependenciesMet(x, FALSE) <=> Kept(x)
         /\ DependenciesMet(x, TRUE) <=>
              Kept(x) /\ \A d \in WeakDeps[x] : operation[d] # "hangup"
<1>1. \A d \in Deps[x] : IsOnline(d[1], d[2]) <=>
                           state[d[1]] = "online" /\ operation[d[1]] # "hangup"
  BY DEF WholeCircuits, IsOnline
<1>2. \A d \in WeakDeps[x] : /\ IsAtLeastReady(d, FALSE) <=> state[d] \in Up
                             /\ IsAtLeastReady(d, TRUE) <=> state[d] \in Up /\ operation[d] # "hangup"
  BY DEF IsAtLeastReady
<1> QED BY <1>1, <1>2 DEF DependenciesMet, Kept, Supported

LEMMA DepsAre ==
  ASSUME NEW x \in Circuits
  PROVE  /\ \A d \in Deps[x] : d[1] \in Circuits /\ x \in Dependents(d[1])
         /\ \A d \in WeakDeps[x] : d \in Circuits /\ x \in Dependents(d)
<1>1. /\ \A d \in Deps[x] : d[1] \in Circuits
      /\ \A d \in WeakDeps[x] : d \in Circuits
  BY CircdAssumption
<1> QED BY <1>1 DEF Dependents

(* What a circuit depends on is up. *)
LEMMA SupportUp ==
  ASSUME NEW x \in Circuits, NEW z, Supported(x), x \in Dependents(z)
  PROVE  state[z] \in Up
<1>1. CASE z \in WeakDeps[x]
  BY <1>1 DEF Supported
<1>2. CASE \E d \in Deps[x] : d[1] = z
  BY <1>2 DEF Supported, Up
<1> QED BY <1>1, <1>2 DEF Dependents

(* What can be dialled will be possible to dial. *)
LEMMA MetIsSoon ==
  ASSUME WholeCircuits, NEW x \in Circuits, DependenciesMet(x, TRUE)
  PROVE  MetSoon(x) /\ Kept(x) /\ Supported(x)
BY MetMeans DEF MetSoon, Kept, Undisturbed

(* Every circuit is in the order of creation. *)
LEMMA InOrder ==
  ASSUME NEW c \in Circuits
  PROVE  \E j \in DOMAIN Order : Order[j] = c /\ j \in Nat \ {0}
<1> SUFFICES ASSUME {i \in DOMAIN Order : Order[i] = c} = {}
             PROVE  FALSE
  BY CircdAssumption
<1>1. Cardinality({i \in DOMAIN Order : Order[i] = c}) = 1
  BY CircdAssumption
<1>2. Cardinality({}) = 0
  BY FS_EmptySet
<1> QED BY <1>1, <1>2

(* The circuits of a loop are looked at, in this round or a later one. *)
LEMMA Rounds ==
  ASSUME NEW h \in RoundCall, h.fn = "react", NEW rest,
         rest = NextRound(h.changed, h.to, h.position)
  PROVE  /\ rest \in Seq(LaterCall) /\ Ordered(rest)
         /\ \A k \in Elems(rest) : k.fn = "react" /\ k.changed = h.changed /\ k.to = h.to
         /\ \A y \in Circuits : Looks(h, y) /\ y # h.circuit => \E k \in Elems(rest) : Looks(k, y)
         /\ h.position = 0 =>
              \A y \in Dependents(h.changed) : y # h.circuit => \E k \in Elems(rest) : Looks(k, y)
<1> DEFINE left == {j \in DOMAIN Order : j > h.position /\ Order[j] \in Dependents(h.changed)}
           first == {j \in left : \A k \in left : j <= k}
           m == CHOOSE j \in first : TRUE
<1>1. /\ h.changed \in Circuits /\ h.to \in State /\ h.position \in {0} \cup DOMAIN Order
      /\ h.position = 0 => h.circuit = h.changed
      /\ h.position # 0 => h.circuit = Order[h.position]
  BY CallIs DEF RoundCall
<1>2. DOMAIN Order \subseteq Nat \ {0} /\ \A j \in DOMAIN Order : Order[j] \in Circuits
  BY CircdAssumption
<1>3. \A c \in Circuits : \E j \in DOMAIN Order : Order[j] = c
  BY InOrder
<1>4. left # {} => first # {}
  <2> SUFFICES ASSUME left # {} PROVE first # {}
    OBVIOUS
  <2>1. left \subseteq Nat
    BY <1>2
  <2>2. PICK l \in left : \A y \in left : ~ (<<y, l>> \in OpToRel(<, Nat))
    BY <2>1, NatLessThanWellFounded, WFMin
  <2>3. ASSUME NEW y \in left
        PROVE  l <= y
    <3>1. y \in Nat /\ l \in Nat
      BY <2>1
    <3>2. <<y, l>> \in OpToRel(<, Nat) <=> y < l
      BY <3>1 DEF OpToRel
    <3>3. ~ (y < l)
      BY <2>2, <3>2
    <3> QED BY <3>1, <3>3
  <2> QED BY <2>2, <2>3
<1>5. CASE left = {}
  <2>1. rest = <<>>
    <3>1. first = {}
      BY <1>5
    <3> QED BY <3>1 DEF NextRound
  <2>2. \A y \in Circuits : Looks(h, y) => y = h.circuit
    <3> SUFFICES ASSUME NEW y \in Circuits, Looks(h, y), y # h.circuit
                 PROVE  FALSE
      OBVIOUS
    <3>1. PICK j \in DOMAIN Order : Order[j] = y /\ y \in Dependents(h.changed) /\ j >= h.position
      BY DEF Looks
    <3>2. j # h.position
      BY <1>1, <1>2, <3>1
    <3>3. j > h.position
      BY <1>1, <1>2, <3>1, <3>2
    <3> QED BY <1>5, <3>1, <3>3
  <2>3. h.position = 0 => Dependents(h.changed) = {}
    <3> SUFFICES ASSUME h.position = 0, NEW y \in Dependents(h.changed)
                 PROVE  FALSE
      OBVIOUS
    <3>1. PICK j \in DOMAIN Order : Order[j] = y
      BY <1>3 DEF Dependents
    <3>2. j > 0
      BY <1>2
    <3> QED BY <1>5, <3>1, <3>2
  <2> QED BY <2>1, <2>2, <2>3, ElemsFew, OrderedFew
<1>6. CASE left # {}
  <2>1. m \in first
    BY <1>4, <1>6
  <2>2. rest = <<React(Order[m], h.changed, h.to, m)>>
    BY <1>4, <1>6 DEF NextRound
  <2>3. /\ m \in DOMAIN Order /\ Order[m] \in Dependents(h.changed) /\ Order[m] \in Circuits
        /\ m # 0 /\ m \in Nat
        /\ \A j \in left : m <= j
    BY <1>2, <2>1
  <2> HIDE DEF m, first
  <2> DEFINE r == React(Order[m], h.changed, h.to, m)
  <2>4. /\ r.fn = "react" /\ r.changed = h.changed /\ r.to = h.to
        /\ r.circuit = Order[m] /\ r.position = m
    BY DEF React
  <2>5. r \in Call
    BY <1>1, <2>3 DEF React, Call
  <2> HIDE DEF r
  <2>6. r \in LaterCall
    BY <2>3, <2>4, <2>5 DEF LaterCall, RoundCall
  <2>7. rest = <<r>> /\ Elems(rest) = {r}
    <3>1. rest = <<r>>
      BY <2>2 DEF r
    <3> QED BY <3>1, ElemsFew
  <2>8. rest \in Seq(LaterCall) /\ Ordered(rest)
    <3>1. <<r>> \in Seq(LaterCall)
      BY <2>6
    <3> QED BY <2>7, <3>1, OrderedFew
  <2>9. ASSUME NEW j \in left
        PROVE  Looks(r, Order[j])
    <3>1. j \in DOMAIN Order /\ Order[j] \in Dependents(h.changed) /\ j >= m
      BY <1>2, <2>3, <2>9
    <3> QED BY <2>4, <3>1 DEF Looks
  <2>10. ASSUME NEW y \in Circuits, Looks(h, y), y # h.circuit
         PROVE  Looks(r, y)
    <3>1. PICK j \in DOMAIN Order : Order[j] = y /\ y \in Dependents(h.changed) /\ j >= h.position
      BY <2>10 DEF Looks
    <3>2. j # h.position
      BY <1>1, <1>2, <2>10, <3>1
    <3>3. j \in left
      BY <1>1, <1>2, <3>1, <3>2
    <3> HIDE DEF left
    <3> QED BY <2>9, <3>1, <3>3
  <2>11. ASSUME h.position = 0, NEW y \in Dependents(h.changed)
         PROVE  Looks(r, y)
    <3>1. PICK j \in DOMAIN Order : Order[j] = y
      BY <1>3 DEF Dependents
    <3>2. j \in left
      BY <1>2, <2>11, <3>1
    <3> HIDE DEF left
    <3> QED BY <2>9, <3>1, <3>2
  <2> HIDE DEF left
  <2> QED BY <2>4, <2>7, <2>8, <2>10, <2>11
<1> QED BY <1>5, <1>6

-----------------------------------------------------------------------------
(* The stack *)

(* The first call and the calls below it *)
LEMMA OnTop ==
  ASSUME DepsInv, todo # <<>>
  PROVE  /\ Head(todo) \in RoundCall /\ Head(todo).circuit \in Circuits
         /\ Tail(todo) \in Seq(LaterCall) /\ Ordered(Tail(todo))
         /\ Elems(Tail(todo)) \subseteq LaterCall
         /\ OnStack = {Head(todo)} \cup Elems(Tail(todo))
         /\ LooksAgain(Tail(todo), operation)
         /\ \A k \in Elems(Tail(todo)) : MayPrecede(Head(todo), k)
<1> DEFINE h == Head(todo)
           o == <<h>>
           t == Tail(todo)
<1>1. todo \in Seq(RoundCall) /\ t \in Seq(LaterCall) /\ Ordered(todo)
      /\ LooksAgain(todo, operation)
  BY DEF DepsInv, StackFits
<1>2. todo = o \o t /\ o \in Seq(RoundCall) /\ t \in Seq(RoundCall) /\ h \in RoundCall
  BY <1>1, Splitting
<1>3. 1 \in DOMAIN o /\ o[1] = h /\ Elems(o) = {h}
  BY ElemsFew
<1> HIDE DEF h, o, t
<1>4. Ordered(t) /\ \A j \in DOMAIN t : MayPrecede(h, t[j])
  <2>1. Ordered(o \o t)
    BY <1>1, <1>2
  <2> QED BY <1>2, <1>3, <2>1, OrderedJoined
<1>5. Elems(todo) = {h} \cup Elems(t)
  BY <1>2, <1>3, ElemsJoined
<1>6. LooksAgain(t, operation)
  <2>1. LooksAgain(o \o t, operation)
    BY <1>1, <1>2
  <2> QED BY <1>2, <2>1, LooksAgainJoined
<1>7. Elems(t) \subseteq LaterCall
  BY <1>1, ElemsIn
<1>8. h.circuit \in Circuits
  BY <1>2, CallIs DEF RoundCall
<1> QED BY <1>1, <1>2, <1>4, <1>5, <1>6, <1>7, <1>8 DEF h, t, OnStack, Elems

LEMMA Regrouped == \A s, t, u \in Seq(RoundCall) : (s \o t) \o u = s \o (t \o u)
BY ConcatAssociative

LEMMA WaitingJoined ==
  \A s, t \in Seq(LaterCall) : Elems(s \o t) = Elems(s) \cup Elems(t)
BY ElemsJoined

(* Calls are put on what is left of the stack. *)
LEMMA PutOn ==
  ASSUME NEW calls \in Seq(RoundCall), calls # <<>> => Tail(calls) \in Seq(LaterCall),
         NEW rest \in Seq(LaterCall), todo' = calls \o rest,
         Ordered(calls), Ordered(rest),
         \A x \in Elems(calls) : \A y \in Elems(rest) : MayPrecede(x, y)
  PROVE  /\ StackFits' /\ OnStack' = Elems(calls) \cup Elems(rest)
         /\ calls # <<>> => /\ todo' # <<>> /\ Head(todo') = Head(calls)
                            /\ Elems(Tail(todo')) = Elems(Tail(calls)) \cup Elems(rest)
         /\ calls = <<>> => todo' = rest
<1>1. LaterCall \subseteq RoundCall
  BY DEF LaterCall
<1>2. rest \in Seq(RoundCall)
  BY <1>1, SeqMonotonic
<1>3. todo' \in Seq(RoundCall) /\ Elems(todo') = Elems(calls) \cup Elems(rest)
  BY <1>2, ConcatProperties, ElemsJoined
<1>4. Ordered(todo')
  <2>1. \A i \in DOMAIN calls : \A j \in DOMAIN rest : MayPrecede(calls[i], rest[j])
    BY DEF Elems
  <2> QED BY <1>2, <2>1, OrderedJoined
<1>5. CASE calls = <<>>
  <2>1. todo' = rest
    BY <1>2, <1>5, ConcatEmptySeq
  <2>2. todo' # <<>> => Tail(todo') \in Seq(LaterCall)
    BY <2>1, HeadTailProperties
  <2> QED BY <1>3, <1>4, <1>5, <2>1, <2>2 DEF StackFits, RoundCall, LaterCall, OnStack, Elems
<1>6. CASE calls # <<>>
  <2> DEFINE h == Head(calls)
             t == Tail(calls) \o rest
  <2>1. calls = <<h>> \o Tail(calls) /\ Tail(calls) \in Seq(RoundCall) /\ h \in RoundCall
        /\ <<h>> \in Seq(RoundCall)
    BY <1>6, Splitting
  <2>2. todo' = <<h>> \o t
    <3> DEFINE u == <<h>>
               v == Tail(calls)
    <3>1. todo' = (u \o v) \o rest /\ u \in Seq(RoundCall) /\ v \in Seq(RoundCall)
      BY <2>1
    <3> HIDE DEF u, v
    <3>2. todo' = u \o (v \o rest)
      BY <1>2, <3>1, Regrouped
    <3> QED BY <3>2 DEF u, v
  <2>3. t \in Seq(LaterCall) /\ Elems(t) = Elems(Tail(calls)) \cup Elems(rest)
    BY <1>6, ConcatProperties, ElemsJoined
  <2>4. t \in Seq(RoundCall)
    BY <1>1, <2>3, SeqMonotonic
  <2> HIDE DEF h, t
  <2>5. Tail(<<h>> \o t) = t /\ Head(<<h>> \o t) = h /\ <<h>> \o t # <<>>
    BY <2>1, <2>4
  <2> QED BY <1>3, <1>4, <1>6, <2>2, <2>3, <2>5
      DEF h, StackFits, RoundCall, LaterCall, OnStack, Elems
<1> QED BY <1>5, <1>6

LEMMA LaterIsRound == LaterCall \subseteq RoundCall /\ Seq(LaterCall) \subseteq Seq(RoundCall)
<1>1. LaterCall \subseteq RoundCall
  BY DEF LaterCall
<1> QED BY <1>1, SeqMonotonic

(* Below calls that wait, no call is the first. *)
LEMMA LaterHead ==
  ASSUME NEW q \in Seq(LaterCall), todo' = q
  PROVE  HeadFits'
<1>1. q # <<>> => Head(q) \in LaterCall
  BY HeadTailProperties
<1>2. q # <<>> => /\ Head(q).fn \notin {"change_state", "finalize_hangup"}
                  /\ Head(q).fn = "react" => Head(q).position # 0
  BY <1>1 DEF LaterCall
<1> QED BY <1>2 DEF HeadFits

(* The functions of the calls *)
LEMMA CallsMadeFit ==
  ASSUME NEW c \in Circuits
  PROVE  /\ \A s \in State : ChangeState(c, s) \in RoundCall
         /\ FinalizeHangup(c) \in RoundCall
         /\ \A what \in {"dialled", "went_online", "hung_up", "not_dialled", "stop_queue"} :
              After(what, c) \in LaterCall
BY DEF ChangeState, FinalizeHangup, After, RoundCall, LaterCall, Call

LEMMA AfterIs ==
  ASSUME NEW k \in RoundCall
  PROVE  /\ k.fn = "dialled" => k = After("dialled", k.circuit)
         /\ k.fn = "hung_up" => k = After("hung_up", k.circuit)
         /\ k.fn = "not_dialled" => k = After("not_dialled", k.circuit)
         /\ k.circuit \in Circuits
BY CallIs DEF RoundCall

-----------------------------------------------------------------------------
(* Calls that change no state *)

(* A call that neither dials nor ends an operation; the rest of a loop may *)
(* take its place, and circuits may begin to be hung up.                   *)
LEMMA QuietCall ==
  ASSUME CircdInv, DepsInv, todo # <<>>,
         Head(todo).fn \in {"react", "mode_change", "stop_queue", "went_online"},
         NEW rest \in Seq(LaterCall), Ordered(rest), todo' = rest \o Tail(todo),
         UNCHANGED <<state, modes>>,
         \A k \in Elems(rest) : /\ k.fn = "react" /\ Head(todo).fn = "react"
                                /\ k.changed = Head(todo).changed /\ k.to = Head(todo).to,
         \A c \in Circuits :
           /\ operation[c] = "hangup" => operation'[c] = "hangup"
           /\ operation'[c] = "hangup" /\ operation[c] # "hangup" =>
                state[c] \in Up /\ ~Dialling(c) /\ ~Putting(c)
           /\ Looks(Head(todo), c) /\ state[c] \in Up /\ ~Supported(c) =>
                operation'[c] = "hangup" \/ \E k \in Elems(rest) : Looks(k, c)
           /\ /\ state[c] = "active" /\ EffectiveMode(c) = "auto" /\ MetSoon(c)
              /\ Attends(Head(todo), c)
              => \E k \in Elems(rest) \cup Elems(Tail(todo)) : Attends(k, c)
  PROVE  DepsInv'
<1> DEFINE h == Head(todo)
           R == Elems(Tail(todo))
<1>1. /\ h \in RoundCall /\ R \subseteq LaterCall /\ OnStack = {h} \cup R
      /\ Tail(todo) \in Seq(LaterCall) /\ Ordered(Tail(todo))
      /\ LooksAgain(Tail(todo), operation)
      /\ \A k \in R : MayPrecede(h, k)
  BY OnTop
<1>2. \A x \in Elems(rest) : \A y \in R : MayPrecede(x, y)
  BY <1>1 DEF MayPrecede
<1>3. StackFits' /\ OnStack' = Elems(rest) \cup R /\ HeadFits'
  <2>1. rest \in Seq(RoundCall) /\ (rest # <<>> => Tail(rest) \in Seq(LaterCall))
    BY LaterIsRound, HeadTailProperties
  <2>2. StackFits' /\ OnStack' = Elems(rest) \cup R
    BY <1>1, <1>2, <2>1, PutOn
  <2>3. rest \o Tail(todo) \in Seq(LaterCall)
    BY <1>1, ConcatProperties
  <2>4. HeadFits'
    BY <2>3, LaterHead
  <2> QED BY <2>2, <2>4
<1>4. \A k \in Elems(rest) : k.fn = "react"
  OBVIOUS
<1>5. \A c \in Circuits : /\ Dialling(c)' <=> Dialling(c)
                          /\ Putting(c)' <=> Putting(c)
                          /\ Supported(c)' <=> Supported(c)
                          /\ EffectiveMode(c)' = EffectiveMode(c)
  <2>1. \A c : /\ After("dialled", c) \notin Elems(rest) \cup {h}
               /\ After("hung_up", c) \notin Elems(rest) \cup {h}
               /\ After("not_dialled", c) \notin Elems(rest) \cup {h}
    BY <1>4 DEF After
  <2>2. \A c \in Circuits : Supported(c)' <=> Supported(c)
    BY DEF Supported
  <2>3. \A c \in Circuits : EffectiveMode(c)' = EffectiveMode(c)
    BY DEF EffectiveMode, modes
  <2> QED BY <1>1, <1>3, <2>1, <2>2, <2>3 DEF Dialling, Putting
<1>6. h.fn # "change_state" /\ \A c : h # ChangeState(c, "ready")
  BY DEF ChangeState
<1>7. RoundsCurrent'
  BY <1>1, <1>3 DEF DepsInv, RoundsCurrent
<1>8. PutAlone'
  BY <1>1, <1>3, <1>4, <1>5 DEF DepsInv, PutAlone
<1>9. DialsSupported'
  BY <1>5, <1>6 DEF DepsInv, DialsSupported
<1>10. PutsKept'
  <2> SUFFICES ASSUME NEW c \in Circuits, Putting(c)
               PROVE  /\ state[c] \notin Up =>
                           /\ \A k \in OnStack' : k.fn = "react" => k.changed = c
                           /\ \A e \in Circuits : Dialling(e) => e = c
                      /\ state[c] \in Up =>
                           /\ Supported(c) /\ Undisturbed(c)'
                           /\ \A k \in OnStack' : k.fn = "react" => c \notin Dependents(k.changed)
    BY <1>5 DEF PutsKept
  <2>1. ~Dropping(c)
    BY <1>6 DEF Dropping
  <2>2. /\ state[c] \notin Up =>
             /\ \A k \in OnStack : k.fn = "react" => k.changed = c
             /\ \A e \in Circuits : Dialling(e) => e = c
        /\ state[c] \in Up =>
             /\ Supported(c) /\ Undisturbed(c)
             /\ \A k \in OnStack : k.fn = "react" => c \notin Dependents(k.changed)
    BY <2>1 DEF DepsInv, PutsKept
  <2>3. Undisturbed(c) => Undisturbed(c)'
    BY <1>5 DEF Undisturbed
  <2>4. \A k \in OnStack' : k.fn = "react" =>
          \E m \in OnStack : m.fn = "react" /\ m.changed = k.changed
    BY <1>1, <1>3
  <2> QED BY <2>2, <2>3, <2>4
<1>11. HangupsEnd'
  BY <1>5 DEF DepsInv, HangupsEnd
<1>12. LooksAgain(todo, operation)'
  <2>1. LooksAgain(Tail(todo), operation')
    <3>1. ASSUME NEW k \in R, k.fn = "dialled", operation'[k.circuit] = "hangup"
          PROVE  operation[k.circuit] = "hangup"
      <4>1. k = After("dialled", k.circuit) /\ k.circuit \in Circuits
        BY <1>1, <3>1, AfterIs, LaterIsRound
      <4>2. Dialling(k.circuit)
        BY <1>1, <3>1, <4>1 DEF Dialling
      <4> QED BY <3>1, <4>1, <4>2
    <3> QED BY <1>1, <3>1, LooksAgainLess
  <2> QED BY <1>1, <1>4, <2>1, LooksAgainJoined
<1>13. Honoured'
  <2> SUFFICES ASSUME NEW x \in Circuits, state[x] \in Up, ~Supported(x), operation'[x] # "hangup"
               PROVE  \E k \in OnStack' : Looks(k, x)
    BY <1>5 DEF Honoured, Looks, Dependents
  <2>1. PICK k \in OnStack : Looks(k, x)
    BY DEF DepsInv, Honoured
  <2>2. k = h => \E m \in Elems(rest) : Looks(m, x)
    BY <2>1
  <2> QED BY <1>1, <1>3, <2>1, <2>2
<1>14. Remembered'
  <2> SUFFICES ASSUME NEW x \in Circuits, state[x] = "active", EffectiveMode(x) = "auto", MetSoon(x)'
               PROVE  \E k \in OnStack' : Attends(k, x)
    BY <1>5 DEF Remembered, Attends, Looks, WillDial, Dependents
  <2>1. \A c \in Circuits : Undisturbed(c)' => Undisturbed(c)
    BY <1>5 DEF Undisturbed
  <2>2. MetSoon(x)
    BY <1>5, <2>1, DepsAre DEF MetSoon
  <2>3. PICK k \in OnStack : Attends(k, x)
    BY <2>2 DEF DepsInv, Remembered
  <2>4. k = h => \E m \in Elems(rest) \cup R : Attends(m, x)
    BY <2>2, <2>3
  <2> QED BY <1>1, <1>3, <2>3, <2>4
<1> QED BY <1>3, <1>7, <1>8, <1>9, <1>10, <1>11, <1>12, <1>13, <1>14 DEF DepsInv

LEMMA NoRest ==
  ASSUME NEW S, NEW q \in Seq(S)
  PROVE  <<>> \o q = q /\ <<>> \in Seq(LaterCall) /\ Elems(<<>>) = {} /\ Ordered(<<>>)
BY ConcatEmptySeq, ElemsFew, OrderedFew

LEMMA StopQueueDeps == CircdInv /\ DepsInv /\ StopQueue => DepsInv'
<1> SUFFICES ASSUME CircdInv, DepsInv, StopQueue PROVE DepsInv'
  OBVIOUS
<1>1. /\ todo # <<>> /\ Head(todo).fn = "stop_queue" /\ todo' = <<>> \o Tail(todo)
      /\ UNCHANGED <<state, operation, modes>>
  BY DEF StopQueue, Running, Return, Run, circuit
<1>2. Tail(todo) \in Seq(LaterCall)
  BY <1>1, OnTop
<1>3. \A c : ~Attends(Head(todo), c) /\ ~Looks(Head(todo), c)
  BY <1>1 DEF Attends, Looks, WillDial, ChangeState
<1> QED BY <1>1, <1>2, <1>3, NoRest, QuietCall

LEMMA WentOnlineDeps == CircdInv /\ DepsInv /\ WentOnline => DepsInv'
<1> SUFFICES ASSUME CircdInv, DepsInv, WentOnline PROVE DepsInv'
  OBVIOUS
<1>1. /\ todo # <<>> /\ Head(todo).fn = "went_online" /\ todo' = <<>> \o Tail(todo)
      /\ UNCHANGED <<state, modes>>
  BY DEF WentOnline, Running, Return, Run
<1>2. Tail(todo) \in Seq(LaterCall)
  BY <1>1, OnTop
<1>3. \A c : ~Attends(Head(todo), c) /\ ~Looks(Head(todo), c)
  BY <1>1 DEF Attends, Looks, WillDial, ChangeState
<1>4. \A c \in Circuits : operation'[c] = "hangup" <=> operation[c] = "hangup"
  BY DEF WentOnline, CircdInv, TypeOK
<1> QED BY <1>1, <1>2, <1>3, <1>4, NoRest, QuietCall

(* The decision to dial x.  The calls q, the rest of a loop and what is    *)
(* left of the stack, have their turn later.                               *)
LEMMA DialPut ==
  ASSUME CircdInv, DepsInv, WholeCircuits,
         NEW x \in Circuits, state[x] = "active", DependenciesMet(x, TRUE),
         NEW q \in Seq(LaterCall), Ordered(q), todo' = InitiateDialup(x) \o q,
         UNCHANGED <<state, operation, modes>>,
         todo # <<>> => Head(todo).fn \in {"react", "mode_change"},
         \A c \in Circuits :
           /\ After("dialled", c) \in Elems(q) <=> Dialling(c)
           /\ After("hung_up", c) \in Elems(q) <=> After("hung_up", c) \in OnStack
           /\ After("not_dialled", c) \in Elems(q) <=> After("not_dialled", c) \in OnStack
           /\ Putting(c) /\ state[c] \notin Up => x = c,
         \A k \in Elems(q) : \/ k \in OnStack
                             \/ k.fn = "react" /\ \E m \in OnStack :
                                  m.fn = "react" /\ m.changed = k.changed /\ m.to = k.to,
         LooksAgain(q, operation),
         operation[x] = "hangup" => \A y \in Dependents(x) : \E k \in Elems(q) : Looks(k, y),
         \A k \in OnStack : \A y \in Circuits :
           /\ Looks(k, y) /\ y # x => \E m \in Elems(q) : Looks(m, y)
           /\ WillDial(k, y) /\ y # x => \E m \in Elems(q) : WillDial(m, y)
  PROVE  DepsInv'
<1> DEFINE a == ChangeState(x, "ready")
           b == After("dialled", x)
           calls == <<a, b>>
           Q == Elems(q)
<1>1. /\ a.fn = "change_state" /\ a.circuit = x /\ a.to = "ready" /\ a \in RoundCall
      /\ b.fn = "dialled" /\ b.circuit = x /\ b \in LaterCall
  BY CallsMadeFit DEF ChangeState, After, State
<1>2. /\ MetSoon(x) /\ Kept(x) /\ Supported(x)
  BY MetIsSoon
<1>3. x \notin Dependents(x)
  BY <1>2, SupportUp DEF Up
<1>4. todo' = calls \o q
  BY DEF InitiateDialup
<1>5. \A what, c : After(what, c).fn = what /\ After(what, c).circuit = c
  BY DEF After
<1>6. \A c : ChangeState(c, "ready") = a <=> c = x
  BY DEF ChangeState
<1> HIDE DEF a
<1>7. b = After("dialled", x)
  OBVIOUS
<1> HIDE DEF b
<1>8. /\ calls \in Seq(RoundCall) /\ calls # <<>> /\ Head(calls) = a
      /\ Tail(calls) = <<b>> /\ Tail(calls) \in Seq(LaterCall)
      /\ Elems(calls) = {a, b} /\ Elems(Tail(calls)) = {b}
      /\ Ordered(calls)
  <2>1. b \in RoundCall
    BY <1>1, LaterIsRound
  <2>2. calls \in Seq(RoundCall) /\ Tail(calls) = <<b>> /\ Head(calls) = a /\ calls # <<>>
    BY <1>1, <2>1
  <2>3. <<b>> \in Seq(LaterCall)
    BY <1>1
  <2>4. MayPrecede(a, b)
    BY <1>1 DEF MayPrecede
  <2> QED BY <2>2, <2>3, <2>4, ElemsFew, OrderedFew
<1> HIDE DEF calls
<1>9. \A k \in Elems(calls) : \A m \in Q : MayPrecede(k, m)
  BY <1>1, <1>8 DEF MayPrecede
<1>10. /\ StackFits' /\ OnStack' = {a, b} \cup Q /\ todo' # <<>> /\ Head(todo') = a
  BY <1>4, <1>8, <1>9, PutOn
<1>11. \A c \in Circuits : /\ Dialling(c)' <=> c = x \/ Dialling(c)
                           /\ Putting(c)' <=> Putting(c)
                           /\ Supported(c)' <=> Supported(c)
                           /\ Kept(c)' <=> Kept(c)
                           /\ EffectiveMode(c)' = EffectiveMode(c)
  <2>1. \A c : /\ After("dialled", c) \notin {a} /\ (After("dialled", c) = b <=> c = x)
               /\ After("hung_up", c) \notin {a, b}
               /\ After("not_dialled", c) \notin {a, b}
    BY <1>1, <1>5, <1>7
  <2>2. \A c \in Circuits : Supported(c)' <=> Supported(c)
    BY DEF Supported
  <2>3. \A c \in Circuits : Kept(c)' <=> Kept(c)
    BY <2>2 DEF Kept
  <2>4. \A c \in Circuits : EffectiveMode(c)' = EffectiveMode(c)
    BY DEF EffectiveMode, modes
  <2> QED BY <1>10, <2>1, <2>2, <2>3, <2>4 DEF Dialling, Putting
<1>12. HeadFits'
  <2>1. state'[x] = "active" /\ Dialling(x)' /\ Kept(x)'
    BY <1>2, <1>11
  <2> QED BY <1>1, <1>10, <2>1 DEF HeadFits, Up
<1>13. RoundsCurrent'
  <2> SUFFICES ASSUME NEW k \in OnStack', k.fn = "react", k.changed \in Dependents(k.changed)
               PROVE  state[k.changed] = k.to
    BY DEF RoundsCurrent, Dependents
  <2>1. k \in Q
    BY <1>1, <1>10
  <2>2. PICK m \in OnStack : m.fn = "react" /\ m.changed = k.changed /\ m.to = k.to
    BY <2>1
  <2> QED BY <2>2 DEF DepsInv, RoundsCurrent
<1>14. PutAlone'
  BY <1>1, <1>10, <1>11 DEF DepsInv, PutAlone
<1>15. DialsSupported'
  <2> SUFFICES ASSUME NEW c \in Circuits, Dialling(c)'
               PROVE  /\ Supported(c) /\ c \notin Dependents(c)
                      /\ state[c] = "ready" \/ Head(todo') = ChangeState(c, "ready")
    BY <1>10, <1>11 DEF DialsSupported, Dependents
  <2>1. CASE c = x
    BY <1>2, <1>3, <1>6, <1>10, <2>1
  <2>2. CASE c # x
    <3>1. Dialling(c)
      BY <1>11, <2>2
    <3>2. todo # <<>> => Head(todo) # ChangeState(c, "ready")
      BY DEF ChangeState
    <3> QED BY <3>1, <3>2 DEF DepsInv, DialsSupported
  <2> QED BY <2>1, <2>2
<1>16. PutsKept'
  <2> SUFFICES ASSUME NEW c \in Circuits, Putting(c)
               PROVE  /\ state[c] \notin Up =>
                           /\ \A k \in OnStack' : k.fn = "react" => k.changed = c
                           /\ \A e \in Circuits : Dialling(e)' => e = c
                      /\ state[c] \in Up =>
                           /\ Supported(c) /\ Undisturbed(c)'
                           /\ \A k \in OnStack' : k.fn = "react" => c \notin Dependents(k.changed)
    BY <1>11 DEF PutsKept, Dependents
  <2>1. ~Dropping(c)
    BY DEF Dropping
  <2>2. /\ state[c] \notin Up =>
             /\ \A k \in OnStack : k.fn = "react" => k.changed = c
             /\ \A e \in Circuits : Dialling(e) => e = c
        /\ state[c] \in Up =>
             /\ Supported(c) /\ Undisturbed(c)
             /\ \A k \in OnStack : k.fn = "react" => c \notin Dependents(k.changed)
    BY <2>1 DEF DepsInv, PutsKept
  <2>3. Undisturbed(c) => Undisturbed(c)'
    BY <1>11 DEF Undisturbed
  <2>4. \A k \in OnStack' : k.fn = "react" =>
          \E m \in OnStack : m.fn = "react" /\ m.changed = k.changed
    BY <1>1, <1>10
  <2> QED BY <1>11, <2>2, <2>3, <2>4
<1>17. HangupsEnd'
  BY <1>11 DEF DepsInv, HangupsEnd
<1>18. LooksAgain(todo, operation)'
  <2>1. \A k \in {a, b} : k.fn = "dialled" /\ operation[k.circuit] = "hangup" =>
          \A y \in Dependents(k.circuit) : \E m \in Q : Looks(m, y)
    BY <1>1
  <2>2. calls \in Seq(RoundCall) /\ q \in Seq(RoundCall) /\ Elems(calls) = {a, b}
    BY <1>8, LaterIsRound
  <2>3. LooksAgain(calls \o q, operation)
    BY <2>1, <2>2, LooksAgainJoined
  <2> QED BY <1>4, <2>3
<1>19. Honoured'
  <2> SUFFICES ASSUME NEW y \in Circuits, state[y] \in Up, ~Supported(y), operation[y] # "hangup"
               PROVE  \E k \in OnStack' : Looks(k, y)
    BY <1>11 DEF Honoured, Looks, Dependents
  <2>1. PICK k \in OnStack : Looks(k, y)
    BY DEF DepsInv, Honoured
  <2>2. y # x
    BY DEF Up
  <2> QED BY <1>10, <2>1, <2>2
<1>20. Remembered'
  <2> SUFFICES ASSUME NEW y \in Circuits, state[y] = "active", EffectiveMode(y) = "auto", MetSoon(y)'
               PROVE  \E k \in OnStack' : Attends(k, y)
    BY <1>11 DEF Remembered, Attends, Looks, WillDial, Dependents
  <2>1. CASE y = x
    BY <1>6, <1>10, <2>1 DEF Attends, WillDial
  <2>2. CASE y # x
    <3>1. Supported(y)
      BY <1>11 DEF MetSoon
    <3>2. \A c \in Circuits : c # x /\ Undisturbed(c)' => Undisturbed(c)
      BY <1>11 DEF Undisturbed
    <3>3. /\ \A d \in Deps[y] : d[1] # x
          /\ \A d \in WeakDeps[y] : d # x
      BY <3>1 DEF Supported, Up
    <3>4. MetSoon(y)
      BY <3>1, <3>2, <3>3, DepsAre DEF MetSoon
    <3>5. PICK k \in OnStack : Attends(k, y)
      BY <3>4 DEF DepsInv, Remembered
    <3> QED BY <1>10, <2>2, <3>5 DEF Attends
  <2> QED BY <2>1, <2>2
<1> QED BY <1>10, <1>12, <1>13, <1>14, <1>15, <1>16, <1>17, <1>18, <1>19, <1>20 DEF DepsInv

(* A circuit begins to be hung up, or goes on to be. *)
LEMMA HangsUp ==
  ASSUME CircdInv, NEW x \in Circuits, NEW target, CircuitHangup(x, target)
  PROVE  /\ operation'[x] = "hangup"
         /\ \A c \in Circuits : c # x => operation'[c] = operation[c]
<1>1. operation \in [Circuits -> {"none", "dial", "hangup"}]
  BY DEF CircdInv, TypeOK
<1> QED BY <1>1 DEF CircuitHangup

LEMMA ReactDeps == CircdInv /\ DepsInv /\ WholeCircuits /\ DoReact => DepsInv'
<1> SUFFICES ASSUME CircdInv, DepsInv, WholeCircuits, DoReact PROVE DepsInv'
  OBVIOUS
<1>1. todo # <<>> /\ Head(todo).fn = "react" /\ UNCHANGED <<state, modes>>
  BY DEF DoReact, Running
<1>2. PICK h : h = Head(todo)
  OBVIOUS
<1>3. /\ h \in RoundCall /\ h.fn = "react" /\ h.circuit \in Circuits /\ h \in OnStack
      /\ Tail(todo) \in Seq(LaterCall) /\ Ordered(Tail(todo))
      /\ Elems(Tail(todo)) \subseteq LaterCall
      /\ OnStack = {h} \cup Elems(Tail(todo))
      /\ LooksAgain(Tail(todo), operation)
      /\ \A k \in Elems(Tail(todo)) : MayPrecede(h, k)
  BY <1>1, <1>2, OnTop
<1>4. PICK x \in Circuits, c \in Circuits : x = h.circuit /\ c = h.changed
  BY <1>3, CallIs DEF RoundCall
<1>5. PICK s : s = IF x = c THEN h.to ELSE state[x]
  OBVIOUS
<1>6. PICK rest : rest = NextRound(c, h.to, h.position)
  OBVIOUS
<1>7. \/ /\ s = "active" /\ EffectiveMode(x) = "auto" /\ DependenciesMet(x, TRUE)
         /\ Run(InitiateDialup(x) \o rest) /\ UNCHANGED operation
      \/ /\ ~(s = "active" /\ EffectiveMode(x) = "auto" /\ DependenciesMet(x, TRUE))
         /\ Run(rest)
         /\ \/ s \in Up /\ ~DependenciesMet(x, FALSE) /\ CircuitHangup(x, "active")
            \/ ~(s \in Up /\ ~DependenciesMet(x, FALSE)) /\ UNCHANGED operation
  BY <1>2, <1>4, <1>5, <1>6 DEF DoReact
<1>8. /\ rest \in Seq(LaterCall) /\ Ordered(rest)
      /\ \A k \in Elems(rest) : k.fn = "react" /\ k.changed = c /\ k.to = h.to
      /\ \A y \in Circuits : Looks(h, y) /\ y # x => \E k \in Elems(rest) : Looks(k, y)
      /\ h.position = 0 => \A y \in Dependents(c) : y # x => \E k \in Elems(rest) : Looks(k, y)
  BY <1>3, <1>4, <1>6, Rounds
<1>9. /\ h.position = 0 => /\ x = c /\ state[c] = h.to /\ (Dialling(c) => Kept(c))
                           /\ h.to \in Up => Dialling(c) \/ \A e \in Circuits : ~Putting(e)
      /\ h.position # 0 => x \in Dependents(c)
      /\ c \in Dependents(c) => state[c] = h.to
  <2>1. /\ h.position = 0 => x = c
        /\ h.position # 0 => x \in Dependents(c)
    BY <1>3, <1>4 DEF RoundCall
  <2>2. h.position = 0 => /\ state[c] = h.to /\ (Dialling(c) => Kept(c))
                          /\ h.to \in Up => Dialling(c) \/ \A e \in Circuits : ~Putting(e)
    BY <1>1, <1>2, <1>4, <2>1 DEF DepsInv, HeadFits
  <2>3. c \in Dependents(c) => state[c] = h.to
    BY <1>3, <1>4 DEF DepsInv, RoundsCurrent
  <2> QED BY <2>1, <2>2, <2>3
<1>10. s = state[x]
  BY <1>5, <1>9
<1>11. Dialling(x) => Kept(x)
  <2>1. CASE h.position = 0
    BY <1>9, <2>1
  <2>2. CASE h.position # 0
    <3> SUFFICES ASSUME Dialling(x) PROVE FALSE
      OBVIOUS
    <3>1. After("dialled", x) # h /\ After("dialled", x).fn = "dialled"
          /\ After("dialled", x).circuit = x
      BY <1>3 DEF After
    <3>2. MayPrecede(h, After("dialled", x))
      BY <1>3, <3>1 DEF Dialling
    <3> QED BY <1>3, <1>4, <1>9, <2>2, <3>1, <3>2 DEF MayPrecede
  <2> QED BY <2>1, <2>2
<1>12. ASSUME Putting(x), state[x] \in Up
       PROVE  Kept(x)
  <2>1. /\ ~Dropping(x)
    BY <1>1 DEF Dropping
  <2>2. x \notin Dependents(c)
    BY <1>3, <1>4, <1>12, <2>1 DEF DepsInv, PutsKept
  <2> QED BY <1>9, <1>11, <1>12, <2>2
<1>13. CASE /\ s = "active" /\ EffectiveMode(x) = "auto" /\ DependenciesMet(x, TRUE)
            /\ Run(InitiateDialup(x) \o rest) /\ UNCHANGED operation
  <2>1. PICK q : q = rest \o Tail(todo)
    OBVIOUS
  <2>2. \A k \in Elems(rest) : \A m \in Elems(Tail(todo)) : MayPrecede(k, m)
    BY <1>3, <1>4, <1>8 DEF MayPrecede
  <2>3. /\ q \in Seq(LaterCall) /\ Ordered(q) /\ Elems(q) = Elems(rest) \cup Elems(Tail(todo))
        /\ LooksAgain(q, operation)
    <3>1. q \in Seq(LaterCall) /\ Elems(q) = Elems(rest) \cup Elems(Tail(todo))
      <4>1. q \in Seq(LaterCall)
        BY <1>3, <1>8, <2>1, ConcatProperties
      <4>2. Elems(rest \o Tail(todo)) = Elems(rest) \cup Elems(Tail(todo))
        BY <1>3, <1>8, WaitingJoined
      <4> QED BY <2>1, <4>1, <4>2
    <3>2. Ordered(q)
      <4>1. \A i \in DOMAIN rest : \A j \in DOMAIN Tail(todo) : MayPrecede(rest[i], Tail(todo)[j])
        BY <2>2 DEF Elems
      <4> QED BY <1>3, <1>8, <2>1, <4>1, OrderedJoined
    <3>3. LooksAgain(q, operation)
      BY <1>3, <1>8, <2>1, LooksAgainJoined
    <3> QED BY <3>1, <3>2, <3>3
  <2>4. todo' = InitiateDialup(x) \o q
    <3> DEFINE a == InitiateDialup(x)
               t == Tail(todo)
    <3>1. a \in Seq(RoundCall)
      <4>1. ChangeState(x, "ready") \in RoundCall /\ After("dialled", x) \in RoundCall
        BY CallsMadeFit, LaterIsRound DEF State
      <4> QED BY <4>1 DEF InitiateDialup
    <3>2. rest \in Seq(RoundCall) /\ t \in Seq(RoundCall)
      BY <1>3, <1>8, LaterIsRound
    <3>3. todo' = (a \o rest) \o t /\ q = rest \o t
      BY <1>13, <2>1 DEF Run
    <3> HIDE DEF a, t
    <3>4. todo' = a \o q
      BY <3>1, <3>2, <3>3, ConcatAssociative
    <3> QED BY <3>4 DEF a
  <2>5. state[x] = "active"
    BY <1>10, <1>13
  <2>6. MetSoon(x) /\ Kept(x) /\ Supported(x)
    BY <1>13, MetIsSoon
  <2>7. x \notin Dependents(x)
    BY <2>5, <2>6, SupportUp DEF Up
  <2>8. ASSUME NEW e \in Circuits, Putting(e), state[e] \notin Up
        PROVE  x = e /\ h.position = 0 /\ c = x
    <3>1. c = e
      BY <1>3, <1>4, <2>8 DEF DepsInv, PutsKept
    <3>2. x \notin Dependents(c)
      BY <2>6, <2>8, <3>1, SupportUp
    <3> QED BY <1>9, <3>1, <3>2
  <2>9. \A e : /\ After("dialled", e) \in Elems(q) <=> After("dialled", e) \in OnStack
               /\ After("hung_up", e) \in Elems(q) <=> After("hung_up", e) \in OnStack
               /\ After("not_dialled", e) \in Elems(q) <=> After("not_dialled", e) \in OnStack
    <3>1. \A e : /\ After("dialled", e) \notin Elems(rest) \cup {h}
                 /\ After("hung_up", e) \notin Elems(rest) \cup {h}
                 /\ After("not_dialled", e) \notin Elems(rest) \cup {h}
      BY <1>3, <1>8 DEF After
    <3> QED BY <1>3, <2>3, <3>1
  <2>10. ASSUME operation[x] = "hangup", NEW y \in Dependents(x)
         PROVE  \E k \in Elems(q) : Looks(k, y)
    <3>1. Putting(x)
      BY <2>5, <2>10 DEF DepsInv, HangupsEnd, Up
    <3>2. h.position = 0 /\ c = x
      BY <2>5, <2>8, <3>1 DEF Up
    <3>3. y # x
      BY <2>7
    <3> QED BY <1>8, <2>3, <3>2, <3>3
  <2>11. \A k \in Elems(q) : \/ k \in OnStack
                             \/ k.fn = "react" /\ \E m \in OnStack :
                                  m.fn = "react" /\ m.changed = k.changed /\ m.to = k.to
    BY <1>3, <1>4, <1>8, <2>3
  <2>12. ASSUME NEW k \in OnStack, NEW y \in Circuits, y # x
         PROVE  /\ Looks(k, y) => \E m \in Elems(q) : Looks(m, y)
                /\ WillDial(k, y) => \E m \in Elems(q) : WillDial(m, y)
    <3>1. ~WillDial(h, y)
      BY <1>3 DEF WillDial, ChangeState
    <3> QED BY <1>3, <1>8, <2>3, <2>12, <3>1
  <2>13. Head(todo).fn \in {"react", "mode_change"}
    BY <1>1
  <2> QED BY <1>1, <1>13, <2>3, <2>4, <2>5, <2>8, <2>9, <2>10, <2>11, <2>12, <2>13, DialPut
      DEF Dialling
<1>14. CASE /\ ~(s = "active" /\ EffectiveMode(x) = "auto" /\ DependenciesMet(x, TRUE))
            /\ Run(rest)
            /\ \/ s \in Up /\ ~DependenciesMet(x, FALSE) /\ CircuitHangup(x, "active")
               \/ ~(s \in Up /\ ~DependenciesMet(x, FALSE)) /\ UNCHANGED operation
  <2>1. /\ DependenciesMet(x, FALSE) <=> Kept(x)
        /\ DependenciesMet(x, TRUE) <=>
              Kept(x) /\ \A d \in WeakDeps[x] : operation[d] # "hangup"
    BY MetMeans
  <2>2. ASSUME NEW e \in Circuits
        PROVE  /\ operation[e] = "hangup" => operation'[e] = "hangup"
               /\ operation'[e] = "hangup" /\ operation[e] # "hangup" =>
                    state[e] \in Up /\ ~Dialling(e) /\ ~Putting(e)
    BY <1>10, <1>11, <1>12, <1>14, <2>1, HangsUp
  <2>3. ASSUME NEW e \in Circuits, Looks(h, e), state[e] \in Up, ~Supported(e)
        PROVE  operation'[e] = "hangup" \/ \E k \in Elems(rest) : Looks(k, e)
    <3>1. CASE e = x
      BY <1>10, <1>14, <2>1, <2>3, <3>1, HangsUp DEF Kept
    <3>2. CASE e # x
      BY <1>8, <2>3, <3>2
    <3> QED BY <3>1, <3>2
  <2>4. ASSUME NEW e \in Circuits, state[e] = "active", EffectiveMode(e) = "auto", MetSoon(e),
               Attends(h, e)
        PROVE  \E k \in Elems(rest) \cup Elems(Tail(todo)) : Attends(k, e)
    <3>1. Looks(h, e)
      BY <1>3, <2>4 DEF Attends, WillDial, ChangeState
    <3>2. CASE e # x
      BY <1>8, <3>1, <3>2 DEF Attends
    <3>3. CASE e = x
      <4>1. ~DependenciesMet(x, TRUE) /\ Supported(x)
        BY <1>10, <1>14, <2>4, <3>3 DEF MetSoon
      <4>2. \/ \E d \in Deps[x] : operation[d[1]] = "hangup"
            \/ \E d \in WeakDeps[x] : operation[d] = "hangup"
        BY <2>1, <4>1 DEF Kept
      <4>3. PICK z \in Circuits : x \in Dependents(z) /\ operation[z] = "hangup" /\ Dialling(z)
        BY <2>4, <3>3, <4>2, DepsAre DEF MetSoon, Undisturbed
      <4>4. After("dialled", z) \in Elems(Tail(todo))
        BY <1>3, <4>3 DEF Dialling, After
      <4>5. PICK i \in DOMAIN Tail(todo) : Tail(todo)[i] = After("dialled", z)
        BY <4>4 DEF Elems
      <4>6. \E j \in DOMAIN Tail(todo) : j > i /\ Looks(Tail(todo)[j], x)
        <5>1. After("dialled", z).fn = "dialled" /\ After("dialled", z).circuit = z
          BY DEF After
        <5> QED BY <1>3, <4>3, <4>5, <5>1 DEF LooksAgain
      <4> QED BY <3>3, <4>6 DEF Elems, Attends
    <3> QED BY <3>2, <3>3
  <2>5. \A k \in Elems(rest) : /\ k.fn = "react" /\ Head(todo).fn = "react"
                               /\ k.changed = Head(todo).changed /\ k.to = Head(todo).to
    BY <1>1, <1>2, <1>4, <1>8
  <2>6. todo' = rest \o Tail(todo)
    BY <1>14 DEF Run
  <2> QED BY <1>1, <1>2, <1>8, <2>2, <2>3, <2>4, <2>5, <2>6, QuietCall
<1> QED BY <1>7, <1>13, <1>14

(* Nothing the invariant is about changes. *)
LEMMA SameDeps ==
  ASSUME DepsInv, UNCHANGED <<state, operation, modes, todo>>
  PROVE  DepsInv'
<1>1. /\ state' = state /\ operation' = operation /\ todo' = todo
      /\ global_mode' = global_mode /\ local_mode' = local_mode
  BY DEF modes
<1>2. OnStack' = OnStack
  BY <1>1 DEF OnStack, Elems
<1>3. \A c \in Circuits : Dialling(c)' <=> Dialling(c)
  BY <1>2 DEF Dialling
<1>4. \A c \in Circuits : Putting(c)' <=> Putting(c)
  BY <1>2 DEF Putting
<1>5. \A c \in Circuits : Supported(c)' <=> Supported(c)
  BY <1>1 DEF Supported
<1>6. \A c \in Circuits : Undisturbed(c)' <=> Undisturbed(c)
  BY <1>1, <1>3 DEF Undisturbed
<1>7. StackFits' /\ LooksAgain(todo, operation)'
  BY <1>1 DEF DepsInv, StackFits
<1>8. RoundsCurrent'
  BY <1>1, <1>2 DEF DepsInv, RoundsCurrent
<1>9. PutAlone'
  BY <1>2, <1>4 DEF DepsInv, PutAlone
<1>10. HeadFits'
  BY <1>1 DEF DepsInv, HeadFits, Kept, Supported, Dialling, Putting, OnStack, Elems
<1>11. DialsSupported'
  BY <1>1, <1>3, <1>5 DEF DepsInv, DialsSupported
<1>12. HangupsEnd'
  BY <1>1, <1>4 DEF DepsInv, HangupsEnd
<1>13. PutsKept'
  BY <1>1, <1>2, <1>3, <1>4, <1>5, <1>6 DEF DepsInv, PutsKept, Dropping
<1>14. Honoured'
  BY <1>1, <1>2, <1>5 DEF DepsInv, Honoured, Looks
<1>15. Remembered'
  BY <1>1, <1>2 DEF DepsInv, Remembered, MetSoon, Supported, Undisturbed, Dialling, EffectiveMode
<1> QED BY <1>7, <1>8, <1>9, <1>10, <1>11, <1>12, <1>13, <1>14, <1>15 DEF DepsInv

LEMMA ModeChangeDeps == CircdInv /\ DepsInv /\ WholeCircuits /\ DoModeChange => DepsInv'
<1> SUFFICES ASSUME CircdInv, DepsInv, WholeCircuits, DoModeChange PROVE DepsInv'
  OBVIOUS
<1>1. todo # <<>> /\ Head(todo).fn = "mode_change" /\ UNCHANGED <<state, modes>>
  BY DEF DoModeChange, Running
<1>2. PICK h : h = Head(todo)
  OBVIOUS
<1>3. PICK t : t = Tail(todo)
  OBVIOUS
<1>4. /\ h \in RoundCall /\ h.fn = "mode_change" /\ h.circuit \in Circuits /\ h \in OnStack
      /\ t \in Seq(LaterCall) /\ Ordered(t)
      /\ OnStack = {h} \cup Elems(t)
      /\ LooksAgain(t, operation)
      /\ \A k \in Elems(t) : MayPrecede(h, k)
  BY <1>1, <1>2, <1>3, OnTop
<1>5. PICK c \in Circuits : c = h.circuit
  BY <1>4
<1>6. /\ \A e : ~Dialling(e) /\ ~Putting(e)
      /\ \A e : e # c => ~Attends(h, e)
      /\ \A e : ~Looks(h, e)
  <2>1. ASSUME NEW e, Dialling(e)
        PROVE  FALSE
    <3>1. After("dialled", e) # h /\ After("dialled", e).fn = "dialled"
      BY <1>4 DEF After
    <3>2. MayPrecede(h, After("dialled", e))
      BY <1>4, <2>1, <3>1 DEF Dialling
    <3> QED BY <1>4, <3>1, <3>2 DEF MayPrecede
  <2>2. ASSUME NEW e, Putting(e)
        PROVE  FALSE
    <3>1. PICK k \in OnStack : k.circuit = e /\ k.fn \in {"hung_up", "not_dialled"}
      BY <2>2 DEF Putting, After
    <3>2. k \in RoundCall
      BY <1>4, <3>1, LaterIsRound, ElemsIn
    <3>3. e \in Circuits
      BY <3>1, <3>2, AfterIs
    <3> QED BY <1>4, <2>2, <3>3 DEF DepsInv, PutAlone
  <2>3. \A e : e # c => ~Attends(h, e)
    BY <1>4, <1>5 DEF Attends, Looks, WillDial, ChangeState
  <2>4. \A e : ~Looks(h, e)
    BY <1>4 DEF Looks
  <2> QED BY <2>1, <2>2, <2>3, <2>4
<1>7. h.mode = EffectiveMode(c)
  <2>1. h \in GoodCall
    BY <1>1, <1>2, HeadTailProperties DEF CircdInv
  <2> QED BY <1>4, <1>5, <2>1 DEF GoodCall, FitsModes
<1>8. PICK changed \in BOOLEAN : changed = (h.old # h.mode)
  OBVIOUS
<1>9. \/ /\ h.mode = "auto" /\ state[c] = "active" /\ DependenciesMet(c, TRUE)
         /\ Run(InitiateDialup(c)) /\ UNCHANGED operation
      \/ /\ ~(h.old # h.mode /\ h.mode = "auto" /\ state[c] = "active" /\ DependenciesMet(c, TRUE))
         /\ Return
         /\ (state[c] \in Up /\ CircuitHangup(c, "active")) \/ UNCHANGED operation
  BY <1>2, <1>5 DEF DoModeChange, Up
<1>10. CASE /\ state[c] = "active" /\ DependenciesMet(c, TRUE)
            /\ Run(InitiateDialup(c)) /\ UNCHANGED operation
  <2>1. todo' = InitiateDialup(c) \o t
    BY <1>3, <1>10 DEF Run
  <2>2. \A e : /\ After("dialled", e) \in Elems(t) <=> After("dialled", e) \in OnStack
               /\ After("hung_up", e) \in Elems(t) <=> After("hung_up", e) \in OnStack
               /\ After("not_dialled", e) \in Elems(t) <=> After("not_dialled", e) \in OnStack
    <3>1. \A e : /\ After("dialled", e) # h /\ After("hung_up", e) # h
                 /\ After("not_dialled", e) # h
      BY <1>4 DEF After
    <3> QED BY <1>4, <3>1
  <2>3. operation[c] # "hangup"
    BY <1>6, <1>10 DEF DepsInv, HangupsEnd, Up
  <2>4. ASSUME NEW k \in OnStack, NEW y \in Circuits, y # c
        PROVE  /\ Looks(k, y) => \E m \in Elems(t) : Looks(m, y)
               /\ WillDial(k, y) => \E m \in Elems(t) : WillDial(m, y)
    BY <1>4, <1>6, <2>4 DEF Attends
  <2>5. \A k \in Elems(t) : k \in OnStack
    BY <1>4
  <2>6. Head(todo).fn \in {"react", "mode_change"}
    BY <1>1
  <2> QED BY <1>1, <1>4, <1>6, <1>10, <2>1, <2>2, <2>3, <2>4, <2>5, <2>6, DialPut DEF Dialling
<1>11. CASE /\ ~(h.old # h.mode /\ h.mode = "auto" /\ state[c] = "active" /\ DependenciesMet(c, TRUE))
            /\ Return
            /\ (state[c] \in Up /\ CircuitHangup(c, "active")) \/ UNCHANGED operation
  <2>1. todo' = <<>> \o Tail(todo)
    BY <1>11 DEF Return, Run
  <2>2. ASSUME NEW e \in Circuits
        PROVE  /\ operation[e] = "hangup" => operation'[e] = "hangup"
               /\ operation'[e] = "hangup" /\ operation[e] # "hangup" => state[e] \in Up
    BY <1>11, HangsUp
  <2>3. ASSUME state[c] = "active", MetSoon(c), Attends(h, c)
        PROVE  FALSE
    <3>1. h.mode = "auto" /\ h.old # "auto"
      BY <1>4, <1>6, <2>3 DEF Attends, WillDial, ChangeState
    <3>2. DependenciesMet(c, TRUE)
      <4>1. /\ Supported(c) /\ \A d \in Deps[c] : operation[d[1]] # "hangup"
            /\ \A d \in WeakDeps[c] : operation[d] # "hangup"
        BY <1>6, <2>3 DEF MetSoon, Undisturbed
      <4> QED BY <4>1, MetMeans DEF Kept
    <3> QED BY <1>11, <2>3, <3>1, <3>2
  <2> QED BY <1>1, <1>2, <1>3, <1>4, <1>6, <2>1, <2>2, <2>3, NoRest, QuietCall
<1> QED BY <1>9, <1>10, <1>11

LEMMA DialupDeps == CircdInv /\ DepsInv /\ WholeCircuits /\ HandleDialup => DepsInv'
<1> SUFFICES ASSUME CircdInv, DepsInv, WholeCircuits, HandleDialup PROVE DepsInv'
  OBVIOUS
<1>1. /\ Receives("dialup") /\ todo = <<>> /\ UNCHANGED <<state, operation, modes>>
  BY DEF HandleDialup, Receives, circuit
<1>2. PICK c : c = Msg.circuit
  OBVIOUS
<1>3. OnStack = {} /\ \A e : ~Dialling(e) /\ ~Putting(e)
  BY <1>1, ElemsFew DEF OnStack, Dialling, Putting
<1>4. CASE state[c] = "active" /\ DependenciesMet(c, TRUE) /\ todo' = InitiateDialup(c)
  <2>1. c \in Circuits
    <3>1. Msg \in Message /\ Msg.type = "dialup"
      BY <1>1, Received DEF CircdInv
    <3> QED BY <1>2, <3>1, MessageTypes
  <2>2. PICK q : q = <<>>
    OBVIOUS
  <2>3. /\ q \in Seq(LaterCall) /\ Ordered(q) /\ Elems(q) = {}
        /\ todo' = InitiateDialup(c) \o q
    <3>1. InitiateDialup(c) \in Seq(RoundCall)
      <4>1. ChangeState(c, "ready") \in RoundCall /\ After("dialled", c) \in RoundCall
        BY <2>1, CallsMadeFit, LaterIsRound DEF State
      <4> QED BY <4>1 DEF InitiateDialup
    <3>2. InitiateDialup(c) \o <<>> = InitiateDialup(c)
      BY <3>1, ConcatEmptySeq
    <3> QED BY <1>4, <2>2, <3>2, ElemsFew, OrderedFew
  <2>4. LooksAgain(q, operation)
    BY <2>3, NothingAgain
  <2>5. operation[c] # "hangup"
    BY <1>3, <1>4, <2>1 DEF DepsInv, HangupsEnd, Up
  <2> QED BY <1>1, <1>3, <1>4, <2>1, <2>3, <2>4, <2>5, DialPut DEF Putting
<1>5. CASE todo' = <<>>
  <2>1. todo' = todo
    BY <1>1, <1>5
  <2> QED BY <1>1, <2>1, SameDeps
<1> QED BY <1>2, <1>4, <1>5 DEF HandleDialup, MayDial

-----------------------------------------------------------------------------
(* Calls that end an operation or begin one *)

(* A call returns, and the circuit it was about is not being hung up.      *)
LEMMA Returns ==
  ASSUME CircdInv, DepsInv, todo # <<>>,
         Head(todo).fn \in {"dialled", "hung_up", "not_dialled"},
         todo' = Tail(todo), UNCHANGED <<state, modes>>,
         \A e \in Circuits : operation'[e] = "hangup" =>
           operation[e] = "hangup" /\ e # Head(todo).circuit,
         \A e \in Circuits : operation[e] = "hangup" =>
           operation'[e] = "hangup" \/ e = Head(todo).circuit,
         \A e \in Circuits : Undisturbed(e)' /\ state[e] \in Up => Undisturbed(e),
         \A e \in Circuits : state[e] \in Up /\ ~Supported(e) => e # Head(todo).circuit,
         \A e \in Circuits : Putting(e)' /\ state[e] \in Up /\ Undisturbed(e) => Undisturbed(e)',
         \A e \in Circuits : operation'[e] = "hangup" /\ Putting(e) => Putting(e)'
  PROVE  DepsInv'
<1>1. PICK h : h = Head(todo)
  OBVIOUS
<1>2. PICK t : t = Tail(todo)
  OBVIOUS
<1>3. /\ h \in RoundCall /\ h.circuit \in Circuits /\ t \in Seq(LaterCall) /\ Ordered(t)
      /\ Elems(t) \subseteq LaterCall /\ OnStack = {h} \cup Elems(t)
      /\ LooksAgain(t, operation)
  BY <1>1, <1>2, OnTop
<1>4. /\ todo' = t /\ h.fn \in {"dialled", "hung_up", "not_dialled"}
      /\ state' = state /\ global_mode' = global_mode /\ local_mode' = local_mode
  BY <1>1, <1>2 DEF modes
<1>5. StackFits' /\ OnStack' = Elems(t) /\ HeadFits'
  <2>1. <<>> \in Seq(RoundCall) /\ todo' = <<>> \o t
    BY <1>3, <1>4, NoRest
  <2>2. StackFits' /\ OnStack' = {} \cup Elems(t)
    BY <1>3, <2>1, PutOn, ElemsFew, OrderedFew
  <2>3. HeadFits'
    BY <1>3, <1>4, LaterHead
  <2> QED BY <2>2, <2>3
<1>6. \A e \in Circuits : /\ Dialling(e)' => Dialling(e)
                          /\ Putting(e)' => Putting(e)
  BY <1>3, <1>5 DEF Dialling, Putting
<1>7. \A e \in Circuits : Supported(e)' <=> Supported(e)
  BY <1>4 DEF Supported
<1>8. \A e \in Circuits : EffectiveMode(e)' = EffectiveMode(e)
  BY <1>4 DEF EffectiveMode
<1>9. \A e \in Circuits : ~Attends(h, e) /\ ~Looks(h, e)
  BY <1>4 DEF Attends, Looks, WillDial, ChangeState
<1>10. \A e \in Circuits : ~Dropping(e) /\ Head(todo) # ChangeState(e, "ready")
  BY <1>1, <1>4 DEF Dropping, ChangeState
<1>11. RoundsCurrent'
  BY <1>3, <1>4, <1>5 DEF DepsInv, RoundsCurrent
<1>12. PutAlone'
  BY <1>3, <1>5, <1>6 DEF DepsInv, PutAlone
<1>13. DialsSupported'
  BY <1>4, <1>6, <1>7, <1>10 DEF DepsInv, DialsSupported
<1>14. PutsKept'
  <2> SUFFICES ASSUME NEW c \in Circuits, Putting(c)'
               PROVE  /\ state[c] \notin Up =>
                           /\ \A k \in OnStack' : k.fn = "react" => k.changed = c
                           /\ \A e \in Circuits : Dialling(e)' => e = c
                      /\ state[c] \in Up =>
                           /\ Supported(c) /\ Undisturbed(c)'
                           /\ \A k \in OnStack' : k.fn = "react" => c \notin Dependents(k.changed)
    BY <1>4, <1>7 DEF PutsKept, Dependents
  <2>1. Putting(c)
    BY <1>6
  <2>2. /\ state[c] \notin Up =>
             /\ \A k \in OnStack : k.fn = "react" => k.changed = c
             /\ \A e \in Circuits : Dialling(e) => e = c
        /\ state[c] \in Up =>
             /\ Supported(c) /\ Undisturbed(c)
             /\ \A k \in OnStack : k.fn = "react" => c \notin Dependents(k.changed)
    BY <1>10, <2>1 DEF DepsInv, PutsKept
  <2> QED BY <1>3, <1>5, <1>6, <2>2
<1>15. HangupsEnd'
  <2> SUFFICES ASSUME NEW e \in Circuits, operation'[e] = "hangup", state[e] \notin Up
               PROVE  Putting(e)'
    BY <1>4 DEF HangupsEnd
  <2> QED BY DEF DepsInv, HangupsEnd
<1>16. LooksAgain(todo, operation)'
  <2>1. \A k \in Elems(t) : k.circuit \in Circuits
    BY <1>3, AfterIs, LaterIsRound
  <2>2. LooksAgain(t, operation')
    BY <1>3, <2>1, LooksAgainLess
  <2> QED BY <1>4, <2>2
<1>17. Honoured'
  <2> SUFFICES ASSUME NEW x \in Circuits, state[x] \in Up, ~Supported(x), operation'[x] # "hangup"
               PROVE  \E k \in OnStack' : Looks(k, x)
    BY <1>4, <1>7 DEF Honoured, Looks, Dependents
  <2>1. operation[x] # "hangup"
    OBVIOUS
  <2>2. PICK k \in OnStack : Looks(k, x)
    BY <2>1 DEF DepsInv, Honoured
  <2> QED BY <1>3, <1>5, <1>9, <2>2
<1>18. Remembered'
  <2> SUFFICES ASSUME NEW x \in Circuits, state[x] = "active", EffectiveMode(x) = "auto", MetSoon(x)'
               PROVE  \E k \in OnStack' : Attends(k, x)
    BY <1>4, <1>8 DEF Remembered, Attends, Looks, WillDial, Dependents
  <2>1. Supported(x)
    BY <1>7 DEF MetSoon
  <2>2. /\ \A d \in Deps[x] : state[d[1]] \in Up /\ d[1] \in Circuits
        /\ \A d \in WeakDeps[x] : state[d] \in Up /\ d \in Circuits
    BY <2>1, DepsAre DEF Supported, Up
  <2>3. MetSoon(x)
    BY <2>1, <2>2 DEF MetSoon
  <2>4. PICK k \in OnStack : Attends(k, x)
    BY <2>3 DEF DepsInv, Remembered
  <2> QED BY <1>3, <1>5, <1>9, <2>4
<1> QED BY <1>5, <1>11, <1>12, <1>13, <1>14, <1>15, <1>16, <1>17, <1>18 DEF DepsInv

LEMMA DialledDeps == CircdInv /\ DepsInv /\ Dialled => DepsInv'
<1> SUFFICES ASSUME CircdInv, DepsInv, Dialled PROVE DepsInv'
  OBVIOUS
<1>1. PICK h : h = Head(todo)
  OBVIOUS
<1>2. PICK c : c = h.circuit
  OBVIOUS
<1>3. /\ todo # <<>> /\ h.fn = "dialled" /\ todo' = <<>> \o Tail(todo)
      /\ UNCHANGED <<state, modes>>
      /\ operation' = [operation EXCEPT ![c] = "dial"]
  BY <1>1, <1>2 DEF Dialled, Running, Return, Run
<1>4. /\ h \in RoundCall /\ c \in Circuits /\ Tail(todo) \in Seq(LaterCall)
      /\ OnStack = {h} \cup Elems(Tail(todo))
  BY <1>1, <1>2, <1>3, OnTop
<1>5. todo' = Tail(todo)
  BY <1>3, <1>4, NoRest
<1>6. operation \in [Circuits -> {"none", "dial", "hangup"}]
  BY DEF CircdInv, TypeOK
<1>7. \A e \in Circuits : operation'[e] = IF e = c THEN "dial" ELSE operation[e]
  BY <1>3, <1>4, <1>6
<1>8. h = After("dialled", c) /\ Dialling(c)
  BY <1>2, <1>3, <1>4, AfterIs DEF Dialling
<1>9. Supported(c)
  BY <1>4, <1>8 DEF DepsInv, DialsSupported
<1>10. OnStack' = Elems(Tail(todo))
  BY <1>5 DEF OnStack, Elems
<1>11. \A e \in Circuits : /\ Dialling(e)' => Dialling(e)
                           /\ Dialling(e) /\ e # c => Dialling(e)'
                           /\ Putting(e)' <=> Putting(e)
  <2>1. \A e : /\ After("dialled", e) = h => e = c
               /\ After("hung_up", e) # h /\ After("not_dialled", e) # h
    BY <1>3, <1>8 DEF After
  <2> QED BY <1>4, <1>10, <2>1 DEF Dialling, Putting
<1>12. \A e \in Circuits : Undisturbed(e)' <=> Undisturbed(e)
  BY <1>7, <1>8, <1>11 DEF Undisturbed
<1> QED BY <1>1, <1>2, <1>3, <1>5, <1>7, <1>9, <1>11, <1>12, Returns

(* A circuit leaves its operation: it is down, or nothing disturbs it. *)
LEMMA PutDeps == CircdInv /\ DepsInv /\ (HungUp \/ NotDialled) => DepsInv'
<1> SUFFICES ASSUME CircdInv, DepsInv, HungUp \/ NotDialled PROVE DepsInv'
  OBVIOUS
<1>1. PICK h : h = Head(todo)
  OBVIOUS
<1>2. PICK c : c = h.circuit
  OBVIOUS
<1>3. /\ todo # <<>> /\ h.fn \in {"hung_up", "not_dialled"} /\ todo' = <<>> \o Tail(todo)
      /\ UNCHANGED <<state, modes>>
      /\ \/ operation' = [operation EXCEPT ![c] = AfterHangup(@)]
         \/ operation' = [operation EXCEPT ![c] = "none"]
  BY <1>1, <1>2 DEF HungUp, NotDialled, Running, Return, Run
<1>4. /\ h \in RoundCall /\ c \in Circuits /\ Tail(todo) \in Seq(LaterCall)
      /\ OnStack = {h} \cup Elems(Tail(todo))
      /\ \A k \in Elems(Tail(todo)) : MayPrecede(h, k)
  BY <1>1, <1>2, <1>3, OnTop
<1>5. todo' = Tail(todo)
  BY <1>3, <1>4, NoRest
<1>6. operation \in [Circuits -> {"none", "dial", "hangup"}]
  BY DEF CircdInv, TypeOK
<1>7. /\ operation'[c] # "hangup"
      /\ \A e \in Circuits : e # c => operation'[e] = operation[e]
  BY <1>3, <1>4, <1>6 DEF AfterHangup
<1>8. Putting(c)
  BY <1>2, <1>3, <1>4, AfterIs DEF Putting
<1>9. \A e \in Circuits : ~Dialling(e) /\ (Putting(e) => e = c)
  <2>1. \A e : After("dialled", e) # h /\ After("dialled", e).fn = "dialled"
    BY <1>3 DEF After
  <2>2. \A e : After("dialled", e) \notin OnStack
    BY <1>3, <1>4, <2>1 DEF MayPrecede
  <2>3. \A e \in Circuits : Putting(e) => h.circuit = e
    BY <1>3, <1>4 DEF DepsInv, PutAlone
  <2> QED BY <1>2, <2>2, <2>3 DEF Dialling
<1>10. state[c] \in Up => Supported(c) /\ operation[c] # "hangup"
  <2>1. ~Dropping(c)
    BY <1>1, <1>3 DEF Dropping
  <2> QED BY <1>4, <1>8, <1>9, <2>1 DEF DepsInv, PutsKept, Undisturbed
<1>11. OnStack' = Elems(Tail(todo))
  BY <1>5 DEF OnStack, Elems
<1>12. \A e \in Circuits : ~Dialling(e)' /\ (Putting(e)' => e = c)
  BY <1>4, <1>9, <1>11 DEF Dialling, Putting
<1>13. \A e \in Circuits : /\ Undisturbed(e)' <=> operation'[e] # "hangup"
                           /\ Undisturbed(e) <=> operation[e] # "hangup"
  BY <1>9, <1>12 DEF Undisturbed
<1>14. \A e \in Circuits : operation'[e] = "hangup" => operation[e] = "hangup" /\ e # c
  BY <1>7
<1>15. \A e \in Circuits : /\ Undisturbed(e)' /\ state[e] \in Up => Undisturbed(e)
                           /\ Putting(e)' /\ state[e] \in Up /\ Undisturbed(e) => Undisturbed(e)'
                           /\ operation'[e] = "hangup" /\ Putting(e) => Putting(e)'
  BY <1>7, <1>9, <1>10, <1>12, <1>13
<1> QED BY <1>1, <1>2, <1>3, <1>5, <1>7, <1>10, <1>14, <1>15, Returns

-----------------------------------------------------------------------------
(* The stacks handlers begin with *)

(* Nothing has been left to look at, and nothing is.                       *)
LEMMA Begins ==
  ASSUME DepsInv, UNCHANGED state,
         \A k \in OnStack : /\ k.fn \notin {"react", "dialled", "mode_change"}
                            /\ k.fn = "change_state" => k.to # "ready",
         \A e \in Circuits :
           /\ operation[e] = "hangup" => operation'[e] = "hangup"
           /\ operation'[e] = "hangup" /\ operation[e] # "hangup" => state[e] \in Up
           /\ Putting(e) => Putting(e)',
         StackFits', HeadFits', PutAlone',
         \A k \in OnStack' : k.fn \notin {"react", "dialled"},
         \A e \in Circuits : Putting(e)' /\ state[e] \in Up => Dropping(e)',
         Remembered' \/ UNCHANGED modes
  PROVE  DepsInv'
<1>1. \A e \in Circuits : ~Dialling(e)
  BY DEF Dialling, After
<1>2. \A e \in Circuits : ~Dialling(e)'
  BY DEF Dialling, After
<1>3. \A e \in Circuits : Supported(e)' <=> Supported(e)
  BY DEF Supported
<1>4. \A k \in OnStack : \A e \in Circuits : ~Attends(k, e) /\ ~Looks(k, e)
  BY DEF Attends, Looks, WillDial, ChangeState
<1>5. RoundsCurrent' /\ DialsSupported'
  BY <1>2 DEF RoundsCurrent, DialsSupported
<1>6. PutsKept'
  BY <1>2 DEF PutsKept
<1>7. HangupsEnd'
  BY DEF DepsInv, HangupsEnd
<1>8. LooksAgain(todo, operation)'
  <2>1. \A k \in Elems(todo') : k.fn # "dialled"
    BY DEF OnStack, Elems
  <2> QED BY <2>1, NothingAgain
<1>9. Honoured'
  <2> SUFFICES ASSUME NEW x \in Circuits, state[x] \in Up, ~Supported(x), operation'[x] # "hangup"
               PROVE  FALSE
    BY <1>3 DEF Honoured
  <2> QED BY <1>4 DEF DepsInv, Honoured
<1>10. Remembered'
  <2> SUFFICES ASSUME UNCHANGED modes PROVE Remembered'
    OBVIOUS
  <2>1. \A e \in Circuits : EffectiveMode(e)' = EffectiveMode(e)
    BY DEF EffectiveMode, modes
  <2> SUFFICES ASSUME NEW x \in Circuits, state[x] = "active", EffectiveMode(x) = "auto", MetSoon(x)'
               PROVE  FALSE
    BY <2>1 DEF Remembered
  <2>2. \A e \in Circuits : Undisturbed(e)' => Undisturbed(e)
    BY <1>2 DEF Undisturbed
  <2>3. MetSoon(x)
    BY <1>3, <2>2, DepsAre DEF MetSoon
  <2> QED BY <1>4, <2>3 DEF DepsInv, Remembered
<1> QED BY <1>5, <1>6, <1>7, <1>8, <1>9, <1>10 DEF DepsInv

(* One call, or a change of the state and what follows it                  *)
LEMMA BeginsWith ==
  ASSUME DepsInv, UNCHANGED <<state, modes>>,
         \A k \in OnStack : k.fn = "finalize_hangup",
         \A e \in Circuits :
           /\ operation[e] = "hangup" => operation'[e] = "hangup"
           /\ operation'[e] = "hangup" /\ operation[e] # "hangup" => state[e] \in Up,
         NEW c \in Circuits,
         \/ todo' = <<>>
         \/ todo' = <<FinalizeHangup(c)>>
         \/ state[c] \notin Up /\ todo' = <<After("hung_up", c)>>
         \/ \E s \in State \ {"ready"} :
              (s \in Up \/ state[c] \notin Up) /\ todo' = <<ChangeState(c, s)>>
         \/ todo' = <<ChangeState(c, "online"), After("went_online", c)>>
         \/ \E s \in State \ Up, what \in {"hung_up", "not_dialled"} :
              todo' = <<ChangeState(c, s), After(what, c)>>
  PROVE  DepsInv'
<1>0. \A e \in Circuits : ~Putting(e)
  BY DEF Putting, After
<1>1. ASSUME NEW k \in RoundCall, todo' = <<k>>, k.circuit = c,
             \/ k.fn = "finalize_hangup"
             \/ k.fn = "hung_up" /\ state[c] \notin Up
             \/ k.fn = "change_state" /\ k.to # "ready" /\ (k.to \in Up \/ state[c] \notin Up)
      PROVE  DepsInv'
  <2>1. <<k>> \in Seq(RoundCall) /\ Tail(<<k>>) = <<>> /\ Head(<<k>>) = k /\ <<k>> # <<>>
    OBVIOUS
  <2>2. OnStack' = {k}
    BY <1>1, ElemsFew DEF OnStack, Elems
  <2>3. StackFits'
    <3>1. <<>> \in Seq(LaterCall) /\ Ordered(<<k>>)
      BY OrderedFew
    <3> QED BY <1>1, <2>1, <3>1 DEF StackFits, RoundCall, LaterCall
  <2>4. HeadFits'
    <3>1. Elems(Tail(todo')) = {} /\ Head(todo') = k
      BY <1>1, <2>1, ElemsFew
    <3> QED BY <1>1, <3>1 DEF HeadFits, Elems
  <2>5. \A e \in Circuits : Putting(e)' => k.fn = "hung_up" /\ e = c
    BY <1>1, <2>2 DEF Putting, After
  <2>6. PutAlone'
    BY <1>1, <2>2, <2>5 DEF PutAlone
  <2> QED BY <1>1, <2>2, <2>3, <2>4, <2>5, <2>6, <1>0, Begins
<1>2. ASSUME NEW k \in RoundCall, NEW m \in LaterCall, todo' = <<k, m>>,
             k.circuit = c, m.circuit = c, k.fn = "change_state",
             \/ k.to \in Up \ {"ready"} /\ m.fn = "went_online"
             \/ k.to \notin Up /\ m.fn \in {"hung_up", "not_dialled"}
      PROVE  DepsInv'
  <2>1. <<k, m>> \in Seq(RoundCall) /\ Tail(<<k, m>>) = <<m>> /\ Head(<<k, m>>) = k
        /\ <<k, m>> # <<>>
    BY LaterIsRound
  <2>2. OnStack' = {k, m}
    BY <1>2, ElemsFew DEF OnStack, Elems
  <2>3. StackFits'
    <3>1. <<m>> \in Seq(LaterCall)
      OBVIOUS
    <3>2. Ordered(<<k, m>>)
      BY <1>2, OrderedFew DEF MayPrecede
    <3> QED BY <1>2, <2>1, <3>1, <3>2 DEF StackFits, RoundCall, LaterCall
  <2>4. HeadFits'
    <3>1. Elems(Tail(todo')) = {m} /\ Head(todo') = k
      BY <1>2, <2>1, ElemsFew
    <3>2. k.to \notin Up => Putting(c)'
      BY <1>2, <2>2, AfterIs, LaterIsRound DEF Putting
    <3> QED BY <1>2, <3>1, <3>2 DEF HeadFits, Elems, Up
  <2>5. \A e \in Circuits : Putting(e)' => m.fn \in {"hung_up", "not_dialled"} /\ e = c
    BY <1>2, <2>2 DEF Putting, After
  <2>6. PutAlone'
    BY <1>2, <2>2, <2>5 DEF PutAlone
  <2>7. \A e \in Circuits : Putting(e)' => Dropping(e)'
    BY <1>2, <2>1, <2>5 DEF Dropping, Up
  <2>8. \A x \in OnStack' : x.fn \notin {"react", "dialled"}
    BY <1>2, <2>2
  <2> QED BY <1>0, <2>3, <2>4, <2>6, <2>7, <2>8, Begins
<1>3. CASE todo' = <<>>
  <2>1. OnStack' = {}
    BY <1>3, ElemsFew DEF OnStack, Elems
  <2>2. StackFits'
    BY <1>3, OrderedFew DEF StackFits, RoundCall, LaterCall
  <2>3. HeadFits'
    BY <1>3 DEF HeadFits
  <2>4. PutAlone' /\ \A e \in Circuits : ~Putting(e)'
    BY <2>1 DEF PutAlone, Putting
  <2> QED BY <1>0, <2>1, <2>2, <2>3, <2>4, Begins
<1>4. CASE todo' = <<FinalizeHangup(c)>>
  <2>1. FinalizeHangup(c).fn = "finalize_hangup" /\ FinalizeHangup(c).circuit = c
    BY DEF FinalizeHangup
  <2> QED BY <1>1, <1>4, <2>1, CallsMadeFit
<1>5. CASE state[c] \notin Up /\ todo' = <<After("hung_up", c)>>
  <2>1. After("hung_up", c).fn = "hung_up" /\ After("hung_up", c).circuit = c
    BY DEF After
  <2> QED BY <1>1, <1>5, <2>1, CallsMadeFit, LaterIsRound
<1>6. ASSUME NEW s \in State \ {"ready"}, s \in Up \/ state[c] \notin Up,
             todo' = <<ChangeState(c, s)>>
      PROVE  DepsInv'
  <2>1. ChangeState(c, s).fn = "change_state" /\ ChangeState(c, s).circuit = c
        /\ ChangeState(c, s).to = s
    BY DEF ChangeState
  <2> QED BY <1>1, <1>6, <2>1, CallsMadeFit
<1>7. ASSUME NEW s \in State, NEW what \in {"went_online", "hung_up", "not_dialled"},
             todo' = <<ChangeState(c, s), After(what, c)>>,
             \/ s \in Up \ {"ready"} /\ what = "went_online"
             \/ s \notin Up /\ what \in {"hung_up", "not_dialled"}
      PROVE  DepsInv'
  <2>1. /\ ChangeState(c, s).fn = "change_state" /\ ChangeState(c, s).circuit = c
        /\ ChangeState(c, s).to = s
        /\ After(what, c).fn = what /\ After(what, c).circuit = c
    BY DEF ChangeState, After
  <2>2. ChangeState(c, s) \in RoundCall /\ After(what, c) \in LaterCall
    BY CallsMadeFit
  <2> QED BY <1>2, <1>7, <2>1, <2>2
<1>8. CASE todo' = <<ChangeState(c, "online"), After("went_online", c)>>
  BY <1>7, <1>8 DEF State, Up
<1> QED BY <1>3, <1>4, <1>5, <1>6, <1>7, <1>8

LEMMA FinalizeHangupDeps == CircdInv /\ DepsInv /\ DoFinalizeHangup => DepsInv'
<1> SUFFICES ASSUME CircdInv, DepsInv, DoFinalizeHangup PROVE DepsInv'
  OBVIOUS
<1>1. PICK h : h = Head(todo)
  OBVIOUS
<1>2. PICK t : t = Tail(todo)
  OBVIOUS
<1>3. PICK c : c = h.circuit
  OBVIOUS
<1>4. PICK target : target = IF hangup_state[c] = "none" THEN "active" ELSE hangup_state[c]
  OBVIOUS
<1>5. /\ todo # <<>> /\ h.fn = "finalize_hangup" /\ UNCHANGED <<state, operation, modes>>
      /\ \/ todo' = <<>> \o t
         \/ todo' = <<After("hung_up", c)>> \o t /\ state[c] \in {"inactive", "failed", "active"}
         \/ todo' = <<ChangeState(c, target), After("hung_up", c)>> \o t
  BY <1>1, <1>2, <1>3, <1>4 DEF DoFinalizeHangup, Running, Run, circuit
<1>6. /\ h \in RoundCall /\ c \in Circuits /\ OnStack = {h} \cup Elems(t) /\ t \in Seq(LaterCall)
  BY <1>1, <1>2, <1>3, <1>5, OnTop
<1>7. Elems(t) = {}
  BY <1>1, <1>2, <1>5 DEF DepsInv, HeadFits
<1>8. t = <<>>
  <2>1. t # <<>> => Head(t) \in Elems(t)
    BY <1>6, ElemsIn
  <2> QED BY <1>7, <2>1
<1>9. target \in State \ Up
  <2>1. hangup_state[c] \in {"none", "active", "inactive", "failed"}
    BY <1>6 DEF CircdInv, TypeOK
  <2> QED BY <1>4, <2>1 DEF State, Up
<1>10. \/ todo' = <<>>
       \/ todo' = <<After("hung_up", c)>> /\ state[c] \notin Up
       \/ todo' = <<ChangeState(c, target), After("hung_up", c)>>
  <2>1. ChangeState(c, target) \in RoundCall /\ After("hung_up", c) \in RoundCall
    BY <1>6, <1>9, CallsMadeFit, LaterIsRound
  <2>2. \A q \in Seq(RoundCall) : q \o t = q
    BY <1>8, ConcatEmptySeq
  <2>3. <<>> \in Seq(RoundCall) /\ <<After("hung_up", c)>> \in Seq(RoundCall)
        /\ <<ChangeState(c, target), After("hung_up", c)>> \in Seq(RoundCall)
    BY <2>1
  <2> QED BY <1>5, <2>2, <2>3 DEF Up
<1>11. \A k \in OnStack : k.fn = "finalize_hangup"
  BY <1>5, <1>6, <1>7
<1> QED BY <1>5, <1>6, <1>9, <1>10, <1>11, BeginsWith

-----------------------------------------------------------------------------
(* Handlers *)

LEMMA ActivateDeps == CircdInv /\ DepsInv /\ HandleActivate => DepsInv'
<1> SUFFICES ASSUME CircdInv, DepsInv, HandleActivate PROVE DepsInv'
  OBVIOUS
<1>1. /\ Receives("activate") /\ todo = <<>> /\ UNCHANGED <<state, operation, modes>>
      /\ \/ state[Msg.circuit] \notin Up /\ todo' = <<ChangeState(Msg.circuit, "active")>>
         \/ todo' = <<>>
  BY DEF HandleActivate, Receives, circuit, Up
<1>2. Msg.circuit \in Circuits
  BY <1>1, Received, MessageTypes DEF CircdInv
<1>3. OnStack = {}
  BY <1>1, ElemsFew DEF OnStack
<1>4. "active" \in State \ {"ready"}
  BY DEF State
<1> QED BY <1>1, <1>2, <1>3, <1>4, BeginsWith

LEMMA HandleHangupDeps == CircdInv /\ DepsInv /\ HandleHangup => DepsInv'
<1> SUFFICES ASSUME CircdInv, DepsInv, HandleHangup PROVE DepsInv'
  OBVIOUS
<1>1. PICK type \in {"hangup", "deactivate", "fail"} : Receives(type)
  BY DEF HandleHangup
<1>2. PICK c : c = Msg.circuit
  OBVIOUS
<1>3. /\ todo = <<>> /\ UNCHANGED <<state, modes>>
      /\ \/ state[c] \in Up /\ CircuitHangup(c, Target(Msg.type)) /\ todo' = todo
         \/ todo' = <<FinalizeHangup(c)>> /\ UNCHANGED operation
  BY <1>1, <1>2 DEF HandleHangup, Receives
<1>4. c \in Circuits
  BY <1>1, <1>2, Received, MessageTypes DEF CircdInv
<1>5. OnStack = {}
  BY <1>3, ElemsFew DEF OnStack
<1>6. ASSUME NEW e \in Circuits
      PROVE  /\ operation[e] = "hangup" => operation'[e] = "hangup"
             /\ operation'[e] = "hangup" /\ operation[e] # "hangup" => state[e] \in Up
  BY <1>3, <1>4, HangsUp
<1>7. todo' = <<>> \/ todo' = <<FinalizeHangup(c)>>
  BY <1>3
<1> QED BY <1>3, <1>4, <1>5, <1>6, <1>7, BeginsWith

LEMMA ProtocolDeps == CircdInv /\ DepsInv /\ (HandleUp \/ HandleDown) => DepsInv'
<1> SUFFICES ASSUME CircdInv, DepsInv, HandleUp \/ HandleDown PROVE DepsInv'
  OBVIOUS
<1>1. PICK type \in {"up", "down"} : Receives(type)
  BY DEF HandleUp, HandleDown
<1>2. PICK c : c = Msg.circuit
  OBVIOUS
<1>3. /\ todo = <<>> /\ UNCHANGED <<state, operation, modes>>
      /\ \/ todo' = <<>>
         \/ todo' = <<FinalizeHangup(c)>>
         \/ todo' = <<ChangeState(c, "online"), After("went_online", c)>>
         \/ todo' = <<ChangeState(c, "semionline")>>
  BY <1>1, <1>2 DEF HandleUp, HandleDown, Receives
<1>4. c \in Circuits
  BY <1>1, <1>2, Received, MessageTypes DEF CircdInv
<1>5. OnStack = {}
  BY <1>3, ElemsFew DEF OnStack
<1>6. "semionline" \in State \ {"ready"} /\ "semionline" \in Up
  BY DEF State, Up
<1> QED BY <1>3, <1>4, <1>5, <1>6, BeginsWith

LEMMA FailedDeps == CircdInv /\ DepsInv /\ (HandleDialupFailed \/ HandleHangupFailed) => DepsInv'
<1> SUFFICES ASSUME CircdInv, DepsInv, HandleDialupFailed \/ HandleHangupFailed PROVE DepsInv'
  OBVIOUS
<1>1. PICK type \in {"dialup_failed", "hangup_failed"} : Receives(type)
  BY DEF HandleDialupFailed, HandleHangupFailed
<1>2. PICK c : c = Msg.circuit
  OBVIOUS
<1>3. /\ todo = <<>> /\ UNCHANGED <<state, operation, modes>>
      /\ \/ todo' = <<FinalizeHangup(c)>>
         \/ todo' = <<ChangeState(c, "active"), After("not_dialled", c)>>
  BY <1>1, <1>2 DEF HandleDialupFailed, HandleHangupFailed, Receives, circuit
<1>4. c \in Circuits
  BY <1>1, <1>2, Received, MessageTypes DEF CircdInv
<1>5. OnStack = {}
  BY <1>3, ElemsFew DEF OnStack
<1>6. "active" \in State \ Up
  BY DEF State, Up
<1> QED BY <1>3, <1>4, <1>5, <1>6, BeginsWith

LEMMA DaemonExitedDeps == CircdInv /\ DepsInv /\ HandleDaemonExited => DepsInv'
<1> SUFFICES ASSUME CircdInv, DepsInv, HandleDaemonExited PROVE DepsInv'
  OBVIOUS
<1>1. /\ todo = <<>> /\ UNCHANGED <<state, operation, modes>>
      /\ todo' = <<>> \/ \E c \in Circuits : todo' = <<FinalizeHangup(c)>>
  BY DEF HandleDaemonExited, Receives, circuit
<1>2. OnStack = {}
  BY <1>1, ElemsFew DEF OnStack
<1>3. CASE todo' = <<>>
  <2>1. todo' = todo
    BY <1>1, <1>3
  <2> QED BY <1>1, <2>1, SameDeps
<1>4. ASSUME NEW c \in Circuits, todo' = <<FinalizeHangup(c)>>
      PROVE  DepsInv'
  BY <1>1, <1>2, <1>4, BeginsWith
<1> QED BY <1>1, <1>3, <1>4

(* Handlers and processes that do not concern the circuits *)
LEMMA OthersDeps ==
  ASSUME DepsInv,
         \/ HandleGetMode
         \/ HandleStartDaemon \/ HandleStopDaemon \/ HandleChildExited \/ HandleStopService
         \/ \E c \in Circuits : Script(c)
         \/ \E d \in Daemons : Daemon(d)
         \/ \E m \in Commands : Send(m)
         \/ UNCHANGED vars
  PROVE  DepsInv'
<1>1. UNCHANGED <<circuit, modes, todo>>
  <2>1. CASE \/ HandleGetMode \/ HandleStartDaemon \/ HandleStopDaemon \/ HandleChildExited
             \/ HandleStopService
    BY <2>1 DEF HandleGetMode, HandleStartDaemon, HandleStopDaemon, HandleChildExited,
                HandleStopService
  <2>2. ASSUME NEW c \in Circuits, Script(c)
        PROVE  UNCHANGED <<circuit, modes, todo>>
    BY <2>2 DEF Script, QueueTakes, DialScript, DialAnswered, HangupScript
  <2>3. ASSUME NEW d \in Daemons, Daemon(d)
        PROVE  UNCHANGED <<circuit, modes, todo>>
    BY <2>3 DEF Daemon, DaemonExits, ProtocolUp, ProtocolDown
  <2>4. CASE \E m \in Commands : Send(m)
    BY <2>4 DEF Send
  <2>5. CASE UNCHANGED vars
    BY <2>5 DEF vars
  <2> QED BY <2>1, <2>2, <2>3, <2>4, <2>5
<1>2. UNCHANGED <<state, operation, modes, todo>>
  BY <1>1 DEF circuit
<1> QED BY <1>2, SameDeps

(* A circuit whose mode becomes "auto" is among those that are asked.      *)
LEMMA SetModeDeps == CircdInv /\ DepsInv /\ HandleSetMode => DepsInv'
<1> SUFFICES ASSUME CircdInv, DepsInv, HandleSetMode PROVE DepsInv'
  OBVIOUS
<1>1. todo = <<>> /\ UNCHANGED <<state, operation>>
  BY DEF HandleSetMode, Receives, circuit
<1>2. CASE UNCHANGED <<modes, todo>>
  BY <1>1, <1>2, SameDeps
<1>3. ASSUME todo' = ModeChanges([c \in Circuits |-> EffectiveMode(c)],
                                 [c \in Circuits |-> EffectiveMode(c)'])
      PROVE  DepsInv'
  <2>1. /\ Order \in Seq(Circuits) /\ \A i \in DOMAIN Order : Order[i] \in Circuits
        /\ DOMAIN Order = 1 .. Len(Order) /\ Len(Order) \in Nat
    BY CircdAssumption, LenProperties
  <2>2. TypeOK' /\ TypeOK
    BY SetModeInv DEF CircdInv
  <2>3. \A c \in Circuits : EffectiveMode(c) \in Mode /\ EffectiveMode(c)' \in Mode
    <3>1. \A c \in Circuits : EffectiveMode(c) \in Mode
      BY <2>2, EffectiveModeType
    <3>2. \A c \in Circuits : EffectiveMode(c)' \in Mode
      BY <2>2 DEF TypeOK, EffectiveMode, Smaller, Mode
    <3> QED BY <3>1, <3>2
  <2>4. /\ DOMAIN todo' = DOMAIN Order
        /\ \A i \in DOMAIN Order :
             todo'[i] = [fn |-> "mode_change", circuit |-> Order[i],
                         old |-> EffectiveMode(Order[i]), mode |-> EffectiveMode(Order[i])']
    BY <1>3, <2>1 DEF ModeChanges
  <2>5. \A i \in DOMAIN Order : todo'[i].fn = "mode_change" /\ todo'[i] \in LaterCall
    BY <2>1, <2>3, <2>4 DEF LaterCall, RoundCall, Call
  <2>6. todo' \in Seq(LaterCall)
    <3>1. todo' = [i \in 1 .. Len(Order) |-> todo'[i]]
      BY <1>3, <2>1 DEF ModeChanges
    <3> QED BY <2>1, <2>5, <3>1
  <2>7. \A k \in OnStack' : k.fn = "mode_change"
    BY <2>4, <2>5 DEF OnStack, Elems
  <2>8. StackFits'
    <3>1. todo' \in Seq(RoundCall) /\ (todo' # <<>> => Tail(todo') \in Seq(LaterCall))
      BY <2>6, LaterIsRound, HeadTailProperties
    <3>2. \A x, y : y.fn = "mode_change" => MayPrecede(x, y)
      BY DEF MayPrecede
    <3>3. Ordered(todo')
      BY <2>4, <2>5, <3>2 DEF Ordered
    <3> QED BY <3>1, <3>3 DEF StackFits, RoundCall, LaterCall
  <2>9. HeadFits'
    BY <2>6, LaterHead
  <2>10. \A e \in Circuits : ~Putting(e)' /\ ~Dialling(e)'
    BY <2>7 DEF Putting, Dialling, After
  <2>11. PutAlone'
    BY <2>10 DEF PutAlone
  <2>12. OnStack = {} /\ \A e \in Circuits : ~Putting(e)
    BY <1>1, ElemsFew DEF OnStack, Putting
  <2>13. Remembered'
    <3> SUFFICES ASSUME NEW x \in Circuits, state[x] = "active", EffectiveMode(x)' = "auto",
                        MetSoon(x)'
                 PROVE  \E k \in OnStack' : Attends(k, x)
      BY <1>1 DEF Remembered, Attends, Looks, WillDial, Dependents
    <3>1. MetSoon(x)
      BY <1>1, <2>10, DepsAre DEF MetSoon, Supported, Undisturbed
    <3>2. EffectiveMode(x) # "auto"
      BY <2>12, <3>1 DEF DepsInv, Remembered
    <3>3. PICK i \in DOMAIN Order : Order[i] = x
      BY InOrder
    <3>4. PICK k : k = todo'[i]
      OBVIOUS
    <3>5. k \in OnStack'
      BY <2>4, <3>4 DEF OnStack, Elems
    <3>6. Attends(k, x)
      BY <2>4, <3>2, <3>3, <3>4 DEF Attends, WillDial
    <3> QED BY <3>5, <3>6
  <2> QED BY <1>1, <2>7, <2>8, <2>9, <2>10, <2>11, <2>12, <2>13, Begins
<1> QED BY <1>2, <1>3 DEF HandleSetMode

-----------------------------------------------------------------------------
(* A change of a circuit's state *)

(* circd_change_state finds the circuit in the state it is to be in.       *)
LEMMA NoChangeDeps ==
  ASSUME CircdInv, DepsInv, todo # <<>>, Head(todo).fn = "change_state",
         state[Head(todo).circuit] = Head(todo).to,
         NEW stop, stop = <<>> \/ stop = <<After("stop_queue", Head(todo).circuit)>>,
         Run(stop), UNCHANGED <<state, operation, modes>>
  PROVE  DepsInv'
<1>1. PICK h : h = Head(todo)
  OBVIOUS
<1>2. PICK t : t = Tail(todo)
  OBVIOUS
<1>3. PICK c : c = h.circuit
  OBVIOUS
<1>4. /\ h \in RoundCall /\ c \in Circuits /\ t \in Seq(LaterCall) /\ Ordered(t)
      /\ Elems(t) \subseteq LaterCall /\ OnStack = {h} \cup Elems(t)
      /\ h.fn = "change_state" /\ state[c] = h.to /\ todo' = stop \o t
      /\ stop = <<>> \/ stop = <<After("stop_queue", c)>>
  BY <1>1, <1>2, <1>3, OnTop DEF Run
<1>5. /\ h.to # "ready"
      /\ \A k \in Elems(t) : /\ k.circuit = c
                             /\ k.fn \in (IF h.to \in Up THEN {"went_online"}
                                          ELSE {"hung_up", "not_dialled"})
  BY <1>1, <1>2, <1>3, <1>4 DEF DepsInv, HeadFits
<1>6. /\ stop \in Seq(LaterCall) /\ Ordered(stop)
      /\ \A k \in Elems(stop) : k.fn = "stop_queue"
  <2>1. After("stop_queue", c) \in LaterCall /\ After("stop_queue", c).fn = "stop_queue"
    BY <1>4, CallsMadeFit DEF After
  <2>2. <<>> \in Seq(LaterCall) /\ <<After("stop_queue", c)>> \in Seq(LaterCall)
    BY <2>1
  <2>3. PICK a : a = After("stop_queue", c)
    OBVIOUS
  <2>4. CASE stop = <<>>
    BY <2>2, <2>4, ElemsFew, OrderedFew
  <2>5. CASE stop = <<a>>
    <3>1. Elems(stop) = {a} /\ Ordered(stop)
      BY <2>5, ElemsFew, OrderedFew
    <3> QED BY <2>1, <2>2, <2>3, <2>5, <3>1
  <2> QED BY <1>4, <2>3, <2>4, <2>5
<1>7. StackFits' /\ OnStack' = Elems(stop) \cup Elems(t)
  <2>1. stop \in Seq(RoundCall) /\ (stop # <<>> => Tail(stop) \in Seq(LaterCall))
    BY <1>6, LaterIsRound, HeadTailProperties
  <2>2. \A x \in Elems(stop) : \A y \in Elems(t) : MayPrecede(x, y)
    BY <1>5, <1>6 DEF MayPrecede
  <2> QED BY <1>4, <1>6, <2>1, <2>2, PutOn
<1>8. HeadFits'
  <2>1. stop \o t \in Seq(LaterCall)
    BY <1>4, <1>6, ConcatProperties
  <2> QED BY <1>4, <2>1, LaterHead
<1>9. \A e \in Circuits : /\ Putting(e)' <=> Putting(e)
                          /\ Putting(e) => e = c /\ h.to \notin Up
  <2>1. \A e : /\ After("hung_up", e) \notin {h} \cup Elems(stop)
               /\ After("not_dialled", e) \notin {h} \cup Elems(stop)
               /\ After("hung_up", e).circuit = e /\ After("hung_up", e).fn = "hung_up"
               /\ After("not_dialled", e).circuit = e /\ After("not_dialled", e).fn = "not_dialled"
    BY <1>4, <1>6 DEF After
  <2>2. \A e \in Circuits : Putting(e)' <=> Putting(e)
    BY <1>4, <1>7, <2>1 DEF Putting
  <2>3. \A e \in Circuits : Putting(e) => e = c /\ h.to \notin Up
    BY <1>4, <1>5, <2>1 DEF Putting
  <2> QED BY <2>2, <2>3
<1>10. PutAlone'
  BY <1>5, <1>6, <1>7, <1>9 DEF PutAlone
<1>11. \A k \in OnStack : /\ k.fn \notin {"react", "dialled", "mode_change"}
                          /\ k.fn = "change_state" => k.to # "ready"
  BY <1>4, <1>5
<1>12. \A k \in OnStack' : k.fn \notin {"react", "dialled"}
  BY <1>5, <1>6, <1>7
<1> QED BY <1>4, <1>7, <1>8, <1>9, <1>10, <1>11, <1>12, Begins

(* The first round of a loop                                               *)
LEMMA FirstRound ==
  ASSUME NEW c \in Circuits, NEW new \in State, NEW r, r = React(c, c, new, 0)
  PROVE  /\ r \in RoundCall /\ r.fn = "react" /\ r.circuit = c /\ r.changed = c
         /\ r.to = new /\ r.position = 0
         /\ Looks(r, c) /\ \A x \in Dependents(c) : Looks(r, x)
<1>1. /\ r.fn = "react" /\ r.circuit = c /\ r.changed = c /\ r.to = new /\ r.position = 0
  BY DEF React
<1>2. r \in RoundCall
  BY <1>1 DEF RoundCall, Call, React
<1>3. ASSUME NEW x \in Dependents(c)
      PROVE  Looks(r, x)
  <2>1. PICK j \in DOMAIN Order : Order[j] = x /\ j \in Nat
    BY InOrder DEF Dependents
  <2> QED BY <1>1, <1>3, <2>1 DEF Looks
<1> QED BY <1>1, <1>2, <1>3 DEF Looks

(* Only what depends on a circuit can gain or lose by its change. *)
LEMMA OthersSupported ==
  ASSUME NEW c \in Circuits, \A e \in Circuits : e # c => state'[e] = state[e],
         NEW x \in Circuits, x \notin Dependents(c)
  PROVE  Supported(x)' <=> Supported(x)
<1>1. /\ \A d \in Deps[x] : d[1] # c
      /\ \A d \in WeakDeps[x] : d # c
  BY DEF Dependents
<1> QED BY <1>1, DepsAre DEF Supported

(* A circuit becomes ready, and will be dialled. *)
LEMMA ReadyDeps ==
  ASSUME CircdInv, DepsInv, todo # <<>>, Head(todo).fn = "change_state",
         NEW c, c = Head(todo).circuit, Head(todo).to = "ready",
         state' = [state EXCEPT ![c] = "ready"],
         todo' = <<React(c, c, "ready", 0)>> \o Tail(todo), UNCHANGED <<operation, modes>>
  PROVE  DepsInv'
<1>1. PICK h : h = Head(todo)
  OBVIOUS
<1>2. PICK t : t = Tail(todo)
  OBVIOUS
<1>3. PICK r : r = React(c, c, "ready", 0)
  OBVIOUS
<1>4. /\ h \in RoundCall /\ c \in Circuits /\ t \in Seq(LaterCall) /\ Ordered(t)
      /\ Elems(t) \subseteq LaterCall /\ OnStack = {h} \cup Elems(t)
      /\ h.fn = "change_state" /\ h.circuit = c /\ h.to = "ready"
      /\ todo' = <<r>> \o t /\ LooksAgain(t, operation)
  BY <1>1, <1>2, <1>3, OnTop
<1>5. state[c] = "active" /\ Dialling(c) /\ Kept(c)
  BY <1>1, <1>4 DEF DepsInv, HeadFits
<1>6. Supported(c) /\ c \notin Dependents(c)
  BY <1>4, <1>5 DEF DepsInv, DialsSupported
<1>7. /\ r \in RoundCall /\ r.fn = "react" /\ r.circuit = c /\ r.changed = c
      /\ r.to = "ready" /\ r.position = 0
      /\ Looks(r, c) /\ \A x \in Dependents(c) : Looks(r, x)
  BY <1>3, <1>4, FirstRound DEF State
<1>8. \A e \in Circuits : Dialling(e) => e \notin Dependents(c)
  <2>1. \A e \in Circuits : Dialling(e) => Supported(e)
    BY DEF DepsInv, DialsSupported
  <2> QED BY <1>4, <1>5, <2>1, SupportUp DEF Up
<1>9. \A k \in Elems(t) : MayPrecede(r, k)
  <2> SUFFICES ASSUME NEW k \in Elems(t), k.fn = "dialled"
               PROVE  k.circuit \notin Dependents(c)
    BY <1>7 DEF MayPrecede
  <2>1. k = After("dialled", k.circuit) /\ k.circuit \in Circuits
    BY <1>4, AfterIs, LaterIsRound
  <2> QED BY <1>4, <1>8, <2>1 DEF Dialling
<1>10. /\ StackFits' /\ OnStack' = {r} \cup Elems(t)
       /\ todo' # <<>> /\ Head(todo') = r
  <2>1. <<r>> \in Seq(RoundCall) /\ <<r>> # <<>> /\ Head(<<r>>) = r /\ Tail(<<r>>) = <<>>
    BY <1>7
  <2>2. <<>> \in Seq(LaterCall)
    OBVIOUS
  <2>3. Elems(<<r>>) = {r} /\ Ordered(<<r>>)
    BY ElemsFew, OrderedFew
  <2>4. PICK q : q = <<r>>
    OBVIOUS
  <2>5. /\ q \in Seq(RoundCall) /\ q # <<>> /\ Head(q) = r /\ Tail(q) \in Seq(LaterCall)
        /\ Elems(q) = {r} /\ Ordered(q) /\ todo' = q \o t
    BY <1>4, <2>1, <2>2, <2>3, <2>4
  <2>6. \A x \in Elems(q) : \A y \in Elems(t) : MayPrecede(x, y)
    BY <1>9, <2>5
  <2> QED BY <1>4, <2>5, <2>6, PutOn
<1>11. state \in [Circuits -> State]
  BY DEF CircdInv, TypeOK
<1>12. /\ state'[c] = "ready" /\ \A e \in Circuits : e # c => state'[e] = state[e]
       /\ operation' = operation
  BY <1>4, <1>11
<1>13. \A e \in Circuits : /\ Dialling(e)' <=> Dialling(e)
                           /\ Putting(e)' <=> Putting(e)
  <2>1. \A e : /\ After("hung_up", e) \notin {h, r}
               /\ After("not_dialled", e) \notin {h, r}
               /\ After("dialled", e) \notin {h, r}
    BY <1>4, <1>7 DEF After
  <2> QED BY <1>4, <1>10, <2>1 DEF Putting, Dialling
<1>14. \A e \in Circuits : Undisturbed(e)' <=> Undisturbed(e)
  BY <1>12, <1>13 DEF Undisturbed
<1>15. \A e \in Circuits : /\ Supported(e) => Supported(e)'
                           /\ Supported(e)' /\ ~Supported(e) => e \in Dependents(c)
  <2>1. \A e \in Circuits : Supported(e)' /\ ~Supported(e) => e \in Dependents(c)
    BY <1>4, <1>12, OthersSupported
  <2>2. \A e \in Circuits : Supported(e) => e \notin Dependents(c)
    BY <1>5, SupportUp DEF Up
  <2>3. \A e \in Circuits : Supported(e) => Supported(e)'
    BY <1>4, <1>12, <2>2, OthersSupported
  <2> QED BY <2>1, <2>3
<1>16. \A e \in Circuits : EffectiveMode(e)' = EffectiveMode(e)
  BY DEF EffectiveMode, modes
<1>17. RoundsCurrent'
  <2> SUFFICES ASSUME NEW k \in OnStack', k.fn = "react", k.changed \in Dependents(k.changed)
               PROVE  state'[k.changed] = k.to
    BY DEF RoundsCurrent, Dependents
  <2>1. k \in Elems(t) /\ k.changed # c /\ k.changed \in Circuits
    BY <1>6, <1>7, <1>10 DEF Dependents
  <2> QED BY <1>4, <1>12, <2>1 DEF DepsInv, RoundsCurrent
<1>18. PutAlone'
  BY <1>4, <1>7, <1>10, <1>13 DEF DepsInv, PutAlone
<1>19. HeadFits'
  <2>1. Kept(c)'
    BY <1>4, <1>5, <1>6, <1>12, <1>15 DEF Kept
  <2> QED BY <1>5, <1>7, <1>10, <1>12, <1>13, <1>4, <2>1 DEF HeadFits
<1>20. DialsSupported'
  <2> SUFFICES ASSUME NEW x \in Circuits, Dialling(x)
               PROVE  Supported(x)' /\ x \notin Dependents(x) /\ state'[x] = "ready"
    BY <1>13 DEF DialsSupported, Dependents
  <2>1. /\ Supported(x) /\ x \notin Dependents(x)
        /\ state[x] = "ready" \/ Head(todo) = ChangeState(x, "ready")
    BY DEF DepsInv, DialsSupported
  <2>2. Head(todo) = ChangeState(x, "ready") => x = c
    BY <1>1, <1>4 DEF ChangeState
  <2> QED BY <1>12, <1>15, <2>1, <2>2
<1>21. PutsKept'
  <2> SUFFICES ASSUME NEW e \in Circuits, Putting(e)
               PROVE  /\ state'[e] \in Up
                      /\ Supported(e)' /\ Undisturbed(e)'
                      /\ \A k \in OnStack' : k.fn = "react" => e \notin Dependents(k.changed)
    BY <1>13 DEF PutsKept, Dependents
  <2>1. ~Dropping(e)
    BY <1>1, <1>4 DEF Dropping, Up
  <2>2. /\ state[e] \notin Up =>
             /\ \A k \in OnStack : k.fn = "react" => k.changed = e
             /\ \A x \in Circuits : Dialling(x) => x = e
        /\ state[e] \in Up =>
             /\ Supported(e) /\ Undisturbed(e)
             /\ \A k \in OnStack : k.fn = "react" => e \notin Dependents(k.changed)
    BY <2>1 DEF DepsInv, PutsKept
  <2>3. CASE e = c
    <3>1. state[c] \notin Up
      BY <1>5 DEF Up
    <3>2. \A k \in OnStack' : k.fn = "react" => k.changed = c
      BY <1>4, <1>7, <1>10, <2>2, <2>3, <3>1
    <3> QED BY <1>5, <1>6, <1>12, <1>13, <1>15, <2>3, <3>2 DEF Undisturbed, Up
  <2>4. CASE e # c
    <3>1. state[e] \in Up
      BY <1>4, <1>5, <2>2, <2>4
    <3>2. e \notin Dependents(c)
      BY <1>5, <2>2, <3>1, SupportUp DEF Up
    <3> QED BY <1>4, <1>7, <1>10, <1>12, <1>14, <1>15, <2>2, <2>4, <3>1, <3>2
  <2> QED BY <2>3, <2>4
<1>22. HangupsEnd'
  <2> SUFFICES ASSUME NEW e \in Circuits, operation[e] = "hangup", state'[e] \notin Up
               PROVE  Putting(e)
    BY <1>12, <1>13 DEF HangupsEnd
  <2>1. e # c
    BY <1>12 DEF Up
  <2> QED BY <1>12, <2>1 DEF DepsInv, HangupsEnd
<1>23. LooksAgain(todo, operation)'
  <2>1. <<r>> \in Seq(RoundCall) /\ t \in Seq(RoundCall)
    BY <1>4, <1>7, LaterIsRound
  <2>2. Elems(<<r>>) = {r}
    BY ElemsFew
  <2>3. \A k \in Elems(<<r>>) : k.fn # "dialled"
    BY <1>7, <2>2
  <2>4. LooksAgain(<<r>> \o t, operation)
    BY <1>4, <2>1, <2>3, LooksAgainJoined
  <2> QED BY <1>4, <1>12, <2>4
<1>24. Honoured'
  <2> SUFFICES ASSUME NEW x \in Circuits, state'[x] \in Up, ~Supported(x)', operation[x] # "hangup"
               PROVE  \E k \in OnStack' : Looks(k, x)
    BY <1>12 DEF Honoured, Looks, Dependents
  <2>1. ~Supported(x) /\ x # c /\ state[x] \in Up
    BY <1>6, <1>12, <1>15
  <2>2. PICK k \in OnStack : Looks(k, x)
    BY <2>1 DEF DepsInv, Honoured
  <2>3. k # h
    BY <1>4, <2>2 DEF Looks
  <2> QED BY <1>4, <1>10, <2>2, <2>3
<1>25. Remembered'
  <2> SUFFICES ASSUME NEW x \in Circuits, state'[x] = "active", EffectiveMode(x) = "auto", MetSoon(x)'
               PROVE  \E k \in OnStack' : Attends(k, x)
    BY <1>16 DEF Remembered, Attends, Looks, WillDial, Dependents
  <2>1. x # c /\ state[x] = "active"
    BY <1>12
  <2>2. CASE Supported(x)
    <3>1. MetSoon(x)
      BY <1>14, <2>2, DepsAre DEF MetSoon
    <3>2. PICK k \in OnStack : Attends(k, x)
      BY <2>1, <3>1 DEF DepsInv, Remembered
    <3>3. k # h
      BY <1>4, <2>1, <3>2 DEF Attends, Looks, WillDial, ChangeState
    <3> QED BY <1>4, <1>10, <3>2, <3>3
  <2>3. CASE ~Supported(x)
    <3>1. x \in Dependents(c)
      BY <1>15, <2>3 DEF MetSoon
    <3> QED BY <1>7, <1>10, <3>1 DEF Attends
  <2> QED BY <2>2, <2>3
<1> QED BY <1>10, <1>17, <1>18, <1>19, <1>20, <1>21, <1>22, <1>23, <1>24, <1>25 DEF DepsInv

(* A circuit reaches another state; what depends on it is looked at next. *)
LEMMA OtherStateDeps ==
  ASSUME CircdInv, DepsInv, todo # <<>>, Head(todo).fn = "change_state",
         NEW c, c = Head(todo).circuit, NEW new, new = Head(todo).to, new # "ready",
         state' = [state EXCEPT ![c] = new],
         NEW stop, stop = <<>> \/ stop = <<After("stop_queue", c)>>,
         todo' = (<<React(c, c, new, 0)>> \o stop) \o Tail(todo), UNCHANGED <<operation, modes>>
  PROVE  DepsInv'
<1>1. PICK h : h = Head(todo)
  OBVIOUS
<1>2. PICK t : t = Tail(todo)
  OBVIOUS
<1>3. PICK r : r = React(c, c, new, 0)
  OBVIOUS
<1>4. /\ h \in RoundCall /\ c \in Circuits /\ t \in Seq(LaterCall) /\ Ordered(t)
      /\ Elems(t) \subseteq LaterCall /\ OnStack = {h} \cup Elems(t)
      /\ h.fn = "change_state" /\ h.circuit = c /\ h.to = new /\ new \in State
      /\ todo' = (<<r>> \o stop) \o t
  <2>1. /\ h \in RoundCall /\ h.circuit \in Circuits /\ t \in Seq(LaterCall) /\ Ordered(t)
        /\ Elems(t) \subseteq LaterCall /\ OnStack = {h} \cup Elems(t)
    BY <1>1, <1>2, OnTop
  <2>2. h.to \in State
    BY <1>1, <2>1, CallIs DEF RoundCall
  <2> QED BY <1>1, <1>2, <1>3, <2>1, <2>2
<1>5. /\ \A k \in Elems(t) : /\ k.circuit = c
                             /\ k.fn \in (IF new \in Up THEN {"went_online"}
                                          ELSE {"hung_up", "not_dialled"})
      /\ new \notin Up /\ state[c] \in Up => Putting(c)
  BY <1>1, <1>2, <1>4 DEF DepsInv, HeadFits
<1>6. /\ r \in RoundCall /\ r.fn = "react" /\ r.circuit = c /\ r.changed = c
      /\ r.to = new /\ r.position = 0
      /\ Looks(r, c) /\ \A x \in Dependents(c) : Looks(r, x)
  BY <1>3, <1>4, FirstRound
<1>7. /\ stop \in Seq(LaterCall) /\ Ordered(stop)
      /\ \A k \in Elems(stop) : k.fn = "stop_queue"
  <2>1. After("stop_queue", c) \in LaterCall /\ After("stop_queue", c).fn = "stop_queue"
    BY <1>4, CallsMadeFit DEF After
  <2>2. <<>> \in Seq(LaterCall) /\ <<After("stop_queue", c)>> \in Seq(LaterCall)
    BY <2>1
  <2>3. PICK a : a = After("stop_queue", c)
    OBVIOUS
  <2>4. CASE stop = <<>>
    BY <2>2, <2>4, ElemsFew, OrderedFew
  <2>5. CASE stop = <<a>>
    <3>1. Elems(stop) = {a} /\ Ordered(stop)
      BY <2>5, ElemsFew, OrderedFew
    <3> QED BY <2>1, <2>2, <2>3, <2>5, <3>1
  <2> QED BY <2>3, <2>4, <2>5
<1>8. PICK u : u = stop \o t
  OBVIOUS
<1>9. u \in Seq(LaterCall) /\ Elems(u) = Elems(stop) \cup Elems(t)
  BY <1>4, <1>7, <1>8, ConcatProperties, ElemsJoined
<1>10. \A k \in Elems(u) : \/ k.fn = "stop_queue"
                           \/ k \in Elems(t) /\ k.circuit = c
                              /\ k.fn \in (IF new \in Up THEN {"went_online"}
                                           ELSE {"hung_up", "not_dialled"})
  BY <1>5, <1>7, <1>9
<1>11. Ordered(u)
  <2>1. \A i \in DOMAIN u : u[i].fn # "dialled"
    BY <1>10 DEF Elems
  <2> QED BY <2>1 DEF Ordered, MayPrecede
<1>12. /\ StackFits' /\ OnStack' = {r} \cup Elems(u)
       /\ todo' # <<>> /\ Head(todo') = r
  <2>1. <<r>> \in Seq(RoundCall) /\ <<r>> # <<>> /\ Head(<<r>>) = r /\ Tail(<<r>>) = <<>>
    BY <1>6
  <2>2. <<>> \in Seq(LaterCall)
    OBVIOUS
  <2>3. Elems(<<r>>) = {r} /\ Ordered(<<r>>)
    BY ElemsFew, OrderedFew
  <2>4. PICK q : q = <<r>>
    OBVIOUS
  <2>5. /\ q \in Seq(RoundCall) /\ q # <<>> /\ Head(q) = r /\ Tail(q) \in Seq(LaterCall)
        /\ Elems(q) = {r} /\ Ordered(q) /\ todo' = (q \o stop) \o t
    BY <1>4, <2>1, <2>2, <2>3, <2>4
  <2>6. todo' = q \o u
    <3>1. stop \in Seq(RoundCall) /\ t \in Seq(RoundCall)
      BY <1>4, <1>7, LaterIsRound
    <3>2. (q \o stop) \o t = q \o (stop \o t)
      <4>1. q \in Seq(RoundCall)
        BY <2>5
      <4> QED BY <3>1, <4>1, Regrouped
    <3> QED BY <1>8, <2>5, <3>2
  <2>7. \A x \in Elems(q) : \A y \in Elems(u) : MayPrecede(x, y)
    BY <1>10 DEF MayPrecede
  <2>8. u \in Seq(LaterCall)
    BY <1>9
  <2> QED BY <1>11, <2>5, <2>6, <2>7, <2>8, PutOn
<1>13. state \in [Circuits -> State]
  BY DEF CircdInv, TypeOK
<1>14. /\ state'[c] = new /\ \A e \in Circuits : e # c => state'[e] = state[e]
       /\ operation' = operation
  BY <1>4, <1>13
<1>15. \A e \in Circuits : /\ Putting(e)' <=> Putting(e)
                           /\ Putting(e) => e = c /\ new \notin Up
                           /\ ~Dialling(e) /\ ~Dialling(e)'
  <2>1. \A e : /\ After("hung_up", e) \notin {h, r}
               /\ After("not_dialled", e) \notin {h, r}
               /\ After("dialled", e) \notin {h, r}
               /\ After("dialled", e).fn = "dialled"
               /\ After("hung_up", e).circuit = e /\ After("hung_up", e).fn = "hung_up"
               /\ After("not_dialled", e).circuit = e /\ After("not_dialled", e).fn = "not_dialled"
    BY <1>4, <1>6 DEF After
  <2>2. /\ OnStack = {h} \cup Elems(t) /\ OnStack' = ({r} \cup Elems(stop)) \cup Elems(t)
        /\ \A k \in Elems(stop) : k.fn = "stop_queue"
    BY <1>4, <1>7, <1>9, <1>12
  <2>3. \A e \in Circuits : Putting(e)' <=> Putting(e)
    BY <2>1, <2>2 DEF Putting
  <2>4. \A e \in Circuits : Putting(e) => e = c /\ new \notin Up
    BY <1>5, <2>1, <2>2 DEF Putting
  <2>5. \A e \in Circuits : ~Dialling(e) /\ ~Dialling(e)'
    BY <1>5, <2>1, <2>2 DEF Dialling
  <2> QED BY <2>3, <2>4, <2>5
<1>16. \A e \in Circuits : Undisturbed(e)' <=> Undisturbed(e)
  BY <1>14, <1>15 DEF Undisturbed
<1>17. \A e \in Circuits : e \notin Dependents(c) => (Supported(e)' <=> Supported(e))
  BY <1>4, <1>14, OthersSupported
<1>18. \A e \in Circuits : EffectiveMode(e)' = EffectiveMode(e)
  BY DEF EffectiveMode, modes
<1>19. \A k \in OnStack : \A x \in Circuits : ~Attends(k, x) /\ ~Looks(k, x)
  <2>1. \A x \in Circuits : ~Attends(h, x)
    BY <1>4 DEF Attends, Looks, WillDial, ChangeState
  <2>2. ASSUME NEW k \in Elems(t), NEW x \in Circuits
        PROVE  ~Attends(k, x)
    <3>1. k.fn \in {"went_online", "hung_up", "not_dialled"}
      BY <1>5
    <3> QED BY <3>1 DEF Attends, Looks, WillDial, ChangeState
  <2> QED BY <1>4, <2>1, <2>2 DEF Attends
<1>20. RoundsCurrent'
  BY <1>6, <1>10, <1>12, <1>14 DEF RoundsCurrent
<1>21. PutAlone'
  <2>1. \A e \in Circuits : Putting(e)' => e = c /\ new \notin Up
    BY <1>15
  <2> QED BY <1>6, <1>10, <1>12, <2>1 DEF PutAlone
<1>22. HeadFits'
  <2>1. new \in Up => \A e \in Circuits : ~Putting(e)'
    BY <1>15
  <2>2. ~Dialling(c)'
    BY <1>4, <1>15
  <2> QED BY <1>6, <1>12, <1>14, <2>1, <2>2 DEF HeadFits
<1>23. DialsSupported'
  BY <1>15 DEF DialsSupported
<1>24. PutsKept'
  <2>1. \A e \in Circuits : Putting(e)' => e = c /\ new \notin Up
    BY <1>15
  <2>2. \A k \in OnStack' : k.fn = "react" => k.changed = c
    BY <1>6, <1>10, <1>12
  <2> QED BY <1>14, <1>15, <2>1, <2>2 DEF PutsKept
<1>25. HangupsEnd'
  <2> SUFFICES ASSUME NEW e \in Circuits, operation[e] = "hangup", state'[e] \notin Up
               PROVE  Putting(e)
    BY <1>14, <1>15 DEF HangupsEnd
  <2>1. CASE state[e] \notin Up
    BY <2>1 DEF DepsInv, HangupsEnd
  <2>2. CASE state[e] \in Up
    BY <1>5, <1>14, <2>2
  <2> QED BY <2>1, <2>2
<1>26. LooksAgain(todo, operation)'
  <2>1. \A k \in Elems(todo') : k.fn # "dialled"
    BY <1>6, <1>10, <1>12 DEF OnStack, Elems
  <2> QED BY <2>1, NothingAgain
<1>27. Honoured'
  <2> SUFFICES ASSUME NEW x \in Circuits, state'[x] \in Up, ~Supported(x)', operation[x] # "hangup"
               PROVE  \E k \in OnStack' : Looks(k, x)
    BY <1>14 DEF Honoured, Looks, Dependents
  <2>1. CASE x = c \/ x \in Dependents(c)
    BY <1>6, <1>12, <2>1
  <2>2. CASE x # c /\ x \notin Dependents(c)
    <3>1. state[x] \in Up /\ ~Supported(x)
      BY <1>14, <1>17, <2>2
    <3> QED BY <1>19, <3>1 DEF DepsInv, Honoured
  <2> QED BY <2>1, <2>2
<1>28. Remembered'
  <2> SUFFICES ASSUME NEW x \in Circuits, state'[x] = "active", EffectiveMode(x) = "auto", MetSoon(x)'
               PROVE  \E k \in OnStack' : Attends(k, x)
    BY <1>18 DEF Remembered, Attends, Looks, WillDial, Dependents
  <2>1. CASE x = c \/ x \in Dependents(c)
    BY <1>6, <1>12, <2>1 DEF Attends
  <2>2. CASE x # c /\ x \notin Dependents(c)
    <3>1. state[x] = "active" /\ Supported(x)
      BY <1>14, <1>17, <2>2 DEF MetSoon
    <3>2. MetSoon(x)
      BY <1>16, <3>1, DepsAre DEF MetSoon
    <3> QED BY <1>19, <3>1, <3>2 DEF DepsInv, Remembered
  <2> QED BY <2>1, <2>2
<1> QED BY <1>12, <1>20, <1>21, <1>22, <1>23, <1>24, <1>25, <1>26, <1>27, <1>28 DEF DepsInv

LEMMA ChangeStateDeps == CircdInv /\ DepsInv /\ DoChangeState => DepsInv'
<1> SUFFICES ASSUME CircdInv, DepsInv, DoChangeState PROVE DepsInv'
  OBVIOUS
<1>1. PICK c : c = Head(todo).circuit
  OBVIOUS
<1>2. PICK new : new = Head(todo).to
  OBVIOUS
<1>3. PICK stop : stop = IF shutting_down /\ new \in {"inactive", "failed"}
                         THEN <<After("stop_queue", c)>> ELSE <<>>
  OBVIOUS
<1>4. /\ todo # <<>> /\ Head(todo).fn = "change_state" /\ UNCHANGED <<operation, modes>>
      /\ \/ state[c] = new /\ Run(stop) /\ UNCHANGED state
         \/ state' = [state EXCEPT ![c] = new] /\ Run(<<React(c, c, new, 0)>> \o stop)
  BY <1>1, <1>2, <1>3 DEF DoChangeState, Running
<1>5. CASE state[c] = new /\ Run(stop) /\ UNCHANGED state
  BY <1>1, <1>2, <1>3, <1>4, <1>5, NoChangeDeps
<1>6. CASE /\ state' = [state EXCEPT ![c] = new] /\ Run(<<React(c, c, new, 0)>> \o stop)
           /\ new # "ready"
  BY <1>1, <1>2, <1>3, <1>4, <1>6, OtherStateDeps DEF Run
<1>7. CASE /\ state' = [state EXCEPT ![c] = new] /\ Run(<<React(c, c, new, 0)>> \o stop)
           /\ new = "ready"
  <2>1. stop = <<>>
    BY <1>3, <1>7
  <2>2. React(c, c, new, 0) \in RoundCall
    <3>1. c \in Circuits
      BY <1>1, <1>4, OnTop
    <3> QED BY <1>7, <3>1, FirstRound DEF State
  <2>3. <<React(c, c, new, 0)>> \o stop = <<React(c, c, new, 0)>>
    BY <2>1, <2>2
  <2> QED BY <1>1, <1>2, <1>4, <1>7, <2>3, ReadyDeps DEF Run
<1> QED BY <1>4, <1>5, <1>6, <1>7

-----------------------------------------------------------------------------
(* Dependencies are honoured, and no circuit is forgotten. *)

LEMMA InitDeps == Init => DepsInv
<1> SUFFICES ASSUME Init PROVE DepsInv
  OBVIOUS
<1>1. todo = <<>> /\ OnStack = {}
  BY ElemsFew DEF Init, OnStack
<1>2. \A c \in Circuits : /\ state[c] \in {"active", "inactive"} /\ operation[c] = "none"
                          /\ ~Dialling(c) /\ ~Putting(c)
  BY <1>1 DEF Init, Dialling, Putting
<1>3. StackFits
  BY <1>1, OrderedFew DEF StackFits, RoundCall, LaterCall
<1>4. RoundsCurrent /\ PutAlone /\ HeadFits
  BY <1>1, <1>2 DEF RoundsCurrent, PutAlone, HeadFits
<1>5. DialsSupported /\ PutsKept /\ HangupsEnd
  BY <1>2 DEF DialsSupported, PutsKept, HangupsEnd
<1>6. LooksAgain(todo, operation)
  BY <1>1 DEF LooksAgain
<1>7. Honoured
  BY <1>2 DEF Honoured, Up
<1>8. Remembered
  <2>1. ASSUME NEW c \in Circuits, state[c] = "active", EffectiveMode(c) = "auto"
        PROVE  FALSE
    <3>1. c \in UpAtBoot
      BY <2>1 DEF Init
    <3>2. global_mode \in {"off", "manual"} /\ local_mode[c] = "auto"
      BY <3>1, CircdAssumption DEF Init, Mode
    <3> QED BY <2>1, <3>2 DEF EffectiveMode, Smaller
  <2> QED BY <2>1 DEF Remembered
<1> QED BY <1>3, <1>4, <1>5, <1>6, <1>7, <1>8 DEF DepsInv

LEMMA NextDeps == CircdInv /\ DepsInv /\ WholeCircuits /\ [Next]_vars => DepsInv'
<1> SUFFICES ASSUME CircdInv, DepsInv, WholeCircuits, [Next]_vars PROVE DepsInv'
  OBVIOUS
<1>1. CASE CircdCall
  BY <1>1, ChangeStateDeps, ReactDeps, ModeChangeDeps, DialledDeps, FinalizeHangupDeps, PutDeps,
     WentOnlineDeps, StopQueueDeps DEF CircdCall
<1>2. CASE CircdHandler
  BY <1>2, ActivateDeps, DialupDeps, HandleHangupDeps, SetModeDeps, ProtocolDeps, FailedDeps,
     DaemonExitedDeps, OthersDeps DEF CircdHandler
<1>3. CASE \/ \E c \in Circuits : Script(c)
           \/ \E d \in Daemons : Daemon(d)
           \/ \E m \in Commands : Send(m)
           \/ UNCHANGED vars
  BY <1>3, OthersDeps
<1> QED BY <1>1, <1>2, <1>3 DEF Next, CircdStep

(* If circuits depend on whole circuits: what the calls on the stack are   *)
(* going to look at covers every circuit whose dependencies have changed.  *)
THEOREM DependenciesInvariance == ASSUME WholeCircuits PROVE Spec => []DepsInv
<1>1. Init => CircdInv /\ DepsInv
  BY InitCircdInv, InitDeps
<1>2. CircdInv /\ DepsInv /\ [Next]_vars => CircdInv' /\ DepsInv'
  BY NextCircdInv, NextDeps
<1> QED BY <1>1, <1>2, PTL DEF Spec

(* A circuit that is up without what it depends on is being hung up, with  *)
(* any number of circuits, dependencies, commands and failures, whenever   *)
(* no handler is running (circd_handle_state_change).                      *)
THEOREM DependenciesKept == ASSUME WholeCircuits PROVE Spec => []DependenciesHonoured
<1>1. DepsInv => DependenciesHonoured
  <2> SUFFICES ASSUME DepsInv, Quiescent, NEW c \in Circuits, state[c] \in Up,
                      operation[c] # "hangup"
               PROVE  Supported(c)
    BY DEF DependenciesHonoured, Supported, WholeCircuits
  <2>1. OnStack = {}
    BY ElemsFew DEF Quiescent, OnStack
  <2> QED BY <2>1 DEF DepsInv, Honoured
<1> QED BY <1>1, DependenciesInvariance, PTL

(* With dial mode "auto", an active circuit that could be dialled has been *)
(* (circd_circuit_autodialup), whenever no handler is running.             *)
THEOREM NoneForgotten == ASSUME WholeCircuits PROVE Spec => []NoCircuitForgotten
<1>1. DepsInv => NoCircuitForgotten
  <2> SUFFICES ASSUME DepsInv, Quiescent, NEW c \in Circuits, state[c] = "active",
                      EffectiveMode(c) = "auto", DependenciesMet(c, TRUE)
               PROVE  FALSE
    BY DEF NoCircuitForgotten
  <2>1. OnStack = {}
    BY ElemsFew DEF Quiescent, OnStack
  <2>2. MetSoon(c)
    BY MetIsSoon
  <2> QED BY <2>1, <2>2 DEF DepsInv, Remembered
<1> QED BY <1>1, DependenciesInvariance, PTL

=============================================================================
