--------------------------- MODULE CircdLifeProofs ---------------------------
(***************************************************************************)
(* For any circuits, dependencies between them, protocols, daemons and     *)
(* commands, as long as no dial script fails: a circuit never has two      *)
(* daemons, and every circuit lives the life AbstractCircuit describes.    *)
(*                                                                         *)
(* A dial is on its way from the decision to dial until circd starts the   *)
(* daemon: as a call on the stack, a message to the queue process, a       *)
(* running script, which may ask for the dial mode, and a message to       *)
(* circd, one after the other.  Most of the invariant is about that: a     *)
(* circuit has at most one dial on its way, and as long as it has one, it  *)
(* has no daemon and no protocol up; nobody can hang it up before its dial *)
(* is in the queue, so that a hangup finds the interface; and a circuit    *)
(* that is not up has neither.                                             *)
(*                                                                         *)
(* The hypothesis NoScriptFails cannot be dropped: circd dials once more   *)
(* if a dial script fails while its circuit is being hung up.  A script    *)
(* fails of itself, or because it asks for the dial mode and hears "off";  *)
(* the hypothesis excludes the second with the mode, which is never "off"  *)
(* where a script asks for it.                                             *)
(***************************************************************************)
EXTENDS CircdProofs

SwitchesOff(m) == m.type \in {"set_global_dialmode", "set_local_dialmode"} /\ m.mode = "off"

NoScriptFails ==
  /\ MaxFailures = 0
  /\ AsksMode # {} => BootMode # "off" /\ \A m \in Commands : ~SwitchesOff(m)

Has(q, m) == \E i \in DOMAIN q : q[i] = m
Single(q, m) == \A i, j \in DOMAIN q : q[i] = m /\ q[j] = m => i = j

StartDaemon(c) == [type |-> "start_daemon", circuit |-> c]
UpMessage(c, p) == [type |-> "up", circuit |-> c, protocol |-> p]
DownMessage(c, p) == [type |-> "down", circuit |-> c, protocol |-> p]
Exited(d) == [type |-> "daemon_exited", daemon |-> d]

-----------------------------------------------------------------------------
(* Dials *)

(* The places of a dial on its way *)
Decided(c) == Has(todo, After("dialled", c))
Queued(c) == Has(queue[c], "dial")
Dials(c) == worker[c] \in {"dial", "asks", "allowed", "refused"}
Asked(c) == Has(inbox, StartDaemon(c))
InFlight(c) == Queued(c) \/ Dials(c) \/ Asked(c)

NoSession(c) ==
  /\ daemons[c] = {} /\ protocols_up[c] = {}
  /\ \A d \in Daemons : owner[d] = c => net[d] = {}

OneDial ==
  \A c \in Circuits :
    /\ Single(todo, After("dialled", c))
    /\ Single(queue[c], "dial") /\ Single(inbox, StartDaemon(c))
    /\ Decided(c) => ~InFlight(c)
    /\ Queued(c) => ~Dials(c) /\ ~Asked(c)
    /\ Dials(c) => ~Asked(c)

DialFirst == \A c \in Circuits : Decided(c) \/ InFlight(c) => NoSession(c)

(* A circuit that is not up is at rest, or about to become ready. *)
Waiting ==
  \A c \in Circuits : state[c] \notin Up =>
    /\ NoSession(c) /\ ~InFlight(c)
    /\ Decided(c) => todo # <<>> /\ Head(todo) = ChangeState(c, "ready")

-----------------------------------------------------------------------------
(* Daemons and what they report *)

(* circd has yet to learn of the end of the daemon. *)
Alive(d) == process[d] # "none" \/ Has(inbox, Exited(d))

Registrations ==
  /\ \A c \in Circuits : \A r \in daemons[c] :
       <<"HANGUP", r[2]>> \in daemons[c] /\ owner[r[2]] = c /\ Alive(r[2])
  /\ \A d \in Daemons :
       /\ Alive(d) => <<"HANGUP", d>> \in daemons[owner[d]]
       /\ process[d] # "none" => ~Has(inbox, Exited(d))
       /\ Single(inbox, Exited(d))

(* Two daemons of a circuit are not in use at a time. *)
InUse(d) == Alive(d) \/ net[d] # {}

Served ==
  \A d, e \in Daemons : InUse(d) /\ InUse(e) /\ owner[d] = owner[e] => d = e

(* circd will know the protocol to be up when it has read its messages q,  *)
(* if it now knows the protocols up.                                       *)
SeenUp(q, up, c, p) ==
  \/ \E j \in DOMAIN q : /\ q[j] = UpMessage(c, p)
                         /\ \A k \in DOMAIN q : k > j => q[k] # DownMessage(c, p)
  \/ p \in up /\ ~Has(q, DownMessage(c, p))

Announced ==
  \A d \in Daemons : \A p \in net[d] : SeenUp(inbox, protocols_up[owner[d]], owner[d], p)

Later(q, i, m) == \E j \in DOMAIN q : j > i /\ q[j] = m

(* The daemon a message speaks of runs, or its end is reported later. *)
Backed ==
  \A i \in DOMAIN inbox : inbox[i].type = "up" =>
    \E d \in Daemons : /\ owner[d] = inbox[i].circuit
                       /\ process[d] # "none" \/ Later(inbox, i, Exited(d))

Sessions == Registrations /\ Served /\ Announced /\ Backed

-----------------------------------------------------------------------------
(* Hangups find the interface of the circuit. *)

DialBefore(q) ==
  \A i \in DOMAIN q : q[i] = "hangup" => \E j \in DOMAIN q : j < i /\ q[j] = "dial"

Interface ==
  \A c \in Circuits :
    /\ translated[c] \/ worker[c] \in {"dial", "gone"} \/ DialBefore(queue[c])
    /\ worker[c] = "hangup" => translated[c]
    /\ state[c] \in Up =>
         translated[c] \/ Decided(c) \/ Queued(c) \/ worker[c] \in {"dial", "gone"}

(* So no script fails, and none that asks for the dial mode hears "off". *)
Success == {m \in Message : /\ m.type \notin {"hangup_failed", "dialup_failed"}
                            /\ SwitchesOff(m) => AsksMode = {}}

AllSucceed == inbox \in Seq(Success)

Permitted ==
  /\ \A c \in Circuits : worker[c] # "refused"
  /\ IF AsksMode = {} THEN \A c \in Circuits : worker[c] # "asks"
     ELSE global_mode # "off" /\ \A c \in Circuits : local_mode[c] # "off"

-----------------------------------------------------------------------------
(* The calls on the stack *)

FitCall ==
  {x \in Call :
     /\ x.fn # "not_dialled"
     /\ x.fn = "react" =>
          /\ IF x.position = 0 THEN x.circuit = x.changed ELSE x.circuit \in Dependents(x.changed)
          /\ x.to \in Up => x.changed \notin Dependents(x.changed)}

(* Calls that may wait for others to end *)
LowerCall ==
  {x \in FitCall : /\ x.fn \notin {"change_state", "finalize_hangup"}
                   /\ x.fn = "react" => x.position # 0}

Stack ==
  /\ todo \in Seq(FitCall)
  /\ todo # <<>> => Tail(todo) \in Seq(LowerCall)
  /\ Ordered(todo)
  /\ \A c \in Circuits : Has(todo, After("hung_up", c)) => daemons[c] = {}

SomeDecided == \E c \in Circuits : Decided(c)

HeadRight ==
  todo # <<>> =>
    LET x == Head(todo)
        c == x.circuit
    IN  /\ x.fn = "change_state" =>
             /\ x.to = "ready" => state[c] = "active" /\ Decided(c) /\ DependenciesMet(c, FALSE)
             /\ x.to \in {"semionline", "online"} => state[c] \in Up /\ ~SomeDecided
             /\ x.to \in {"inactive", "active", "failed"} =>
                  NoSession(c) /\ ~InFlight(c) /\ ~SomeDecided
        /\ x.fn = "finalize_hangup" => ~InFlight(c) /\ ~SomeDecided
        /\ x.fn = "react" /\ x.position = 0 =>
             /\ state[c] = x.to
             /\ Decided(c) => DependenciesMet(c, FALSE)

(* A circuit that is about to be dialled keeps what it depends on; one     *)
(* that depends on itself never is.                                        *)
Chains ==
  /\ \A x \in Circuits : Decided(x) =>
       \A z \in Circuits : x \in Dependents(z) => z # x /\ state[z] \in Up
  /\ \A c \in Circuits : c \in Dependents(c) => state[c] \notin Up

LifeInv == /\ OneDial /\ DialFirst /\ Waiting
           /\ Sessions
           /\ Interface /\ AllSucceed
           /\ Stack /\ HeadRight /\ Chains

(* What a joined sequence has, and has once *)
LEMMA HasJoined ==
  ASSUME NEW S, NEW s \in Seq(S), NEW t \in Seq(S), NEW m
  PROVE  /\ Has(s \o t, m) <=> Has(s, m) \/ Has(t, m)
         /\ Single(s \o t, m) <=> Single(s, m) /\ Single(t, m) /\ ~(Has(s, m) /\ Has(t, m))
<1> DEFINE q == s \o t
           n == Len(s)
<1>1. /\ n \in Nat /\ DOMAIN s \subseteq 1 .. n /\ DOMAIN t \subseteq Nat \ {0}
      /\ \A i \in DOMAIN s : i \in DOMAIN q /\ q[i] = s[i]
      /\ \A i \in DOMAIN t : n + i \in DOMAIN q /\ q[n + i] = t[i]
      /\ \A i \in DOMAIN q : i \in DOMAIN s \/ \E j \in DOMAIN t : i = n + j
  BY Joined
<1> HIDE DEF q, n
<1>2. Has(q, m) <=> Has(s, m) \/ Has(t, m)
  <2>1. ASSUME Has(q, m) PROVE Has(s, m) \/ Has(t, m)
    BY <1>1, <2>1 DEF Has
  <2>2. ASSUME Has(s, m) \/ Has(t, m) PROVE Has(q, m)
    BY <1>1, <2>2 DEF Has
  <2> QED BY <2>1, <2>2
<1>3. ASSUME Single(q, m)
      PROVE  Single(s, m) /\ Single(t, m) /\ ~(Has(s, m) /\ Has(t, m))
  <2>1. Single(s, m)
    BY <1>1, <1>3 DEF Single
  <2>2. ASSUME NEW i \in DOMAIN t, NEW j \in DOMAIN t, t[i] = m, t[j] = m
        PROVE  i = j
    <3>1. n + i = n + j
      BY <1>1, <1>3, <2>2 DEF Single
    <3>2. i \in Nat /\ j \in Nat
      BY <1>1
    <3> QED BY <1>1, <3>1, <3>2
  <2>3. ASSUME NEW i \in DOMAIN s, NEW j \in DOMAIN t, s[i] = m, t[j] = m
        PROVE  FALSE
    <3>1. i = n + j
      BY <1>1, <1>3, <2>3 DEF Single
    <3>2. i \in 1 .. n /\ j \in Nat \ {0}
      BY <1>1
    <3> QED BY <1>1, <3>1, <3>2
  <2> QED BY <2>1, <2>2, <2>3 DEF Single, Has
<1>4. ASSUME Single(s, m), Single(t, m), ~(Has(s, m) /\ Has(t, m)),
             NEW i \in DOMAIN q, NEW j \in DOMAIN q, q[i] = m, q[j] = m
      PROVE  i = j
  <2>1. CASE i \in DOMAIN s /\ j \in DOMAIN s
    BY <1>1, <1>4, <2>1 DEF Single
  <2>2. CASE i \in DOMAIN s /\ j \notin DOMAIN s
    BY <1>1, <1>4, <2>2 DEF Has
  <2>3. CASE i \notin DOMAIN s /\ j \in DOMAIN s
    BY <1>1, <1>4, <2>3 DEF Has
  <2>4. CASE i \notin DOMAIN s /\ j \notin DOMAIN s
    <3>1. PICK k \in DOMAIN t, l \in DOMAIN t : i = n + k /\ j = n + l
      BY <1>1, <2>4
    <3>2. t[k] = m /\ t[l] = m
      BY <1>1, <1>4, <3>1
    <3> QED BY <1>4, <3>1, <3>2 DEF Single
  <2> QED BY <2>1, <2>2, <2>3, <2>4
<1> QED BY <1>2, <1>3, <1>4 DEF Single, q

LEMMA HasOne ==
  ASSUME NEW x, NEW m
  PROVE  /\ Has(<<x>>, m) <=> x = m
         /\ Single(<<x>>, m)
         /\ ~Has(<<>>, m) /\ Single(<<>>, m)
<1>1. DOMAIN <<x>> = {1} /\ <<x>>[1] = x
  BY One
<1>2. DOMAIN <<>> = {}
  OBVIOUS
<1> QED BY <1>1, <1>2 DEF Has, Single

(* Appending an element *)
LEMMA HasAppended ==
  ASSUME NEW S, NEW s \in Seq(S), NEW x \in S, NEW m
  PROVE  /\ Has(Append(s, x), m) <=> Has(s, m) \/ x = m
         /\ Single(Append(s, x), m) <=> Single(s, m) /\ ~(Has(s, m) /\ x = m)
<1> DEFINE t == <<x>>
<1>1. Append(s, x) = s \o t /\ t \in Seq(S)
  BY Appending
<1>2. (Has(t, m) <=> x = m) /\ Single(t, m)
  BY HasOne
<1> HIDE DEF t
<1>3. /\ Has(s \o t, m) <=> Has(s, m) \/ Has(t, m)
      /\ Single(s \o t, m) <=> Single(s, m) /\ Single(t, m) /\ ~(Has(s, m) /\ Has(t, m))
  BY <1>1, HasJoined
<1> QED BY <1>1, <1>2, <1>3

(* Taking the head away *)
LEMMA HasTail ==
  ASSUME NEW S, NEW s \in Seq(S), s # <<>>, NEW m
  PROVE  /\ Has(s, m) <=> Head(s) = m \/ Has(Tail(s), m)
         /\ Single(s, m) <=> Single(Tail(s), m) /\ ~(Head(s) = m /\ Has(Tail(s), m))
<1> DEFINE h == <<Head(s)>>
           t == Tail(s)
<1>1. s = h \o t /\ h \in Seq(S) /\ t \in Seq(S)
  BY Splitting
<1>2. /\ Has(h, m) <=> Head(s) = m
      /\ Single(h, m)
  BY HasOne
<1> HIDE DEF h
<1>3. /\ Has(h \o t, m) <=> Has(h, m) \/ Has(t, m)
      /\ Single(h \o t, m) <=> Single(h, m) /\ Single(t, m) /\ ~(Has(h, m) /\ Has(t, m))
  <2> HIDE DEF t
  <2> QED BY <1>1, HasJoined
<1> QED BY <1>1, <1>2, <1>3

-----------------------------------------------------------------------------
(* Messages are told apart by their kind. *)

LEMMA MessageKinds ==
  ASSUME NEW c, NEW p, NEW d
  PROVE  /\ StartDaemon(c).type = "start_daemon" /\ StartDaemon(c).circuit = c
         /\ UpMessage(c, p).type = "up" /\ UpMessage(c, p).circuit = c
         /\ UpMessage(c, p).protocol = p
         /\ DownMessage(c, p).type = "down" /\ DownMessage(c, p).circuit = c
         /\ DownMessage(c, p).protocol = p
         /\ Exited(d).type = "daemon_exited" /\ Exited(d).daemon = d
BY DEF StartDaemon, UpMessage, DownMessage, Exited

LEMMA MessageIs ==
  ASSUME NEW m \in Message
  PROVE  /\ m.type = "start_daemon" => m = StartDaemon(m.circuit) /\ m.circuit \in Circuits
         /\ m.type = "up" => /\ m = UpMessage(m.circuit, m.protocol)
                             /\ m.circuit \in Circuits /\ m.protocol \in Protocols
         /\ m.type = "down" => /\ m = DownMessage(m.circuit, m.protocol)
                               /\ m.circuit \in Circuits /\ m.protocol \in Protocols
         /\ m.type = "daemon_exited" => m = Exited(m.daemon) /\ m.daemon \in Daemons
<1>1. CASE m \in Command
  BY <1>1 DEF Command, CircuitCommand
<1>2. CASE m \in [type : {"up", "down"}, circuit : Circuits, protocol : Protocols]
  BY <1>2 DEF UpMessage, DownMessage
<1>3. CASE m \in [type : {"dialup_failed", "hangup_failed", "start_daemon",
                          "stop_daemon", "get_effective_dialmode"}, circuit : Circuits]
  BY <1>3 DEF StartDaemon
<1>4. CASE m \in [type : {"daemon_exited"}, daemon : Daemons]
  BY <1>4 DEF Exited
<1>5. CASE m.type = "child_exited"
  BY <1>5
<1> QED BY <1>1, <1>2, <1>3, <1>4, <1>5 DEF Message

-----------------------------------------------------------------------------
(* What circd will have seen when it has read its messages *)

LEMMA SeenJoined ==
  ASSUME NEW S, NEW s \in Seq(S), NEW t \in Seq(S), NEW up, NEW c, NEW p,
         ~Has(t, DownMessage(c, p)), SeenUp(s, up, c, p)
  PROVE  SeenUp(s \o t, up, c, p)
<1> DEFINE q == s \o t
           n == Len(s)
<1>1. /\ n \in Nat /\ DOMAIN s \subseteq 1 .. n /\ DOMAIN t \subseteq Nat \ {0}
      /\ \A i \in DOMAIN s : i \in DOMAIN q /\ q[i] = s[i]
      /\ \A i \in DOMAIN t : n + i \in DOMAIN q /\ q[n + i] = t[i]
      /\ \A i \in DOMAIN q : i \in DOMAIN s \/ \E j \in DOMAIN t : i = n + j
  BY Joined
<1>2. Has(q, DownMessage(c, p)) <=> Has(s, DownMessage(c, p)) \/ Has(t, DownMessage(c, p))
  BY HasJoined
<1> HIDE DEF q, n
<1>3. CASE p \in up /\ ~Has(s, DownMessage(c, p))
  BY <1>2, <1>3 DEF SeenUp, q
<1>4. CASE \E j \in DOMAIN s : /\ s[j] = UpMessage(c, p)
                               /\ \A k \in DOMAIN s : k > j => s[k] # DownMessage(c, p)
  <2>1. PICK j \in DOMAIN s : /\ s[j] = UpMessage(c, p)
                              /\ \A k \in DOMAIN s : k > j => s[k] # DownMessage(c, p)
    BY <1>4
  <2>2. ASSUME NEW k \in DOMAIN q, k > j
        PROVE  q[k] # DownMessage(c, p)
    <3>1. CASE k \in DOMAIN s
      BY <1>1, <2>1, <2>2, <3>1
    <3>2. CASE \E l \in DOMAIN t : k = n + l
      BY <1>1, <3>2 DEF Has
    <3> QED BY <1>1, <3>1, <3>2
  <2>3. j \in DOMAIN q /\ q[j] = UpMessage(c, p)
    BY <1>1, <2>1
  <2>4. SeenUp(q, up, c, p)
    BY <2>2, <2>3 DEF SeenUp
  <2> QED BY <2>4 DEF q
<1> QED BY <1>3, <1>4 DEF SeenUp

LEMMA SeenAppended ==
  ASSUME NEW S, NEW s \in Seq(S), NEW x \in S, NEW up, NEW c, NEW p
  PROVE  /\ x # DownMessage(c, p) /\ SeenUp(s, up, c, p) => SeenUp(Append(s, x), up, c, p)
         /\ x = UpMessage(c, p) => SeenUp(Append(s, x), up, c, p)
<1> DEFINE t == <<x>>
<1>1. Append(s, x) = s \o t /\ t \in Seq(S)
  BY Appending
<1>2. Has(t, DownMessage(c, p)) <=> x = DownMessage(c, p)
  BY HasOne
<1>3. ASSUME x = UpMessage(c, p)
      PROVE  SeenUp(Append(s, x), up, c, p)
  <2> DEFINE q == Append(s, x)
             n == Len(s) + 1
  <2>1. n \in DOMAIN q /\ q[n] = x /\ \A k \in DOMAIN q : ~ (k > n)
    BY AppendProperties, LenProperties
  <2> HIDE DEF q, n
  <2>2. SeenUp(q, up, c, p)
    BY <1>3, <2>1 DEF SeenUp
  <2> QED BY <2>2 DEF q
<1>4. ASSUME x # DownMessage(c, p), SeenUp(s, up, c, p)
      PROVE  SeenUp(Append(s, x), up, c, p)
  <2> HIDE DEF t
  <2> QED BY <1>1, <1>2, <1>4, SeenJoined
<1> QED BY <1>3, <1>4

(* circd reads the first message, which may change up into new. *)
LEMMA SeenTail ==
  ASSUME NEW S, NEW s \in Seq(S), s # <<>>, NEW up, NEW new, NEW c, NEW p,
         SeenUp(s, up, c, p),
         Head(s) = UpMessage(c, p) => p \in new,
         Head(s) # DownMessage(c, p) /\ p \in up => p \in new
  PROVE  SeenUp(Tail(s), new, c, p)
<1> DEFINE t == Tail(s)
           down == DownMessage(c, p)
<1>1. /\ \A i \in DOMAIN t : i \in Nat \ {0} /\ i + 1 \in DOMAIN s /\ t[i] = s[i + 1]
      /\ \A i \in DOMAIN s : i # 1 => i \in Nat /\ i - 1 \in DOMAIN t /\ (i - 1) + 1 = i
      /\ 1 \in DOMAIN s /\ s[1] = Head(s)
  <2>1. /\ t \in Seq(S) /\ Len(t) = Len(s) - 1 /\ Len(s) \in Nat \ {0}
        /\ \A i \in 1 .. Len(t) : t[i] = s[i + 1]
        /\ DOMAIN s = 1 .. Len(s)
    BY HeadTailProperties, LenProperties, EmptySeq
  <2>2. DOMAIN t = 1 .. Len(t) /\ Len(t) \in Nat
    BY <2>1, LenProperties
  <2>3. 1 \in DOMAIN s /\ s[1] = Head(s)
    BY Splitting
  <2> DEFINE n == Len(s)
  <2>4. /\ n \in Nat \ {0} /\ DOMAIN s = 1 .. n /\ DOMAIN t = 1 .. n - 1
        /\ \A i \in 1 .. n - 1 : t[i] = s[i + 1]
    BY <2>1, <2>2
  <2> HIDE DEF t, n
  <2>5. \A i \in DOMAIN t : i \in Nat \ {0} /\ i + 1 \in DOMAIN s /\ t[i] = s[i + 1]
    BY <2>4
  <2>6. ASSUME NEW i \in DOMAIN s, i # 1
        PROVE  i \in Nat /\ i - 1 \in DOMAIN t /\ (i - 1) + 1 = i
    <3>1. i \in 1 .. n
      BY <2>4
    <3>2. i - 1 \in 1 .. n - 1 /\ (i - 1) + 1 = i /\ i \in Nat
      BY <2>4, <2>6, <3>1
    <3> QED BY <2>4, <3>2
  <2>7. \A i \in DOMAIN s : i # 1 => i \in Nat /\ i - 1 \in DOMAIN t /\ (i - 1) + 1 = i
    BY <2>6
  <2> QED BY <2>3, <2>5, <2>7
<1>2. Has(s, down) <=> Head(s) = down \/ Has(t, down)
  BY HasTail
<1> HIDE DEF t, down
<1>3. CASE p \in up /\ ~Has(s, down)
  <2>1. p \in new /\ ~Has(t, down)
    BY <1>2, <1>3 DEF down
  <2> QED BY <2>1 DEF SeenUp, t, down
<1>4. CASE \E j \in DOMAIN s : /\ s[j] = UpMessage(c, p)
                               /\ \A k \in DOMAIN s : k > j => s[k] # down
  <2>1. PICK j \in DOMAIN s : /\ s[j] = UpMessage(c, p)
                              /\ \A k \in DOMAIN s : k > j => s[k] # down
    BY <1>4
  <2>2. CASE j = 1
    <3>1. Head(s) = UpMessage(c, p)
      BY <1>1, <2>1, <2>2
    <3>2. ~Has(t, down)
      <4>1. ASSUME NEW i \in DOMAIN t PROVE t[i] # down
        BY <1>1, <2>1, <2>2
      <4> QED BY <4>1 DEF Has
    <3> QED BY <3>1, <3>2 DEF SeenUp, t, down
  <2>3. CASE j # 1
    <3>1. j \in Nat /\ j - 1 \in DOMAIN t /\ t[j - 1] = UpMessage(c, p)
      BY <1>1, <2>1, <2>3
    <3>2. ASSUME NEW k \in DOMAIN t, k > j - 1
          PROVE  t[k] # down
      <4>1. k \in Nat /\ k + 1 > j
        BY <1>1, <3>1, <3>2
      <4> QED BY <1>1, <2>1, <4>1
    <3> QED BY <3>1, <3>2 DEF SeenUp, t, down
  <2> QED BY <2>2, <2>3
<1> QED BY <1>3, <1>4 DEF SeenUp, down

LEMMA LaterJoined ==
  ASSUME NEW S, NEW s \in Seq(S), NEW t \in Seq(S), NEW i \in DOMAIN s, NEW m,
         Later(s, i, m) \/ Has(t, m)
  PROVE  Later(s \o t, i, m)
<1> DEFINE q == s \o t
           n == Len(s)
<1>1. /\ n \in Nat /\ DOMAIN s = 1 .. n /\ DOMAIN t \subseteq Nat \ {0}
      /\ \A j \in DOMAIN s : j \in DOMAIN q /\ q[j] = s[j]
      /\ \A j \in DOMAIN t : n + j \in DOMAIN q /\ q[n + j] = t[j]
  <2>1. DOMAIN t \subseteq Nat \ {0}
    BY Joined
  <2> QED BY <2>1, Joined
<1> HIDE DEF q, n
<1>2. CASE Later(s, i, m)
  BY <1>1, <1>2 DEF Later, q
<1>3. CASE Has(t, m)
  <2>1. PICK j \in DOMAIN t : t[j] = m
    BY <1>3 DEF Has
  <2>2. n + j \in DOMAIN q /\ q[n + j] = m /\ n + j > i
    BY <1>1, <2>1
  <2>3. Later(q, i, m)
    BY <2>2 DEF Later
  <2> QED BY <2>3 DEF q
<1> QED BY <1>2, <1>3

LEMMA LaterTail ==
  ASSUME NEW S, NEW s \in Seq(S), s # <<>>, NEW i \in DOMAIN Tail(s)
  PROVE  /\ i + 1 \in DOMAIN s /\ Tail(s)[i] = s[i + 1] /\ i \in Nat \ {0}
         /\ \A m : Later(s, i + 1, m) => Later(Tail(s), i, m)
<1> DEFINE t == Tail(s)
<1>1. /\ t \in Seq(S) /\ Len(t) = Len(s) - 1 /\ Len(s) \in Nat \ {0}
      /\ \A j \in 1 .. Len(t) : t[j] = s[j + 1]
      /\ DOMAIN s = 1 .. Len(s)
  BY HeadTailProperties, LenProperties, EmptySeq
<1>2. DOMAIN t = 1 .. Len(t) /\ Len(t) \in Nat
  BY <1>1, LenProperties
<1>3. i \in DOMAIN t
  OBVIOUS
<1> HIDE DEF t
<1>4. i + 1 \in DOMAIN s /\ t[i] = s[i + 1] /\ i \in Nat \ {0}
  BY <1>1, <1>2, <1>3
<1>5. ASSUME NEW m, Later(s, i + 1, m)
      PROVE  Later(t, i, m)
  <2>1. PICK j \in DOMAIN s : j > i + 1 /\ s[j] = m
    BY <1>5 DEF Later
  <2>2. j - 1 \in 1 .. Len(t) /\ j - 1 > i /\ (j - 1) + 1 = j
    BY <1>1, <1>2, <1>4, <2>1
  <2>3. t[j - 1] = m
    BY <1>1, <2>1, <2>2
  <2> QED BY <1>2, <2>2, <2>3 DEF Later
<1> QED BY <1>4, <1>5 DEF t

-----------------------------------------------------------------------------
(* Daemons *)

(* What the types of the variables say about one circuit and one daemon *)
LEMMA Types ==
  ASSUME CircdInv
  PROVE  /\ inbox \in Seq(Message) /\ todo \in Seq(Call)
         /\ \A c \in Circuits :
              /\ queue[c] \in Seq({"dial", "hangup", "quit"})
              /\ daemons[c] \in SUBSET ({"TERM", "HANGUP"} \X Daemons)
              /\ protocols_up[c] \in SUBSET Protocols
              /\ state[c] \in State
         /\ \A d \in Daemons : owner[d] \in Circuits /\ net[d] \in SUBSET Protocols
BY DEF CircdInv, TypeOK

(* Messages that say nothing about a daemon *)
Neutral(m) == m.type \notin {"up", "down", "daemon_exited"}

LEMMA NeutralHas ==
  ASSUME NEW s, \A i \in DOMAIN s : Neutral(s[i]), NEW m, ~Neutral(m)
  PROVE  ~Has(s, m) /\ Single(s, m)
BY DEF Has, Single

(* Reading and sending such messages changes nothing between circd and its *)
(* daemons.                                                                *)
LEMMA NeutralStep ==
  ASSUME CircdInv, Sessions, NEW t, NEW s \in Seq(Message),
         t = inbox \/ (inbox # <<>> /\ Neutral(Head(inbox)) /\ t = Tail(inbox)),
         \A i \in DOMAIN s : Neutral(s[i]),
         inbox' = t \o s,
         UNCHANGED <<daemons, protocols_up, process, owner, net>>
  PROVE  Sessions'
<1>1. inbox \in Seq(Message)
  BY Types
<1>2. t \in Seq(Message)
  BY <1>1, HeadTailProperties
<1>3. ASSUME NEW m, ~Neutral(m)
      PROVE  /\ Has(inbox', m) <=> Has(inbox, m)
             /\ Single(inbox', m) <=> Single(inbox, m)
  <2>1. (Has(t, m) <=> Has(inbox, m)) /\ (Single(t, m) <=> Single(inbox, m))
    BY <1>1, <1>3, HasTail
  <2>2. ~Has(s, m) /\ Single(s, m)
    BY <1>3, NeutralHas
  <2> QED BY <1>2, <2>1, <2>2, HasJoined
<1>4. \A c, p, d : /\ ~Neutral(UpMessage(c, p)) /\ ~Neutral(DownMessage(c, p))
                   /\ ~Neutral(Exited(d))
  BY MessageKinds DEF Neutral
<1>5. \A d : /\ Has(inbox', Exited(d)) <=> Has(inbox, Exited(d))
             /\ Single(inbox', Exited(d)) <=> Single(inbox, Exited(d))
  BY <1>3, <1>4
<1>6. Registrations' /\ Served'
  BY <1>5 DEF Sessions, Registrations, Served, InUse, Alive
<1>7. Announced'
  <2> SUFFICES ASSUME NEW d \in Daemons, NEW p \in net[d]
               PROVE  SeenUp(inbox', protocols_up[owner[d]], owner[d], p)
    BY DEF Announced
  <2> DEFINE c == owner[d]
             up == protocols_up[c]
  <2>1. SeenUp(inbox, up, c, p)
    BY DEF Sessions, Announced
  <2> HIDE DEF c, up
  <2>2. SeenUp(t, up, c, p)
    <3>1. CASE t = inbox
      BY <2>1, <3>1
    <3>2. CASE inbox # <<>> /\ Neutral(Head(inbox)) /\ t = Tail(inbox)
      <4>1. Head(inbox) # UpMessage(c, p) /\ Head(inbox) # DownMessage(c, p)
        BY <1>4, <3>2
      <4> QED BY <1>1, <2>1, <3>2, <4>1, SeenTail
    <3> QED BY <3>1, <3>2
  <2>3. ~Has(s, DownMessage(c, p))
    BY <1>4, NeutralHas
  <2>4. SeenUp(t \o s, up, c, p)
    BY <1>2, <2>2, <2>3, SeenJoined
  <2> QED BY <2>4 DEF c, up
<1>8. Backed'
  <2> SUFFICES ASSUME NEW i \in DOMAIN inbox', inbox'[i].type = "up"
               PROVE  \E d \in Daemons : /\ owner[d] = inbox'[i].circuit
                                         /\ process[d] # "none" \/ Later(inbox', i, Exited(d))
    BY DEF Backed
  <2>1. i \in DOMAIN t /\ inbox'[i] = t[i]
    <3>1. ASSUME NEW j \in DOMAIN s, i = Len(t) + j
          PROVE  FALSE
      <4>1. inbox'[i] = s[j]
        BY <1>2, <3>1, Joined
      <4> QED BY <4>1 DEF Neutral
    <3>2. i \in DOMAIN t
      BY <1>2, <3>1, Joined
    <3> QED BY <1>2, <3>2, Joined
  <2>2. \E d \in Daemons : /\ owner[d] = t[i].circuit
                           /\ process[d] # "none" \/ Later(t, i, Exited(d))
    <3>1. CASE t = inbox
      BY <2>1, <3>1 DEF Sessions, Backed
    <3>2. CASE inbox # <<>> /\ t = Tail(inbox)
      <4>1. /\ i + 1 \in DOMAIN inbox /\ t[i] = inbox[i + 1]
            /\ \A m : Later(inbox, i + 1, m) => Later(t, i, m)
        BY <1>1, <2>1, <3>2, LaterTail
      <4>2. PICK d \in Daemons : /\ owner[d] = inbox[i + 1].circuit
                                 /\ process[d] # "none" \/ Later(inbox, i + 1, Exited(d))
        BY <2>1, <4>1 DEF Sessions, Backed
      <4> QED BY <4>1, <4>2
    <3> QED BY <3>1, <3>2
  <2>3. PICK d \in Daemons : /\ owner[d] = t[i].circuit
                             /\ process[d] # "none" \/ Later(t, i, Exited(d))
    BY <2>2
  <2>4. Later(t, i, Exited(d)) => Later(inbox', i, Exited(d))
    BY <1>2, <2>1, LaterJoined
  <2> QED BY <2>1, <2>3, <2>4
<1> QED BY <1>6, <1>7, <1>8 DEF Sessions

(* A daemon circd has registered or has yet to hear the end of belongs to  *)
(* a session.                                                              *)
LEMMA AliveHasSession ==
  ASSUME Sessions, NEW d \in Daemons, Alive(d)
  PROVE  daemons[owner[d]] # {}
BY DEF Sessions, Registrations

(* The daemon an announcement speaks of is such a daemon. *)
LEMMA UpHasSession ==
  ASSUME CircdInv, Sessions, NEW c \in Circuits, NEW p, Has(inbox, UpMessage(c, p))
  PROVE  daemons[c] # {}
<1>1. PICK i \in DOMAIN inbox : inbox[i] = UpMessage(c, p)
  BY DEF Has
<1>2. inbox[i].type = "up" /\ inbox[i].circuit = c
  BY <1>1, MessageKinds
<1>3. PICK d \in Daemons : owner[d] = c /\ (process[d] # "none" \/ Later(inbox, i, Exited(d)))
  BY <1>2 DEF Sessions, Backed
<1>4. Alive(d)
  BY <1>3 DEF Alive, Later, Has
<1> QED BY <1>3, <1>4, AliveHasSession

LEMMA ExtendedBacked ==
  ASSUME CircdInv, Sessions, NEW s \in Seq(Message), inbox' = inbox \o s, UNCHANGED owner,
         \A i \in DOMAIN s : s[i].type = "up" =>
           \E d \in Daemons : owner[d] = s[i].circuit /\ process'[d] # "none",
         \A d \in Daemons : process[d] # "none" => process'[d] # "none" \/ Has(s, Exited(d))
  PROVE  Backed'
<1>1. inbox \in Seq(Message)
  BY Types
<1> SUFFICES ASSUME NEW i \in DOMAIN inbox', inbox'[i].type = "up"
             PROVE  \E d \in Daemons :
                      /\ owner'[d] = inbox'[i].circuit
                      /\ process'[d] # "none" \/ Later(inbox', i, Exited(d))
  BY DEF Backed
<1>2. CASE i \in DOMAIN inbox
  <2>1. inbox'[i] = inbox[i]
    BY <1>1, <1>2, Joined
  <2>2. PICK d \in Daemons : /\ owner[d] = inbox[i].circuit
                             /\ process[d] # "none" \/ Later(inbox, i, Exited(d))
    BY <1>2, <2>1 DEF Sessions, Backed
  <2>3. Later(inbox, i, Exited(d)) \/ Has(s, Exited(d)) => Later(inbox', i, Exited(d))
    BY <1>1, <1>2, LaterJoined
  <2> QED BY <2>1, <2>2, <2>3
<1>3. CASE i \notin DOMAIN inbox
  <2>1. PICK j \in DOMAIN s : i = Len(inbox) + j
    BY <1>1, <1>3, Joined
  <2>2. inbox'[i] = s[j]
    BY <1>1, <2>1, Joined
  <2> QED BY <2>2
<1> QED BY <1>2, <1>3

LEMMA TakenBacked ==
  ASSUME CircdInv, Sessions, inbox # <<>>, inbox' = Tail(inbox),
         \A d \in Daemons : process[d] # "none" \/ Has(Tail(inbox), Exited(d)) =>
           owner'[d] = owner[d] /\ (process[d] # "none" => process'[d] # "none")
  PROVE  Backed'
<1>1. inbox \in Seq(Message)
  BY Types
<1> SUFFICES ASSUME NEW i \in DOMAIN inbox', inbox'[i].type = "up"
             PROVE  \E d \in Daemons :
                      /\ owner'[d] = inbox'[i].circuit
                      /\ process'[d] # "none" \/ Later(inbox', i, Exited(d))
  BY DEF Backed
<1>2. /\ i + 1 \in DOMAIN inbox /\ inbox'[i] = inbox[i + 1]
      /\ \A m : Later(inbox, i + 1, m) => Later(inbox', i, m)
  BY <1>1, LaterTail
<1>3. PICK d \in Daemons : /\ owner[d] = inbox[i + 1].circuit
                           /\ process[d] # "none" \/ Later(inbox, i + 1, Exited(d))
  BY <1>2 DEF Sessions, Backed
<1>4. Later(inbox', i, Exited(d)) => Has(inbox', Exited(d))
  BY DEF Later, Has
<1> QED BY <1>2, <1>3, <1>4

LEMMA TakenAnnounced ==
  ASSUME CircdInv, Sessions, inbox # <<>>, inbox' = Tail(inbox), UNCHANGED net,
         \A d \in Daemons : net[d] # {} => owner'[d] = owner[d],
         \A c \in Circuits, p \in Protocols :
           /\ Head(inbox) = UpMessage(c, p) => p \in protocols_up'[c]
           /\ Head(inbox) # DownMessage(c, p) /\ p \in protocols_up[c] => p \in protocols_up'[c]
  PROVE  Announced'
<1>1. inbox \in Seq(Message) /\ \A d \in Daemons : owner[d] \in Circuits /\ net[d] \subseteq Protocols
  BY Types
<1> SUFFICES ASSUME NEW d \in Daemons, NEW p \in net[d]
             PROVE  SeenUp(inbox', protocols_up'[owner'[d]], owner'[d], p)
  BY DEF Announced
<1> DEFINE c == owner[d]
           up == protocols_up[c]
           new == protocols_up'[c]
<1>2. owner'[d] = c /\ c \in Circuits /\ p \in Protocols
  BY <1>1
<1>3. SeenUp(inbox, up, c, p)
  BY DEF Sessions, Announced
<1>4. /\ Head(inbox) = UpMessage(c, p) => p \in new
      /\ Head(inbox) # DownMessage(c, p) /\ p \in up => p \in new
  BY <1>2
<1> HIDE DEF c, up, new
<1>5. SeenUp(Tail(inbox), new, c, p)
  BY <1>1, <1>3, <1>4, SeenTail
<1> QED BY <1>2, <1>5 DEF new

(* A daemon exits. *)
LEMMA ExitsStep ==
  ASSUME CircdInv, Sessions, NEW d \in Daemons, DaemonExits(d)
  PROVE  /\ Sessions'
         /\ \A c \in Circuits : NoSession(c) => NoSession(c)'
         /\ \A m : m.type = "start_daemon" \/ m.type = "up" =>
              /\ Has(inbox, m)' <=> Has(inbox, m)
              /\ Single(inbox, m) => Single(inbox, m)'
         /\ \A i \in DOMAIN inbox' : inbox'[i].type \in {"daemon_exited", "child_exited"}
                                     \/ (i \in DOMAIN inbox /\ inbox'[i] = inbox[i])
<1> DEFINE last == [type |-> "child_exited",
                    child |-> IF d \in named THEN <<"d", d>> ELSE Circd]
           s == <<Exited(d), last>>
<1>1. /\ inbox' = inbox \o s /\ process[d] # "none"
      /\ process' = [process EXCEPT ![d] = "none"]
      /\ UNCHANGED <<daemons, protocols_up, owner, net>>
  BY DEF DaemonExits, Exited, circuit
<1>2. inbox \in Seq(Message) /\ process \in [Daemons -> {"none", "running", "killed"}]
  BY Types DEF CircdInv, TypeOK
<1>3. s \in Seq(Message)
  BY DEF Message, Exited
<1>4. /\ DOMAIN s = {1, 2} /\ s[1] = Exited(d) /\ s[2] = last /\ last.type = "child_exited"
      /\ Exited(d).type = "daemon_exited"
  BY MessageKinds
<1> HIDE DEF s, last
<1>5. \A m : /\ Has(s, m) <=> m \in {Exited(d), last}
             /\ Single(s, m)
  <2>1. Exited(d) # last
    BY <1>4
  <2> QED BY <1>4, <2>1 DEF Has, Single
<1>6. \A m : /\ Has(inbox', m) <=> Has(inbox, m) \/ m \in {Exited(d), last}
             /\ Single(inbox', m) <=> Single(inbox, m) /\ ~(Has(inbox, m) /\ m \in {Exited(d), last})
  <2> SUFFICES ASSUME NEW m
               PROVE  /\ Has(inbox', m) <=> Has(inbox, m) \/ m \in {Exited(d), last}
                      /\ Single(inbox', m) <=>
                           Single(inbox, m) /\ ~(Has(inbox, m) /\ m \in {Exited(d), last})
    OBVIOUS
  <2>1. /\ Has(inbox \o s, m) <=> Has(inbox, m) \/ Has(s, m)
        /\ Single(inbox \o s, m) <=> Single(inbox, m) /\ Single(s, m) /\ ~(Has(inbox, m) /\ Has(s, m))
    BY <1>2, <1>3, HasJoined
  <2> QED BY <1>1, <1>5, <2>1
<1>7. \A e \in Daemons : /\ Exited(e) # last
                         /\ Exited(e) = Exited(d) => e = d
  BY <1>4, MessageKinds
<1>8. ~Has(inbox, Exited(d))
  BY <1>1 DEF Sessions, Registrations
<1>9. ASSUME NEW e \in Daemons
      PROVE  /\ Alive(e)' <=> Alive(e)
             /\ process'[e] # "none" => ~Has(inbox', Exited(e))
             /\ Single(inbox', Exited(e))
  <2>1. CASE e = d
    BY <1>1, <1>2, <1>6, <1>8, <2>1 DEF Alive, Sessions, Registrations
  <2>2. CASE e # d
    <3>1. process'[e] = process[e]
      BY <1>1, <1>2, <2>2
    <3>2. Exited(e) \notin {Exited(d), last}
      BY <1>7, <2>2
    <3>3. /\ Has(inbox', Exited(e)) <=> Has(inbox, Exited(e))
          /\ Single(inbox', Exited(e)) <=> Single(inbox, Exited(e))
      BY <1>6, <3>2
    <3> QED BY <3>1, <3>3 DEF Alive, Sessions, Registrations
  <2> QED BY <2>1, <2>2
<1>10. Registrations'
  <2>1. ASSUME NEW c \in Circuits, NEW r \in daemons[c]
        PROVE  <<"HANGUP", r[2]>> \in daemons[c] /\ owner[r[2]] = c /\ Alive(r[2])'
    <3>1. r[2] \in Daemons
      BY Types
    <3> QED BY <1>9, <3>1 DEF Sessions, Registrations
  <2> QED BY <1>1, <1>9, <2>1 DEF Sessions, Registrations
<1>11. Served'
  BY <1>1, <1>9 DEF Sessions, Served, InUse
<1>12. Announced'
  <2> SUFFICES ASSUME NEW e \in Daemons, NEW p \in net[e]
               PROVE  SeenUp(inbox', protocols_up[owner[e]], owner[e], p)
    BY <1>1 DEF Announced
  <2>1. SeenUp(inbox, protocols_up[owner[e]], owner[e], p)
    BY DEF Sessions, Announced
  <2>2. ~Has(s, DownMessage(owner[e], p))
    BY <1>4, <1>5, MessageKinds
  <2> QED BY <1>1, <1>2, <1>3, <2>1, <2>2, SeenJoined
<1>13. Backed'
  <2>1. \A i \in DOMAIN s : s[i].type # "up"
    BY <1>4
  <2>2. \A e \in Daemons : process[e] # "none" => process'[e] # "none" \/ Has(s, Exited(e))
    BY <1>1, <1>2, <1>5
  <2> QED BY <1>1, <1>3, <2>1, <2>2, ExtendedBacked
<1>14. \A m : m.type = "start_daemon" \/ m.type = "up" =>
              /\ Has(inbox, m)' <=> Has(inbox, m)
              /\ Single(inbox, m) => Single(inbox, m)'
  BY <1>4, <1>6
<1>15. \A c \in Circuits : NoSession(c) => NoSession(c)'
  BY <1>1 DEF NoSession
<1>16. ASSUME NEW i \in DOMAIN inbox'
       PROVE  inbox'[i].type \in {"daemon_exited", "child_exited"}
              \/ (i \in DOMAIN inbox /\ inbox'[i] = inbox[i])
  <2>1. CASE i \in DOMAIN inbox
    BY <1>1, <1>2, <1>3, <2>1, Joined
  <2>2. CASE i \notin DOMAIN inbox
    <3>1. PICK j \in DOMAIN s : i = Len(inbox) + j
      BY <1>1, <1>2, <1>3, <2>2, Joined
    <3>2. inbox'[i] = s[j]
      BY <1>1, <1>2, <1>3, <3>1, Joined
    <3>3. j = 1 \/ j = 2
      BY <1>4, <3>1
    <3>4. s[j].type \in {"daemon_exited", "child_exited"}
      BY <1>4, <3>3
    <3>5. inbox'[i].type = s[j].type
      BY <3>2
    <3> QED BY <3>4, <3>5
  <2> QED BY <2>1, <2>2
<1> QED BY <1>10, <1>11, <1>12, <1>13, <1>14, <1>15, <1>16 DEF Sessions

(* A protocol comes up. *)
LEMMA UpStep ==
  ASSUME CircdInv, Sessions, NEW d \in Daemons, NEW p \in Protocols, ProtocolUp(d, p)
  PROVE  Sessions' /\ \A c \in Circuits : NoSession(c) => NoSession(c)'
<1> DEFINE m == UpMessage(owner[d], p)
           s == <<m>>
<1>1. /\ inbox' = Append(inbox, m) /\ process[d] = "running"
      /\ net' = [net EXCEPT ![d] = @ \cup {p}]
      /\ UNCHANGED <<daemons, protocols_up, process, owner>>
  BY DEF ProtocolUp, Announce, UpMessage, circuit
<1>2. /\ inbox \in Seq(Message) /\ net \in [Daemons -> SUBSET Protocols]
      /\ owner[d] \in Circuits
  BY Types DEF CircdInv, TypeOK
<1>3. m \in Message
  BY <1>2 DEF Message, UpMessage
<1>4. /\ m.type = "up" /\ m.circuit = owner[d]
      /\ \A e : m # Exited(e)
      /\ \A c, q : m # DownMessage(c, q)
  BY MessageKinds
<1>6. \A e \in Daemons : net'[e] = IF e = d THEN net[e] \cup {p} ELSE net[e]
  BY <1>1, <1>2
<1> HIDE DEF m
<1>7. \A e : /\ Has(inbox', Exited(e)) <=> Has(inbox, Exited(e))
             /\ Single(inbox', Exited(e)) <=> Single(inbox, Exited(e))
  BY <1>1, <1>2, <1>3, <1>4, HasAppended
<1>8. Alive(d)
  BY <1>1 DEF Alive
<1>9. Registrations'
  BY <1>1, <1>7 DEF Sessions, Registrations, Alive
<1>10. Served'
  <2>1. \A e \in Daemons : InUse(e)' => InUse(e)
    BY <1>1, <1>6, <1>7, <1>8 DEF InUse, Alive
  <2> QED BY <1>1, <2>1 DEF Sessions, Served
<1>11. Announced'
  <2> SUFFICES ASSUME NEW e \in Daemons, NEW q \in net'[e]
               PROVE  SeenUp(inbox', protocols_up[owner[e]], owner[e], q)
    BY <1>1 DEF Announced
  <2>1. CASE q \in net[e]
    <3>1. SeenUp(inbox, protocols_up[owner[e]], owner[e], q)
      BY <2>1 DEF Sessions, Announced
    <3> QED BY <1>1, <1>2, <1>3, <1>4, <3>1, SeenAppended
  <2>2. CASE q \notin net[e]
    <3>1. e = d /\ q = p
      BY <1>6, <2>2
    <3>2. m = UpMessage(owner[e], q)
      BY <3>1 DEF m
    <3> QED BY <1>1, <1>2, <1>3, <3>2, SeenAppended
  <2> QED BY <2>1, <2>2
<1>12. Backed'
  <2>1. inbox' = inbox \o s /\ s \in Seq(Message)
    BY <1>1, <1>2, <1>3, Appending
  <2>2. \A i \in DOMAIN s : s[i] = m
    BY One
  <2> HIDE DEF s
  <2>3. \A i \in DOMAIN s : owner[d] = s[i].circuit /\ process'[d] # "none"
    BY <1>1, <1>4, <2>2
  <2>4. \A e \in Daemons : process[e] # "none" => process'[e] # "none"
    BY <1>1
  <2> QED BY <1>1, <2>1, <2>3, <2>4, ExtendedBacked
<1>13. \A c \in Circuits : NoSession(c) => NoSession(c)'
  <2>1. \A c \in Circuits : NoSession(c) => c # owner[d]
    BY <1>8, AliveHasSession DEF NoSession
  <2> QED BY <1>1, <1>6, <2>1 DEF NoSession
<1> QED BY <1>9, <1>10, <1>11, <1>12, <1>13 DEF Sessions

(* A protocol goes down: no other daemon has it up for the same circuit. *)
LEMMA DownStep ==
  ASSUME CircdInv, Sessions, NEW d \in Daemons, NEW p \in Protocols, ProtocolDown(d, p)
  PROVE  Sessions' /\ \A c \in Circuits : NoSession(c) => NoSession(c)'
<1> DEFINE m == DownMessage(owner[d], p)
           s == <<m>>
<1>1. /\ inbox' = Append(inbox, m) /\ p \in net[d]
      /\ net' = [net EXCEPT ![d] = @ \ {p}]
      /\ UNCHANGED <<daemons, protocols_up, process, owner>>
  BY DEF ProtocolDown, Announce, DownMessage, circuit
<1>2. /\ inbox \in Seq(Message) /\ net \in [Daemons -> SUBSET Protocols]
      /\ owner[d] \in Circuits
  BY Types DEF CircdInv, TypeOK
<1>3. m \in Message
  BY <1>2 DEF Message, DownMessage
<1>4. /\ m.type = "down"
      /\ \A e : m # Exited(e)
  BY MessageKinds
<1>5. \A e \in Daemons : net'[e] = IF e = d THEN net[e] \ {p} ELSE net[e]
  BY <1>1, <1>2
<1>6. \A c, q : m = DownMessage(c, q) => c = owner[d] /\ q = p
  BY MessageKinds
<1> HIDE DEF m
<1>7. \A e : /\ Has(inbox', Exited(e)) <=> Has(inbox, Exited(e))
             /\ Single(inbox', Exited(e)) <=> Single(inbox, Exited(e))
  BY <1>1, <1>2, <1>3, <1>4, HasAppended
<1>8. Registrations'
  BY <1>1, <1>7 DEF Sessions, Registrations, Alive
<1>9. Served'
  <2>1. \A e \in Daemons : InUse(e)' => InUse(e)
    BY <1>1, <1>5, <1>7 DEF InUse, Alive
  <2> QED BY <1>1, <2>1 DEF Sessions, Served
<1>10. Announced'
  <2> SUFFICES ASSUME NEW e \in Daemons, NEW q \in net'[e]
               PROVE  SeenUp(inbox', protocols_up[owner[e]], owner[e], q)
    BY <1>1 DEF Announced
  <2>1. q \in net[e]
    BY <1>5
  <2>2. SeenUp(inbox, protocols_up[owner[e]], owner[e], q)
    BY <2>1 DEF Sessions, Announced
  <2>3. m # DownMessage(owner[e], q)
    <3>1. CASE e = d
      BY <1>5, <1>6, <3>1
    <3>2. CASE e # d
      <4>1. InUse(e) /\ InUse(d)
        BY <1>1, <2>1 DEF InUse
      <4> QED BY <1>6, <3>2, <4>1 DEF Sessions, Served
    <3> QED BY <3>1, <3>2
  <2> QED BY <1>1, <1>2, <1>3, <2>2, <2>3, SeenAppended
<1>11. Backed'
  <2>1. inbox' = inbox \o s /\ s \in Seq(Message)
    BY <1>1, <1>2, <1>3, Appending
  <2>2. \A i \in DOMAIN s : s[i] = m
    BY One
  <2> HIDE DEF s
  <2>3. \A i \in DOMAIN s : s[i].type # "up"
    BY <1>4, <2>2
  <2>4. \A e \in Daemons : process[e] # "none" => process'[e] # "none"
    BY <1>1
  <2> QED BY <1>1, <2>1, <2>3, <2>4, ExtendedBacked
<1>12. \A c \in Circuits : NoSession(c) => NoSession(c)'
  BY <1>1, <1>5 DEF NoSession
<1> QED BY <1>8, <1>9, <1>10, <1>11, <1>12 DEF Sessions

(* circd learns that a protocol is up or down. *)
LEMMA HeardStep ==
  ASSUME CircdInv, Sessions, HandleUp \/ HandleDown
  PROVE  Sessions' /\ \A c \in Circuits : NoSession(c) => NoSession(c)'
<1> DEFINE c == Msg.circuit
           p == Msg.protocol
<1>1. /\ inbox # <<>> /\ inbox' = Tail(inbox) /\ Msg = Head(inbox)
      /\ UNCHANGED <<daemons, process, owner, net>>
      /\ \/ Msg.type = "up" /\ protocols_up' = [protocols_up EXCEPT ![c] = @ \cup {p}]
         \/ Msg.type = "down" /\ protocols_up' = [protocols_up EXCEPT ![c] = @ \ {p}]
  BY DEF HandleUp, HandleDown, Receives, Msg, world
<1>2. /\ inbox \in Seq(Message) /\ protocols_up \in [Circuits -> SUBSET Protocols]
      /\ Msg \in Message /\ Msg.type \in {"up", "down"}
  BY <1>1, Types, HeadTailProperties DEF CircdInv, TypeOK
<1>3. /\ c \in Circuits /\ p \in Protocols
      /\ Msg.type = "up" => Msg = UpMessage(c, p)
      /\ Msg.type = "down" => Msg = DownMessage(c, p)
  BY <1>2, MessageIs
<1>4. \A e : Msg # Exited(e)
  BY <1>2, MessageKinds
<1>5. \A e : /\ Has(inbox', Exited(e)) <=> Has(inbox, Exited(e))
             /\ Single(inbox', Exited(e)) <=> Single(inbox, Exited(e))
  BY <1>1, <1>2, <1>4, HasTail
<1>6. Registrations' /\ Served'
  BY <1>1, <1>5 DEF Sessions, Registrations, Served, InUse, Alive
<1> HIDE DEF c, p
<1>7. ASSUME NEW x \in Circuits, NEW q \in Protocols
      PROVE  /\ Msg = UpMessage(x, q) => q \in protocols_up'[x]
             /\ Msg # DownMessage(x, q) /\ q \in protocols_up[x] => q \in protocols_up'[x]
  <2>1. CASE Msg.type = "up"
    <3>1. protocols_up'[x] = IF x = c THEN protocols_up[x] \cup {p} ELSE protocols_up[x]
      BY <1>1, <1>2, <2>1
    <3>2. Msg = UpMessage(x, q) => x = c /\ q = p
      BY <1>3, <2>1, MessageKinds
    <3> QED BY <3>1, <3>2
  <2>2. CASE Msg.type = "down"
    <3>1. protocols_up'[x] = IF x = c THEN protocols_up[x] \ {p} ELSE protocols_up[x]
      BY <1>1, <1>2, <2>2
    <3>2. Msg # UpMessage(x, q)
      BY <2>2, MessageKinds
    <3>3. x = c /\ q = p => Msg = DownMessage(x, q)
      BY <1>3, <2>2
    <3> QED BY <3>1, <3>2, <3>3
  <2> QED BY <1>2, <2>1, <2>2
<1>8. Announced'
  <2>1. /\ \A d \in Daemons : net[d] # {} => owner'[d] = owner[d]
        /\ UNCHANGED net
    BY <1>1
  <2> QED BY <1>1, <1>7, <2>1, TakenAnnounced
<1>9. Backed'
  BY <1>1, TakenBacked
<1>10. \A x \in Circuits : NoSession(x) => NoSession(x)'
  <2>1. CASE Msg.type = "up"
    <3>1. Has(inbox, UpMessage(c, p))
      BY <1>1, <1>2, <1>3, <2>1, HasTail
    <3>2. daemons[c] # {}
      BY <1>3, <3>1, UpHasSession
    <3>3. \A x \in Circuits : x # c => protocols_up'[x] = protocols_up[x]
      BY <1>1, <1>2, <2>1
    <3> QED BY <1>1, <3>2, <3>3 DEF NoSession
  <2>2. CASE Msg.type = "down"
    <3>1. \A x \in Circuits : protocols_up'[x] \subseteq protocols_up[x]
      BY <1>1, <1>2, <2>2
    <3> QED BY <1>1, <3>1 DEF NoSession
  <2> QED BY <1>2, <2>1, <2>2
<1> QED BY <1>6, <1>8, <1>9, <1>10 DEF Sessions

(* Reading a message that says nothing about a daemon *)
LEMMA NeutralRead ==
  ASSUME CircdInv, Sessions, inbox # <<>>, Neutral(Head(inbox)), inbox' = Tail(inbox),
         UNCHANGED <<daemons, protocols_up, process, owner, net>>
  PROVE  Sessions' /\ \A c \in Circuits : NoSession(c) => NoSession(c)'
<1>1. inbox \in Seq(Message) /\ Tail(inbox) \in Seq(Message) /\ <<>> \in Seq(Message)
  BY Types, HeadTailProperties
<1>2. inbox' = Tail(inbox) \o <<>>
  BY <1>1, ConcatEmptySeq
<1>3. Sessions'
  <2> DEFINE t == Tail(inbox)
             s == <<>>
  <2>1. /\ t = Tail(inbox) /\ s \in Seq(Message) /\ inbox' = t \o s
        /\ \A i \in DOMAIN s : Neutral(s[i])
    BY <1>1, <1>2
  <2> HIDE DEF t, s
  <2> QED BY <2>1, NeutralStep
<1>4. \A c \in Circuits : NoSession(c) => NoSession(c)'
  BY DEF NoSession
<1> QED BY <1>3, <1>4

(* circd starts a daemon, for a circuit without one. *)
LEMMA StartStep ==
  ASSUME CircdInv, Sessions, DialFirst, HandleStartDaemon
  PROVE  /\ Sessions'
         /\ \A c \in Circuits : c # Msg.circuit /\ NoSession(c) => NoSession(c)'
<1> DEFINE c == Msg.circuit
<1>1. /\ inbox # <<>> /\ inbox' = Tail(inbox) /\ Msg = Head(inbox) /\ Msg.type = "start_daemon"
      /\ UNCHANGED <<protocols_up, net>>
  BY DEF HandleStartDaemon, Receives, Msg, circuit
<1>2. inbox \in Seq(Message) /\ Msg \in Message
  BY <1>1, Types, HeadTailProperties
<1>3. c \in Circuits /\ Msg = StartDaemon(c)
  BY <1>1, <1>2, MessageIs
<1>4. NoSession(c)
  <2>1. Has(inbox, StartDaemon(c))
    BY <1>1, <1>2, <1>3, HasTail
  <2> QED BY <1>3, <2>1 DEF DialFirst, InFlight, Asked
<1>5. CASE UNCHANGED <<process, owner, daemons>>
  <2>1. Neutral(Head(inbox))
    BY <1>1 DEF Neutral
  <2> QED BY <1>1, <1>5, <2>1, NeutralRead
<1>6. ASSUME NEW d \in Daemons, Unused(d),
             process' = [process EXCEPT ![d] = "running"],
             owner' = [owner EXCEPT ![d] = c],
             daemons' = [x \in Circuits |-> IF x = c THEN {"TERM", "HANGUP"} \X {d}
                                            ELSE {r \in daemons[x] : r[2] # d}]
      PROVE  /\ Sessions'
             /\ \A x \in Circuits : x # c /\ NoSession(x) => NoSession(x)'
  <2>1. /\ process \in [Daemons -> {"none", "running", "killed"}]
        /\ owner \in [Daemons -> Circuits]
    BY DEF CircdInv, TypeOK
  <2> HIDE DEF c
  <2>2. \A e \in Daemons : /\ process'[e] = IF e = d THEN "running" ELSE process[e]
                           /\ owner'[e] = IF e = d THEN c ELSE owner[e]
    BY <1>3, <1>6, <2>1
  <2>3. \A e : Msg # Exited(e)
    BY <1>1, MessageKinds
  <2>4. \A e : /\ Has(inbox', Exited(e)) <=> Has(inbox, Exited(e))
               /\ Single(inbox', Exited(e)) <=> Single(inbox, Exited(e))
    BY <1>1, <1>2, <2>3, HasTail
  <2>5. process[d] = "none" /\ net[d] = {} /\ ~Has(inbox, Exited(d))
    <3>1. \A i \in DOMAIN inbox : inbox[i] # Exited(d)
      BY <1>6, MessageKinds DEF Unused
    <3> QED BY <1>6, <3>1 DEF Unused, Has
  <2>6. ~Alive(d) /\ ~InUse(d) /\ Alive(d)'
    BY <2>2, <2>5 DEF Alive, InUse
  <2>7. \A e \in Daemons : e # d => (Alive(e)' <=> Alive(e))
    BY <2>2, <2>4 DEF Alive
  <2>8. \A e \in Daemons : InUse(e) => owner[e] # c
    <3>1. \A e \in Daemons : Alive(e) => owner[e] # c
      BY <1>3, <1>4, AliveHasSession DEF NoSession
    <3> QED BY <1>4, <3>1 DEF InUse, NoSession
  <2>9. Registrations'
    <3>1. ASSUME NEW x \in Circuits, NEW r \in daemons'[x]
          PROVE  <<"HANGUP", r[2]>> \in daemons'[x] /\ owner'[r[2]] = x /\ Alive(r[2])'
      <4>1. CASE x = c
        <5>1. daemons'[x] = {"TERM", "HANGUP"} \X {d}
          BY <1>3, <1>6, <4>1
        <5>2. r[2] = d /\ <<"HANGUP", d>> \in daemons'[x]
          BY <3>1, <5>1
        <5> QED BY <2>2, <2>6, <4>1, <5>2
      <4>2. CASE x # c
        <5>1. daemons'[x] = {q \in daemons[x] : q[2] # d}
          BY <1>6, <4>2
        <5>2. r \in daemons[x] /\ r[2] # d
          BY <3>1, <5>1
        <5>3. r[2] \in Daemons /\ <<"HANGUP", r[2]>> \in daemons[x] /\ owner[r[2]] = x /\ Alive(r[2])
          BY <5>2, Types DEF Sessions, Registrations
        <5>4. <<"HANGUP", r[2]>> \in daemons'[x]
          BY <5>1, <5>2, <5>3
        <5> QED BY <2>2, <2>7, <5>2, <5>3, <5>4
      <4> QED BY <4>1, <4>2
    <3>2. ASSUME NEW e \in Daemons
          PROVE  /\ Alive(e)' => <<"HANGUP", e>> \in daemons'[owner'[e]]
                 /\ process'[e] # "none" => ~Has(inbox', Exited(e))
                 /\ Single(inbox', Exited(e))
      <4>1. CASE e = d
        <5>1. daemons'[c] = {"TERM", "HANGUP"} \X {d}
          BY <1>3, <1>6
        <5>2. Single(inbox', Exited(e))
          BY <2>4 DEF Sessions, Registrations
        <5> QED BY <2>2, <2>4, <2>5, <4>1, <5>1, <5>2
      <4>2. CASE e # d
        <5>1. Alive(e) => <<"HANGUP", e>> \in daemons[owner[e]] /\ owner[e] # c
          BY <2>8 DEF Sessions, Registrations, InUse
        <5>2. owner[e] \in Circuits
          BY <2>1
        <5>3. owner[e] # c => daemons'[owner[e]] = {q \in daemons[owner[e]] : q[2] # d}
          BY <1>6, <5>2
        <5>4. Alive(e) => <<"HANGUP", e>> \in daemons'[owner[e]]
          BY <4>2, <5>1, <5>3
        <5>5. /\ process[e] # "none" => ~Has(inbox, Exited(e))
              /\ Single(inbox, Exited(e))
          BY DEF Sessions, Registrations
        <5> QED BY <2>2, <2>4, <2>7, <4>2, <5>4, <5>5
      <4> QED BY <4>1, <4>2
    <3> QED BY <3>1, <3>2 DEF Registrations
  <2>10. Served'
    <3>1. \A e \in Daemons : e # d => (InUse(e)' <=> InUse(e))
      BY <1>1, <2>7 DEF InUse
    <3> QED BY <2>2, <2>8, <3>1 DEF Sessions, Served
  <2>11. Announced'
    <3>1. \A e \in Daemons : net[e] # {} => owner'[e] = owner[e]
      BY <2>2, <2>5
    <3>2. \A x, q : Msg # UpMessage(x, q)
      BY <1>1, MessageKinds
    <3> QED BY <1>1, <3>1, <3>2, TakenAnnounced
  <2>12. Backed'
    <3>1. ASSUME NEW e \in Daemons, process[e] # "none" \/ Has(Tail(inbox), Exited(e))
          PROVE  owner'[e] = owner[e] /\ (process[e] # "none" => process'[e] # "none")
      <4>1. e # d
        BY <1>1, <2>4, <2>5, <3>1
      <4> QED BY <2>2, <4>1
    <3> QED BY <1>1, <3>1, TakenBacked
  <2>13. ASSUME NEW x \in Circuits, x # c, NoSession(x)
         PROVE  NoSession(x)'
    <3>1. daemons'[x] = {r \in daemons[x] : r[2] # d}
      BY <1>6, <2>13
    <3>2. \A e \in Daemons : owner'[e] = x => owner[e] = x
      BY <2>2, <2>13
    <3> QED BY <1>1, <2>13, <3>1, <3>2 DEF NoSession
  <2> QED BY <2>9, <2>10, <2>11, <2>12, <2>13 DEF Sessions
<1> QED BY <1>5, <1>6 DEF HandleStartDaemon

(* circd tells the daemons of a circuit to terminate. *)
LEMMA StopStep ==
  ASSUME CircdInv, Sessions, HandleStopDaemon
  PROVE  Sessions' /\ \A c \in Circuits : NoSession(c) => NoSession(c)'
<1> DEFINE c == Msg.circuit
<1>1. /\ inbox # <<>> /\ inbox' = Tail(inbox) /\ Msg = Head(inbox) /\ Msg.type = "stop_daemon"
      /\ daemons' = [daemons EXCEPT ![c] = Deregistered(c, "TERM")]
      /\ UNCHANGED <<protocols_up, net, owner>>
  BY DEF HandleStopDaemon, Receives, Msg, circuit
<1>2. inbox \in Seq(Message) /\ Msg \in Message
  BY <1>1, Types, HeadTailProperties
<1>3. \A d \in Daemons : process'[d] # "none" <=> process[d] # "none"
  BY DEF HandleStopDaemon
<1>4. \A e : Msg # Exited(e)
  BY <1>1, MessageKinds
<1>5. \A e : /\ Has(inbox', Exited(e)) <=> Has(inbox, Exited(e))
             /\ Single(inbox', Exited(e)) <=> Single(inbox, Exited(e))
  BY <1>1, <1>2, <1>4, HasTail
<1>6. ASSUME NEW x \in Circuits
      PROVE  /\ daemons'[x] \subseteq daemons[x]
             /\ \A r \in daemons[x] : r[1] = "HANGUP" => r \in daemons'[x]
  <2>1. daemons'[x] = IF x = c THEN {r \in daemons[c] : r[1] # "TERM"} ELSE daemons[x]
    BY <1>1 DEF CircdInv, TypeOK, Deregistered
  <2> HIDE DEF c
  <2> QED BY <2>1
<1>7. \A d \in Daemons : Alive(d)' <=> Alive(d)
  BY <1>3, <1>5 DEF Alive
<1>8. Registrations'
  <2>1. ASSUME NEW x \in Circuits, NEW r \in daemons'[x]
        PROVE  <<"HANGUP", r[2]>> \in daemons'[x] /\ owner'[r[2]] = x /\ Alive(r[2])'
    <3>1. r \in daemons[x] /\ r[2] \in Daemons
      BY <1>6, Types
    <3>2. <<"HANGUP", r[2]>> \in daemons[x] /\ owner[r[2]] = x /\ Alive(r[2])
      BY <3>1 DEF Sessions, Registrations
    <3>3. <<"HANGUP", r[2]>>[1] = "HANGUP"
      OBVIOUS
    <3> QED BY <1>1, <1>6, <1>7, <3>1, <3>2, <3>3
  <2>2. ASSUME NEW d \in Daemons
        PROVE  Alive(d)' => <<"HANGUP", d>> \in daemons'[owner'[d]]
    <3>1. Alive(d) => <<"HANGUP", d>> \in daemons[owner[d]]
      BY DEF Sessions, Registrations
    <3>2. owner[d] \in Circuits /\ <<"HANGUP", d>>[1] = "HANGUP"
      BY Types
    <3> QED BY <1>1, <1>6, <1>7, <3>1, <3>2
  <2>3. \A d \in Daemons : /\ process'[d] # "none" => ~Has(inbox', Exited(d))
                           /\ Single(inbox', Exited(d))
    BY <1>3, <1>5 DEF Sessions, Registrations
  <2> QED BY <2>1, <2>2, <2>3 DEF Registrations
<1>9. Served'
  BY <1>1, <1>7 DEF Sessions, Served, InUse
<1>10. Announced'
  <2>1. \A x, q : Msg # UpMessage(x, q)
    BY <1>1, MessageKinds
  <2> QED BY <1>1, <2>1, TakenAnnounced
<1>11. Backed'
  BY <1>1, <1>3, TakenBacked
<1>12. \A x \in Circuits : NoSession(x) => NoSession(x)'
  BY <1>1, <1>6 DEF NoSession
<1> QED BY <1>8, <1>9, <1>10, <1>11, <1>12 DEF Sessions

(* circd learns that a daemon has exited. *)
LEMMA ExitedStep ==
  ASSUME CircdInv, Sessions, HandleDaemonExited
  PROVE  Sessions' /\ \A c \in Circuits : NoSession(c) => NoSession(c)'
<1>1. /\ inbox # <<>> /\ inbox' = Tail(inbox) /\ Msg = Head(inbox) /\ Msg.type = "daemon_exited"
      /\ daemons' = [c \in Circuits |-> {r \in daemons[c] : r[2] # Msg.daemon}]
      /\ UNCHANGED <<protocols_up, process, net, owner>>
  BY DEF HandleDaemonExited, Receives, Msg, circuit, world
<1>2. inbox \in Seq(Message) /\ Msg \in Message
  BY <1>1, Types, HeadTailProperties
<1>3. PICK d \in Daemons : d = Msg.daemon /\ Msg = Exited(d)
  BY <1>1, <1>2, MessageIs
<1>4. \A e \in Daemons : e # d => Msg # Exited(e)
  BY <1>3, MessageKinds
<1>5. \A e \in Daemons : /\ e # d => (Has(inbox', Exited(e)) <=> Has(inbox, Exited(e)))
                         /\ Single(inbox, Exited(e)) => Single(inbox', Exited(e))
                         /\ Has(inbox', Exited(e)) => Has(inbox, Exited(e))
  BY <1>1, <1>2, <1>4, HasTail
<1>6. ~Alive(d)'
  <2>1. Has(inbox, Exited(d)) /\ (Single(inbox, Exited(d)) => ~Has(inbox', Exited(d)))
    BY <1>1, <1>2, <1>3, HasTail
  <2>2. process[d] = "none" /\ Single(inbox, Exited(d))
    BY <1>3, <2>1 DEF Sessions, Registrations
  <2> QED BY <1>1, <2>1, <2>2 DEF Alive
<1>7. \A e \in Daemons : /\ e # d => (Alive(e)' <=> Alive(e))
                         /\ Alive(e)' => Alive(e)
  BY <1>1, <1>5 DEF Alive
<1>8. Registrations'
  <2>1. ASSUME NEW x \in Circuits, NEW r \in daemons'[x]
        PROVE  <<"HANGUP", r[2]>> \in daemons'[x] /\ owner'[r[2]] = x /\ Alive(r[2])'
    <3>1. r \in daemons[x] /\ r[2] \in Daemons /\ r[2] # d
      BY <1>1, <1>3, Types
    <3>2. <<"HANGUP", r[2]>> \in daemons[x] /\ owner[r[2]] = x /\ Alive(r[2])
      BY <3>1 DEF Sessions, Registrations
    <3>3. <<"HANGUP", r[2]>> \in daemons'[x]
      BY <1>1, <1>3, <3>1, <3>2
    <3> QED BY <1>1, <1>7, <3>1, <3>2, <3>3
  <2>2. ASSUME NEW e \in Daemons
        PROVE  Alive(e)' => <<"HANGUP", e>> \in daemons'[owner'[e]]
    <3>1. Alive(e) => <<"HANGUP", e>> \in daemons[owner[e]]
      BY DEF Sessions, Registrations
    <3>2. owner[e] \in Circuits
      BY Types
    <3>3. daemons'[owner[e]] = {r \in daemons[owner[e]] : r[2] # d}
      BY <1>1, <1>3, <3>2
    <3>4. Alive(e)' => e # d /\ Alive(e)
      BY <1>6, <1>7
    <3> QED BY <1>1, <3>1, <3>3, <3>4
  <2>3. \A e \in Daemons : /\ process'[e] # "none" => ~Has(inbox', Exited(e))
                           /\ Single(inbox', Exited(e))
    BY <1>1, <1>5 DEF Sessions, Registrations
  <2> QED BY <2>1, <2>2, <2>3 DEF Registrations
<1>9. Served'
  BY <1>1, <1>7 DEF Sessions, Served, InUse
<1>10. Announced'
  <2>1. \A x, q : Msg # UpMessage(x, q)
    BY <1>1, MessageKinds
  <2> QED BY <1>1, <2>1, TakenAnnounced
<1>11. Backed'
  BY <1>1, TakenBacked
<1>12. \A x \in Circuits : NoSession(x) => NoSession(x)'
  BY <1>1 DEF NoSession
<1> QED BY <1>8, <1>9, <1>10, <1>11, <1>12 DEF Sessions

-----------------------------------------------------------------------------
(* Steps of the other processes *)

(* What they leave alone *)
LEMMA QuietStep ==
  ASSUME CircdInv, LifeInv, UNCHANGED <<todo, state, operation, protocols_up, daemons>>,
         \A c \in Circuits : InFlight(c)' => InFlight(c),
         \A c \in Circuits : NoSession(c) => NoSession(c)'
  PROVE  DialFirst' /\ Waiting' /\ Stack' /\ HeadRight' /\ Chains'
<1>1. \A c \in Circuits : Decided(c)' <=> Decided(c)
  BY DEF Decided
<1>2. SomeDecided' <=> SomeDecided
  BY <1>1 DEF SomeDecided
<1>3. DialFirst'
  BY <1>1 DEF LifeInv, DialFirst
<1>4. Waiting'
  BY <1>1 DEF LifeInv, Waiting
<1>5. Stack'
  BY DEF LifeInv, Stack, FitCall, LowerCall
<1>6. Chains'
  BY <1>1 DEF LifeInv, Chains
<1>7. HeadRight'
  <2>1. todo # <<>> => Head(todo).circuit \in Circuits
    BY Types, HeadTailProperties, CallTypes
  <2>2. \A c : DependenciesMet(c, FALSE)' <=> DependenciesMet(c, FALSE)
    BY DEF DependenciesMet, IsOnline, IsAtLeastReady
  <2> QED BY <1>1, <1>2, <2>1, <2>2 DEF LifeInv, HeadRight
<1> QED BY <1>3, <1>4, <1>5, <1>6, <1>7

(* A message at the end of the inbox that does not ask for a daemon *)
LEMMA NotAsked ==
  ASSUME CircdInv, AllSucceed, NEW m \in Success, m.type # "start_daemon",
         inbox' = Append(inbox, m)
  PROVE  /\ AllSucceed'
         /\ \A c : /\ Asked(c)' <=> Asked(c)
                   /\ Single(inbox, StartDaemon(c)) => Single(inbox, StartDaemon(c))'
<1>1. inbox \in Seq(Message) /\ inbox \in Seq(Success) /\ m \in Message
  BY Types DEF AllSucceed, Success
<1>2. \A c : m # StartDaemon(c)
  BY MessageKinds
<1>3. \A c : /\ Has(inbox', StartDaemon(c)) <=> Has(inbox, StartDaemon(c))
             /\ Single(inbox', StartDaemon(c)) <=> Single(inbox, StartDaemon(c))
  BY <1>1, <1>2, HasAppended
<1>4. inbox' \in Seq(Success)
  BY <1>1, AppendProperties
<1>5. AllSucceed'
  BY <1>4 DEF AllSucceed, Success
<1> QED BY <1>3, <1>5 DEF Asked

(* Steps that leave the dials where they are *)
LEMMA SameDials ==
  ASSUME CircdInv, LifeInv, UNCHANGED <<todo, queue, worker, state, translated>>,
         \A c : /\ Asked(c)' <=> Asked(c)
                /\ Single(inbox, StartDaemon(c)) => Single(inbox, StartDaemon(c))'
  PROVE  /\ OneDial' /\ Interface'
         /\ \A c \in Circuits : InFlight(c)' => InFlight(c)
<1>1. \A c \in Circuits : /\ Decided(c)' <=> Decided(c)
                          /\ Queued(c)' <=> Queued(c)
                          /\ InFlight(c)' <=> InFlight(c)
  BY DEF Decided, Queued, InFlight, Dials
<1>2. \A c \in Circuits : Dials(c)' <=> Dials(c)
  BY DEF Dials
<1> QED BY <1>1, <1>2 DEF LifeInv, OneDial, Interface

(* The queue process takes a message. *)
LEMMA QueueTakesStep ==
  ASSUME CircdInv, LifeInv, NEW c \in Circuits, QueueTakes(c)
  PROVE  LifeInv'
<1> DEFINE q == queue[c]
           m == [type |-> "child_exited", child |-> <<"q", c>>]
           w == worker'[c]
<1>1. /\ worker[c] = "idle" /\ q # <<>>
      /\ queue' = [queue EXCEPT ![c] = Tail(@)]
      /\ IF Head(q) = "quit"
         THEN worker' = [worker EXCEPT ![c] = "gone"] /\ inbox' = Append(inbox, m)
         ELSE worker' = [worker EXCEPT ![c] = Head(q)] /\ UNCHANGED inbox
      /\ UNCHANGED <<todo, state, operation, protocols_up, daemons, translated,
                     process, owner, net>>
  BY DEF QueueTakes, circuit, world
<1>2. /\ q \in Seq({"dial", "hangup", "quit"}) /\ Head(q) \in {"dial", "hangup", "quit"}
      /\ Tail(q) \in Seq({"dial", "hangup", "quit"})
  BY <1>1, Types, HeadTailProperties
<1>3. /\ queue'[c] = Tail(q) /\ w = IF Head(q) = "quit" THEN "gone" ELSE Head(q)
      /\ \A x \in Circuits : x # c => queue'[x] = queue[x] /\ worker'[x] = worker[x]
  BY <1>1 DEF CircdInv, TypeOK
<1>4. m \in Success /\ m.type = "child_exited"
  BY DEF Success, SwitchesOff, Message
<1> HIDE DEF m, w
<1>5. /\ \A x : /\ Asked(x)' <=> Asked(x)
                /\ Single(inbox, StartDaemon(x)) => Single(inbox, StartDaemon(x))'
      /\ AllSucceed'
  <2>1. CASE inbox' = Append(inbox, m)
    BY <1>4, <2>1, NotAsked DEF LifeInv
  <2>2. CASE inbox' = inbox
    BY <2>2 DEF LifeInv, AllSucceed, Success, Asked
  <2> QED BY <1>1, <2>1, <2>2
<1>6. \A x \in {"dial", "hangup", "quit"} :
        /\ Has(q, x) <=> Head(q) = x \/ Has(Tail(q), x)
        /\ Single(q, x) <=> Single(Tail(q), x) /\ ~(Head(q) = x /\ Has(Tail(q), x))
  BY <1>1, <1>2, HasTail
<1>7. Single(q, "dial") /\ (Queued(c) <=> Has(q, "dial")) /\ (Queued(c)' <=> Has(Tail(q), "dial"))
  BY <1>3 DEF LifeInv, OneDial, Queued
<1>8. /\ InFlight(c)' => InFlight(c)
      /\ w = "dial" => ~Queued(c)' /\ Queued(c)
      /\ w # "dial" => (Queued(c)' <=> Queued(c))
      /\ Single(Tail(q), "dial")
  BY <1>1, <1>2, <1>3, <1>5, <1>6, <1>7 DEF InFlight, Dials, w
<1>9. \A x \in Circuits : /\ x # c => (Queued(x)' <=> Queued(x)) /\ (InFlight(x)' <=> InFlight(x))
                          /\ Decided(x)' <=> Decided(x)
  BY <1>1, <1>3, <1>5 DEF Queued, InFlight, Dials, Decided
<1>10. OneDial'
  <2>1. ASSUME NEW x \in Circuits
        PROVE  /\ Single(todo', After("dialled", x))
               /\ Single(queue'[x], "dial") /\ Single(inbox', StartDaemon(x))
               /\ Decided(x)' => ~InFlight(x)'
    BY <1>1, <1>3, <1>5, <1>8, <1>9 DEF LifeInv, OneDial
  <2>2. ASSUME NEW x \in Circuits
        PROVE  /\ Queued(x)' => ~Dials(x)' /\ ~Asked(x)'
               /\ Dials(x)' => ~Asked(x)'
    <3>1. CASE x = c
      <4>1. Dials(c)' <=> w = "dial"
        BY <1>2, <1>3 DEF Dials, w
      <4> QED BY <1>5, <1>8, <3>1, <4>1 DEF LifeInv, OneDial
    <3>2. CASE x # c
      BY <1>3, <1>5, <1>9, <3>2 DEF LifeInv, OneDial, Dials
    <3> QED BY <3>1, <3>2
  <2> QED BY <2>1, <2>2 DEF OneDial
<1>11. ASSUME Head(q) = "hangup"
       PROVE  translated[c]
  <2>1. ~DialBefore(q)
    <3>1. 1 \in DOMAIN q /\ q[1] = "hangup"
      BY <1>1, <1>2, <1>11, Splitting
    <3>2. \A j \in DOMAIN q : ~ (j < 1)
      BY <1>2, LenProperties
    <3> QED BY <3>1, <3>2 DEF DialBefore
  <2> QED BY <1>1, <2>1 DEF LifeInv, Interface
<1>12. Interface'
  <2>1. ASSUME NEW x \in Circuits
        PROVE  /\ translated[x] \/ worker'[x] \in {"dial", "gone"} \/ DialBefore(queue'[x])
               /\ worker'[x] = "hangup" => translated[x]
               /\ state[x] \in Up =>
                    translated[x] \/ Decided(x)' \/ Queued(x)' \/ worker'[x] \in {"dial", "gone"}
    <3>1. CASE x = c
      <4>1. translated[c] \/ w \in {"dial", "gone"}
        BY <1>2, <1>3, <1>11
      <4> QED BY <3>1, <4>1 DEF w
    <3>2. CASE x # c
      BY <1>3, <1>9, <3>2 DEF LifeInv, Interface
    <3> QED BY <3>1, <3>2
  <2> QED BY <1>1, <2>1 DEF Interface
<1>13. Sessions' /\ \A x \in Circuits : NoSession(x) => NoSession(x)'
  <2>1. \A x \in Circuits : NoSession(x) => NoSession(x)'
    BY <1>1 DEF NoSession
  <2>2. CASE inbox' = Append(inbox, m)
    <3> DEFINE s == <<m>>
    <3>1. inbox' = inbox \o s /\ s \in Seq(Message)
      BY <1>4, <2>2, Types, Appending DEF Success
    <3>2. \A i \in DOMAIN s : Neutral(s[i])
      BY <1>4, One DEF Neutral
    <3> HIDE DEF s
    <3> QED BY <1>1, <2>1, <3>1, <3>2, NeutralStep DEF LifeInv
  <2>3. CASE inbox' = inbox
    BY <1>1, <2>1, <2>3
       DEF LifeInv, Sessions, Registrations, Served, Announced, Backed, InUse, Alive
  <2> QED BY <1>1, <2>2, <2>3
<1>14. \A x \in Circuits : InFlight(x)' => InFlight(x)
  BY <1>8, <1>9
<1>15. DialFirst' /\ Waiting' /\ Stack' /\ HeadRight' /\ Chains'
  BY <1>1, <1>13, <1>14, QuietStep
<1> QED BY <1>5, <1>10, <1>12, <1>13, <1>15 DEF LifeInv

(* A message that asks for a daemon *)
LEMMA AskedMore ==
  ASSUME CircdInv, AllSucceed, NEW c \in Circuits, inbox' = Append(inbox, StartDaemon(c))
  PROVE  /\ AllSucceed'
         /\ \A x : /\ Asked(x)' <=> Asked(x) \/ x = c
                   /\ Single(inbox', StartDaemon(x)) <=>
                        Single(inbox, StartDaemon(x)) /\ ~(Asked(x) /\ x = c)
<1>1. /\ inbox \in Seq(Message) /\ inbox \in Seq(Success)
      /\ StartDaemon(c) \in Success /\ StartDaemon(c) \in Message
  BY Types DEF AllSucceed, Success, SwitchesOff, StartDaemon, Message
<1>2. \A x : StartDaemon(x) = StartDaemon(c) <=> x = c
  BY MessageKinds
<1>3. \A x : /\ Has(inbox', StartDaemon(x)) <=> Has(inbox, StartDaemon(x)) \/ x = c
             /\ Single(inbox', StartDaemon(x)) <=>
                  Single(inbox, StartDaemon(x)) /\ ~(Has(inbox, StartDaemon(x)) /\ x = c)
  BY <1>1, <1>2, HasAppended
<1>4. inbox' \in Seq(Success)
  BY <1>1, AppendProperties
<1>5. AllSucceed'
  BY <1>4 DEF AllSucceed, Success
<1> QED BY <1>3, <1>5 DEF Asked

(* A control script asks circd to start the daemon. *)
LEMMA DaemonAsked ==
  ASSUME CircdInv, LifeInv, NEW c \in Circuits, Dials(c),
         worker' = [worker EXCEPT ![c] = "idle"],
         inbox' = Append(inbox, StartDaemon(c)),
         \/ translated' = [translated EXCEPT ![c] = TRUE]
         \/ worker[c] # "dial" /\ UNCHANGED translated,
         UNCHANGED <<todo, state, operation, protocols_up, daemons, queue, process, owner, net>>
  PROVE  LifeInv'
<1>1. /\ worker'[c] = "idle" /\ ~Dials(c)'
      /\ \A x \in Circuits : x # c => /\ worker'[x] = worker[x] /\ translated'[x] = translated[x]
                                      /\ Dials(x)' <=> Dials(x)
      /\ translated'[c] \/ (worker[c] # "dial" /\ UNCHANGED translated)
  BY DEF CircdInv, TypeOK, Dials
<1>2. StartDaemon(c) \in Message
  BY DEF StartDaemon, Message
<1>3. /\ AllSucceed'
      /\ \A x : /\ Asked(x)' <=> Asked(x) \/ x = c
                /\ Single(inbox', StartDaemon(x)) <=>
                     Single(inbox, StartDaemon(x)) /\ ~(Asked(x) /\ x = c)
  BY AskedMore DEF LifeInv
<1>4. \A x \in Circuits : /\ Decided(x)' <=> Decided(x)
                          /\ Queued(x)' <=> Queued(x)
                          /\ InFlight(x)' <=> InFlight(x)
  <2>1. \A x \in Circuits : (Decided(x)' <=> Decided(x)) /\ (Queued(x)' <=> Queued(x))
    BY DEF Decided, Queued
  <2>2. InFlight(c) /\ InFlight(c)'
    BY <1>3 DEF InFlight
  <2>3. \A x \in Circuits : x # c => (InFlight(x)' <=> InFlight(x))
    BY <1>1, <1>3, <2>1 DEF InFlight
  <2> QED BY <2>1, <2>2, <2>3
<1>5. OneDial'
  <2>1. ASSUME NEW x \in Circuits
        PROVE  /\ Single(todo', After("dialled", x))
               /\ Single(queue'[x], "dial") /\ Single(inbox', StartDaemon(x))
               /\ Decided(x)' => ~InFlight(x)'
    <3>1. x = c => ~Asked(x)
      BY DEF LifeInv, OneDial
    <3> QED BY <1>3, <1>4, <3>1 DEF LifeInv, OneDial
  <2>2. ASSUME NEW x \in Circuits
        PROVE  /\ Queued(x)' => ~Dials(x)' /\ ~Asked(x)'
               /\ Dials(x)' => ~Asked(x)'
    <3>1. CASE x = c
      <4>1. ~Queued(c)
        BY DEF LifeInv, OneDial
      <4> QED BY <1>1, <1>4, <3>1, <4>1
    <3>2. CASE x # c
      BY <1>1, <1>3, <1>4, <3>2 DEF LifeInv, OneDial
    <3> QED BY <3>1, <3>2
  <2> QED BY <2>1, <2>2 DEF OneDial
<1>6. Interface'
  <2>1. worker[c] \notin {"gone", "hangup"}
    BY DEF Dials
  <2>2. ASSUME NEW x \in Circuits
        PROVE  /\ translated'[x] \/ worker'[x] \in {"dial", "gone"} \/ DialBefore(queue[x])
               /\ worker'[x] = "hangup" => translated'[x]
               /\ state[x] \in Up =>
                    translated'[x] \/ Decided(x)' \/ Queued(x)' \/ worker'[x] \in {"dial", "gone"}
    <3>1. CASE x = c
      BY <1>1, <1>4, <2>1, <3>1 DEF LifeInv, Interface
    <3>2. CASE x # c
      BY <1>1, <1>4, <3>2 DEF LifeInv, Interface
    <3> QED BY <3>1, <3>2
  <2> QED BY <2>2 DEF Interface
<1>7. Sessions' /\ \A x \in Circuits : NoSession(x) => NoSession(x)'
  <2>1. \A x \in Circuits : NoSession(x) => NoSession(x)'
    BY DEF NoSession
  <2> DEFINE s == <<StartDaemon(c)>>
  <2>2. inbox' = inbox \o s /\ s \in Seq(Message)
    BY <1>2, Appending
  <2>3. \A i \in DOMAIN s : Neutral(s[i])
    BY One, MessageKinds DEF Neutral
  <2> HIDE DEF s
  <2> QED BY <2>1, <2>2, <2>3, NeutralStep DEF LifeInv
<1>8. DialFirst' /\ Waiting' /\ Stack' /\ HeadRight' /\ Chains'
  BY <1>4, <1>7, QuietStep
<1> QED BY <1>3, <1>5, <1>6, <1>7, <1>8 DEF LifeInv

(* Messages that have nothing to do with daemons and protocols *)
LEMMA NeutralSent ==
  ASSUME CircdInv, LifeInv, NEW m \in Success, Neutral(m), m.type # "start_daemon",
         inbox' = Append(inbox, m),
         UNCHANGED <<todo, state, operation, protocols_up, daemons, queue, process, owner, net>>,
         \A c \in Circuits :
           /\ Dials(c)' <=> Dials(c)
           /\ translated[c] => translated'[c]
           /\ worker[c] \in {"dial", "gone"} => translated'[c] \/ worker'[c] \in {"dial", "gone"}
           /\ worker'[c] = "hangup" => worker[c] = "hangup"
  PROVE  LifeInv'
<1>1. /\ \A x : /\ Asked(x)' <=> Asked(x)
                /\ Single(inbox, StartDaemon(x)) => Single(inbox, StartDaemon(x))'
      /\ AllSucceed'
  BY NotAsked DEF LifeInv
<1>2. \A x \in Circuits : /\ Decided(x)' <=> Decided(x)
                          /\ Queued(x)' <=> Queued(x)
                          /\ InFlight(x)' <=> InFlight(x)
  BY <1>1 DEF Decided, Queued, InFlight
<1>3. OneDial' /\ Interface'
  BY <1>1, <1>2 DEF LifeInv, OneDial, Interface
<1>4. Sessions' /\ \A x \in Circuits : NoSession(x) => NoSession(x)'
  <2>1. \A x \in Circuits : NoSession(x) => NoSession(x)'
    BY DEF NoSession
  <2> DEFINE s == <<m>>
  <2>2. inbox' = inbox \o s /\ s \in Seq(Message)
    BY Types, Appending DEF Success
  <2>3. \A i \in DOMAIN s : Neutral(s[i])
    BY One
  <2> HIDE DEF s
  <2> QED BY <2>1, <2>2, <2>3, NeutralStep DEF LifeInv
<1>5. DialFirst' /\ Waiting' /\ Stack' /\ HeadRight' /\ Chains'
  BY <1>2, <1>4, QuietStep
<1> QED BY <1>1, <1>3, <1>4, <1>5 DEF LifeInv

(* The control script has dialled, or asks for the dial mode first. *)
LEMMA DialScriptStep ==
  ASSUME CircdInv, LifeInv, NoScriptFails, NEW c \in Circuits, DialScript(c)
  PROVE  LifeInv'
<1>1. PICK found \in BOOLEAN, type \in {"start_daemon", "get_effective_dialmode", "dialup_failed"} :
        /\ type = "start_daemon" => found
        /\ type = "get_effective_dialmode" => found
        /\ failures' = failures + (IF type = "dialup_failed" THEN 1 ELSE 0)
        /\ failures' <= MaxFailures
        /\ translated' = [translated EXCEPT ![c] = @ \/ found]
        /\ worker' = [worker EXCEPT ![c] =
                        IF type = "get_effective_dialmode" THEN "asks" ELSE "idle"]
        /\ inbox' = Append(inbox, [type |-> type, circuit |-> c])
  BY DEF DialScript
<1>2. type # "dialup_failed" /\ found
  <2>1. failures \in Nat
    BY CircdAssumption DEF CircdInv, TypeOK
  <2>2. type = "dialup_failed" => failures' = failures + 1
    BY <1>1
  <2> QED BY <1>1, <2>1, <2>2 DEF NoScriptFails
<1>3. /\ worker[c] = "dial" /\ Dials(c)
      /\ translated' = [translated EXCEPT ![c] = TRUE]
      /\ UNCHANGED <<todo, state, operation, protocols_up, daemons, queue, process, owner, net>>
  BY <1>1, <1>2 DEF DialScript, Dials, circuit, world
<1>4. CASE type = "start_daemon"
  BY <1>1, <1>3, <1>4, DaemonAsked DEF StartDaemon
<1>5. CASE type = "get_effective_dialmode"
  <2> DEFINE m == [type |-> "get_effective_dialmode", circuit |-> c]
  <2>1. m \in Success /\ Neutral(m) /\ m.type # "start_daemon"
    BY DEF Success, SwitchesOff, Message, Neutral
  <2>2. inbox' = Append(inbox, m) /\ worker' = [worker EXCEPT ![c] = "asks"]
    BY <1>1, <1>5
  <2> HIDE DEF m
  <2>3. ASSUME NEW x \in Circuits
        PROVE  /\ Dials(x)' <=> Dials(x)
               /\ translated[x] => translated'[x]
               /\ worker[x] \in {"dial", "gone"} => translated'[x] \/ worker'[x] \in {"dial", "gone"}
               /\ worker'[x] = "hangup" => worker[x] = "hangup"
    BY <1>3, <2>2 DEF CircdInv, TypeOK, Dials
  <2> QED BY <1>3, <2>1, <2>2, <2>3, NeutralSent
<1> QED BY <1>2, <1>4, <1>5

(* A script that has asked may dial. *)
LEMMA DialAnsweredStep ==
  ASSUME CircdInv, LifeInv, Permitted, NEW c \in Circuits, DialAnswered(c)
  PROVE  LifeInv'
<1>1. /\ worker[c] = "allowed" /\ Dials(c)
      /\ worker' = [worker EXCEPT ![c] = "idle"]
      /\ inbox' = Append(inbox, StartDaemon(c))
      /\ UNCHANGED <<todo, state, operation, protocols_up, daemons, queue, process, owner, net,
                     translated>>
  BY DEF DialAnswered, Permitted, Dials, StartDaemon, circuit, world
<1> QED BY <1>1, DaemonAsked

(* The control script hangs up, and does not fail. *)
LEMMA HangupScriptStep ==
  ASSUME CircdInv, LifeInv, NEW c \in Circuits, HangupScript(c)
  PROVE  LifeInv'
<1> DEFINE m == [type |-> "stop_daemon", circuit |-> c]
<1>1. worker[c] = "hangup" /\ translated[c]
  BY DEF HangupScript, LifeInv, Interface
<1>2. /\ inbox' = Append(inbox, m)
      /\ worker' = [worker EXCEPT ![c] = "idle"]
      /\ UNCHANGED <<todo, state, operation, protocols_up, daemons, queue, process, owner, net,
                     translated>>
  BY <1>1 DEF HangupScript, circuit, world
<1>3. m \in Success /\ Neutral(m) /\ m.type # "start_daemon"
  BY DEF Success, SwitchesOff, Message, Neutral
<1> HIDE DEF m
<1>4. \A x \in Circuits :
        /\ Dials(x)' <=> Dials(x)
        /\ worker[x] \in {"dial", "gone"} => worker'[x] = worker[x]
        /\ worker'[x] = "hangup" => worker[x] = "hangup"
  BY <1>1, <1>2 DEF CircdInv, TypeOK, Dials
<1> QED BY <1>2, <1>3, <1>4, NeutralSent

(* A command is sent. *)
LEMMA SendStep ==
  ASSUME CircdInv, LifeInv, NoScriptFails, NEW m \in Commands, Send(m)
  PROVE  LifeInv'
<1>1. m \in Command /\ (SwitchesOff(m) => AsksMode = {})
  BY CircdAssumption DEF NoScriptFails
<1>2. m \in Success /\ Neutral(m) /\ m.type # "start_daemon"
  <2>1. m \in Message /\ m.type \in CircuitCommand \cup
          {"set_global_dialmode", "set_local_dialmode", "stop_service"}
    BY <1>1 DEF Message, Command
  <2> QED BY <1>1, <2>1 DEF Success, Neutral, CircuitCommand
<1>3. /\ inbox' = Append(inbox, m)
      /\ UNCHANGED <<todo, state, operation, protocols_up, daemons, queue, process, owner, net,
                     translated, worker>>
  BY DEF Send, circuit, world, scripts
<1>4. \A x \in Circuits : Dials(x)' <=> Dials(x)
  BY <1>3 DEF Dials
<1> QED BY <1>2, <1>3, <1>4, NeutralSent

(* A daemon connects, loses a connection or exits. *)
LEMMA DaemonStep ==
  ASSUME CircdInv, LifeInv, NEW d \in Daemons, Daemon(d)
  PROVE  LifeInv'
<1>1. UNCHANGED <<todo, queue, worker, state, translated, operation, protocols_up, daemons>>
  BY DEF Daemon, DaemonExits, ProtocolUp, ProtocolDown, circuit, scripts
<1>2. /\ inbox \in Seq(Message) /\ inbox \in Seq(Success)
      /\ owner[d] \in Circuits
  BY Types DEF LifeInv, AllSucceed
<1>3. /\ Sessions' /\ \A c \in Circuits : NoSession(c) => NoSession(c)'
      /\ AllSucceed'
      /\ \A c : /\ Asked(c)' <=> Asked(c)
                /\ Single(inbox, StartDaemon(c)) => Single(inbox, StartDaemon(c))'
  <2>1. CASE DaemonExits(d)
    <3>1. /\ Sessions' /\ \A c \in Circuits : NoSession(c) => NoSession(c)'
          /\ \A c : /\ Asked(c)' <=> Asked(c)
                    /\ Single(inbox, StartDaemon(c)) => Single(inbox, StartDaemon(c))'
      BY <2>1, ExitsStep, MessageKinds DEF LifeInv, Asked
    <3> DEFINE k == [type |-> "child_exited",
                     child |-> IF d \in named THEN <<"d", d>> ELSE Circd]
               s == <<Exited(d), k>>
    <3>2. Exited(d) \in Success /\ k \in Success
      BY DEF Success, SwitchesOff, Message, Exited
    <3>3. inbox' = inbox \o s
      BY <2>1 DEF DaemonExits, Exited
    <3> HIDE DEF k
    <3>4. s \in Seq(Success)
      BY <3>2
    <3> HIDE DEF s
    <3>5. inbox' \in Seq(Success)
      BY <1>2, <3>3, <3>4, ConcatProperties
    <3>6. AllSucceed'
      BY <3>5 DEF AllSucceed, Success
    <3> QED BY <3>1, <3>6
  <2>2. ASSUME NEW p \in Protocols, NEW m, m = UpMessage(owner[d], p) \/ m = DownMessage(owner[d], p),
               inbox' = Append(inbox, m)
        PROVE  /\ AllSucceed'
               /\ \A c : /\ Asked(c)' <=> Asked(c)
                         /\ Single(inbox, StartDaemon(c)) => Single(inbox, StartDaemon(c))'
    <3>1. m \in Success /\ m.type # "start_daemon"
      BY <1>2, <2>2 DEF Success, SwitchesOff, Message, UpMessage, DownMessage
    <3> QED BY <2>2, <3>1, NotAsked DEF LifeInv
  <2>3. ASSUME NEW p \in Protocols, ProtocolUp(d, p)
        PROVE  /\ Sessions' /\ \A c \in Circuits : NoSession(c) => NoSession(c)'
               /\ inbox' = Append(inbox, UpMessage(owner[d], p))
    BY <2>3, UpStep DEF LifeInv, ProtocolUp, Announce, UpMessage
  <2>4. ASSUME NEW p \in Protocols, ProtocolDown(d, p)
        PROVE  /\ Sessions' /\ \A c \in Circuits : NoSession(c) => NoSession(c)'
               /\ inbox' = Append(inbox, DownMessage(owner[d], p))
    BY <2>4, DownStep DEF LifeInv, ProtocolDown, Announce, DownMessage
  <2> QED BY <2>1, <2>2, <2>3, <2>4 DEF Daemon
<1> QED BY <1>1, <1>3, SameDials, QuietStep DEF LifeInv

-----------------------------------------------------------------------------
(* The stack *)

(* Calls are put on what is left of the stack. *)
LEMMA Pushed ==
  ASSUME NEW calls \in Seq(FitCall), calls # <<>> => Tail(calls) \in Seq(LowerCall),
         NEW rest \in Seq(LowerCall), todo' = calls \o rest,
         Ordered(calls), Ordered(rest),
         \A i \in DOMAIN calls : \A j \in DOMAIN rest : MayPrecede(calls[i], rest[j]),
         \A c \in Circuits :
           Has(calls, After("hung_up", c)) \/ Has(rest, After("hung_up", c)) => daemons'[c] = {}
  PROVE  /\ Stack'
         /\ \A c : Decided(c)' <=> Has(calls, After("dialled", c)) \/ Has(rest, After("dialled", c))
         /\ \A c : Single(todo', After("dialled", c)) <=>
                     /\ Single(calls, After("dialled", c)) /\ Single(rest, After("dialled", c))
                     /\ ~(Has(calls, After("dialled", c)) /\ Has(rest, After("dialled", c)))
<1>1. LowerCall \subseteq FitCall
  BY DEF LowerCall
<1>2. rest \in Seq(FitCall)
  BY <1>1, SeqMonotonic
<1>3. todo' \in Seq(FitCall)
  BY <1>2, ConcatProperties
<1>4. todo' # <<>> => Tail(todo') \in Seq(LowerCall)
  <2>1. CASE calls = <<>>
    <3>1. todo' = rest
      BY <1>2, <2>1, ConcatEmptySeq
    <3> QED BY <3>1, HeadTailProperties
  <2>2. CASE calls # <<>>
    <3>1. calls = <<Head(calls)>> \o Tail(calls) /\ Tail(calls) \in Seq(FitCall)
          /\ <<Head(calls)>> \in Seq(FitCall)
      BY <2>2, Splitting
    <3>2. todo' = <<Head(calls)>> \o (Tail(calls) \o rest)
      BY <1>2, <3>1, ConcatAssociative
    <3>3. Tail(calls) \o rest \in Seq(LowerCall)
      BY <2>2, ConcatProperties
    <3> DEFINE h == Head(calls)
               t == Tail(calls) \o rest
    <3>4. t \in Seq(FitCall) /\ h \in FitCall /\ todo' = <<h>> \o t
      BY <1>1, <2>2, <3>2, <3>3, HeadTailProperties, SeqMonotonic
    <3> HIDE DEF h, t
    <3>5. Tail(<<h>> \o t) = t
      BY <3>4
    <3> QED BY <3>3, <3>4, <3>5 DEF t
  <2> QED BY <2>1, <2>2
<1>5. Ordered(todo')
  BY <1>2, OrderedJoined
<1>6. \A c : /\ Has(todo', After("dialled", c)) <=>
                  Has(calls, After("dialled", c)) \/ Has(rest, After("dialled", c))
             /\ Single(todo', After("dialled", c)) <=>
                     /\ Single(calls, After("dialled", c)) /\ Single(rest, After("dialled", c))
                     /\ ~(Has(calls, After("dialled", c)) /\ Has(rest, After("dialled", c)))
             /\ Has(todo', After("hung_up", c)) <=>
                  Has(calls, After("hung_up", c)) \/ Has(rest, After("hung_up", c))
  BY <1>2, HasJoined
<1>7. Stack'
  BY <1>3, <1>4, <1>5, <1>6 DEF Stack, FitCall, LowerCall
<1> QED BY <1>6, <1>7 DEF Decided

-----------------------------------------------------------------------------
(* Handlers *)

(* A handler takes the first message and asks for no daemon. *)
LEMMA Taken ==
  ASSUME CircdInv, AllSucceed, inbox # <<>>, inbox' = Tail(inbox)
  PROVE  /\ AllSucceed'
         /\ Head(inbox) \in Success
         /\ \A c : /\ Asked(c) <=> Head(inbox) = StartDaemon(c) \/ Asked(c)'
                   /\ Single(inbox, StartDaemon(c)) =>
                        /\ Single(inbox, StartDaemon(c))'
                        /\ ~(Head(inbox) = StartDaemon(c) /\ Asked(c)')
<1>1. inbox \in Seq(Message) /\ inbox \in Seq(Success)
  BY Types DEF AllSucceed
<1>2. inbox' \in Seq(Success) /\ Head(inbox) \in Success
  BY <1>1, HeadTailProperties
<1>3. AllSucceed'
  BY <1>2 DEF AllSucceed, Success
<1>4. \A c : /\ Has(inbox, StartDaemon(c)) <=> Head(inbox) = StartDaemon(c) \/ Has(inbox', StartDaemon(c))
             /\ Single(inbox, StartDaemon(c)) <=>
                  /\ Single(inbox', StartDaemon(c))
                  /\ ~(Head(inbox) = StartDaemon(c) /\ Has(inbox', StartDaemon(c)))
  BY <1>1, HasTail
<1> QED BY <1>2, <1>3, <1>4 DEF Asked

(* A handler that does not dial *)
LEMMA HandledWith ==
  ASSUME CircdInv, LifeInv, todo = <<>>,
         UNCHANGED <<state, worker, translated>>,
         Sessions', AllSucceed', Stack', HeadRight',
         \A c \in Circuits :
           /\ ~Decided(c)'
           /\ NoSession(c) => NoSession(c)' \/ (state[c] \in Up /\ ~InFlight(c)')
           /\ Asked(c)' => Asked(c)
           /\ Single(inbox, StartDaemon(c)) => Single(inbox, StartDaemon(c))'
           /\ Queued(c)' <=> Queued(c)
           /\ Single(queue[c], "dial") => Single(queue'[c], "dial")
           /\ translated[c] \/ worker[c] \in {"dial", "gone"} \/ DialBefore(queue'[c])
  PROVE  LifeInv'
<1>1. \A c \in Circuits : ~Decided(c)
  BY HasOne DEF Decided
<1>2. \A c \in Circuits : (Dials(c)' <=> Dials(c)) /\ (InFlight(c)' => InFlight(c))
  BY DEF InFlight, Dials
<1>3. \A c \in Circuits : Single(todo', After("dialled", c))
  BY DEF Decided, Has, Single
<1>4. OneDial'
  BY <1>2, <1>3 DEF LifeInv, OneDial
<1>5. DialFirst'
  BY <1>2 DEF LifeInv, DialFirst
<1>6. Waiting'
  BY <1>2 DEF LifeInv, Waiting
<1>7. Interface'
  BY <1>1 DEF LifeInv, Interface
<1>8. Chains'
  BY DEF LifeInv, Chains
<1> QED BY <1>4, <1>5, <1>6, <1>7, <1>8 DEF LifeInv

(* Most handlers send nothing to a queue process. *)
LEMMA HandledStep ==
  ASSUME CircdInv, LifeInv, todo = <<>>,
         UNCHANGED <<state, queue, worker, translated>>,
         Sessions', AllSucceed', Stack', HeadRight',
         \A c \in Circuits :
           /\ ~Decided(c)'
           /\ NoSession(c) => NoSession(c)' \/ (state[c] \in Up /\ ~InFlight(c)')
           /\ Asked(c)' => Asked(c)
           /\ Single(inbox, StartDaemon(c)) => Single(inbox, StartDaemon(c))'
  PROVE  LifeInv'
<1>1. \A c \in Circuits :
        /\ Queued(c)' <=> Queued(c)
        /\ Single(queue[c], "dial") => Single(queue'[c], "dial")
        /\ translated[c] \/ worker[c] \in {"dial", "gone"} \/ DialBefore(queue'[c])
  BY DEF LifeInv, Interface, Queued
<1> QED BY <1>1, HandledWith

(* The first call, spelled out *)
LEMMA HeadIs ==
  ASSUME NEW x, NEW c, todo' # <<>>, Head(todo') = x, x.circuit = c,
         x.fn = "change_state" =>
             /\ x.to = "ready" => (state[c] = "active" /\ Decided(c) /\ DependenciesMet(c, FALSE))'
             /\ x.to \in {"semionline", "online"} => (state[c] \in Up /\ ~SomeDecided)'
             /\ x.to \in {"inactive", "active", "failed"} =>
                  (NoSession(c) /\ ~InFlight(c) /\ ~SomeDecided)',
         x.fn = "finalize_hangup" => (~InFlight(c) /\ ~SomeDecided)',
         x.fn = "react" /\ x.position = 0 =>
             (/\ state[c] = x.to
              /\ Decided(c) => DependenciesMet(c, FALSE))'
  PROVE  HeadRight'
BY DEF HeadRight, InFlight, Dials, NoSession, Decided, Queued, Asked, DependenciesMet, SomeDecided

(* The stacks a handler begins with, if it does not dial *)
LEMMA NoCalls ==
  ASSUME todo' = <<>>
  PROVE  Stack' /\ HeadRight' /\ \A c : ~Decided(c)'
<1>1. \A m : ~Has(todo', m)
  BY HasOne
<1> QED BY <1>1, OrderedFew DEF Stack, HeadRight, Decided

LEMMA OneCall ==
  ASSUME NEW x \in FitCall, todo' = <<x>>, x.fn \notin {"dialled", "hung_up"}
  PROVE  Stack' /\ Head(todo') = x /\ (\A c : ~Decided(c)') /\ ~SomeDecided'
<1>1. \A c : x # After("dialled", c) /\ x # After("hung_up", c)
  BY CallKinds
<1>2. \A c : ~Has(todo', After("dialled", c)) /\ ~Has(todo', After("hung_up", c))
  BY <1>1, HasOne
<1>3. Tail(todo') = <<>> /\ Head(todo') = x
  OBVIOUS
<1> QED BY <1>2, <1>3, OrderedFew DEF Stack, Decided, SomeDecided, FitCall, LowerCall

(* Messages without a consequence *)
LEMMA IdleStep ==
  ASSUME CircdInv, LifeInv, todo = <<>>, inbox # <<>>, inbox' = Tail(inbox),
         Head(inbox).type # "start_daemon",
         UNCHANGED <<state, queue, worker, translated>>,
         Sessions', \A c \in Circuits : NoSession(c) => NoSession(c)',
         Stack', HeadRight', \A c \in Circuits : ~Decided(c)'
  PROVE  LifeInv'
<1>1. \A c : Head(inbox) # StartDaemon(c)
  BY MessageKinds
<1>2. AllSucceed' /\ \A c : /\ Asked(c)' => Asked(c)
                            /\ Single(inbox, StartDaemon(c)) => Single(inbox, StartDaemon(c))'
  BY <1>1, Taken DEF LifeInv
<1> QED BY <1>2, HandledStep

(* A message that says nothing about a daemon *)
LEMMA NeutralHandled ==
  ASSUME CircdInv, LifeInv, NEW type, Receives(type), inbox' = Tail(inbox),
         type \notin {"up", "down", "daemon_exited", "start_daemon"},
         UNCHANGED <<state, queue, worker, translated, daemons, protocols_up, process, owner, net>>,
         Stack', HeadRight', \A c \in Circuits : ~Decided(c)'
  PROVE  LifeInv'
<1>1. todo = <<>> /\ inbox # <<>> /\ Head(inbox).type = type
  BY DEF Receives
<1>2. Neutral(Head(inbox)) /\ Head(inbox).type # "start_daemon"
  BY <1>1 DEF Neutral
<1>3. Sessions' /\ \A c \in Circuits : NoSession(c) => NoSession(c)'
  BY <1>1, <1>2, NeutralRead DEF LifeInv
<1> QED BY <1>1, <1>2, <1>3, IdleStep

(* The calls handlers begin with *)
LEMMA CallsFit ==
  ASSUME NEW c \in Circuits
  PROVE  /\ \A s \in State : ChangeState(c, s) \in FitCall
         /\ FinalizeHangup(c) \in FitCall
         /\ \A what \in {"dialled", "went_online", "hung_up", "stop_queue"} :
              After(what, c) \in LowerCall
BY DEF ChangeState, FinalizeHangup, After, FitCall, LowerCall, Call

LEMMA OneChange ==
  ASSUME NEW c \in Circuits, NEW s \in State, s # "ready", todo' = <<ChangeState(c, s)>>,
         s \in {"semionline", "online"} => (state[c] \in Up)',
         s \in {"inactive", "active", "failed"} => (NoSession(c) /\ ~InFlight(c))'
  PROVE  Stack' /\ HeadRight' /\ \A x : ~Decided(x)'
<1> DEFINE k == ChangeState(c, s)
<1>1. /\ k.fn = "change_state" /\ k.circuit = c /\ k.to = s
  BY CallKinds
<1>2. k \in FitCall /\ todo' = <<k>>
  BY CallsFit
<1> HIDE DEF k
<1>3. todo' # <<>>
  BY <1>2
<1>4. /\ Stack' /\ Head(todo') = k /\ ~SomeDecided' /\ \A x : ~Decided(x)'
  BY <1>1, <1>2, OneCall
<1> QED BY <1>1, <1>3, <1>4, HeadIs

LEMMA OneFinalize ==
  ASSUME NEW c \in Circuits, todo' = <<FinalizeHangup(c)>>, ~InFlight(c)'
  PROVE  Stack' /\ HeadRight' /\ \A x : ~Decided(x)'
<1> DEFINE k == FinalizeHangup(c)
<1>1. /\ k.fn = "finalize_hangup" /\ k.circuit = c
      /\ k \in FitCall /\ todo' = <<k>>
  BY CallKinds, CallsFit
<1> HIDE DEF k
<1>2. /\ Stack' /\ Head(todo') = k /\ ~SomeDecided' /\ \A x : ~Decided(x)'
  BY <1>1, OneCall
<1>3. todo' # <<>>
  BY <1>1
<1> QED BY <1>1, <1>2, <1>3, HeadIs

LEMMA GoesOnline ==
  ASSUME NEW c \in Circuits, (state[c] \in Up)',
         todo' = <<ChangeState(c, "online"), After("went_online", c)>>
  PROVE  Stack' /\ HeadRight' /\ \A x : ~Decided(x)'
<1> DEFINE k == ChangeState(c, "online")
           a == After("went_online", c)
           calls == <<k, a>>
<1>1. /\ k.fn = "change_state" /\ k.circuit = c /\ k.to = "online"
      /\ k \in FitCall /\ a \in LowerCall /\ a.fn = "went_online" /\ a \in FitCall
  BY CallKinds, CallsFit DEF State, LowerCall
<1>2. todo' = calls
  OBVIOUS
<1> HIDE DEF k, a
<1>3. calls \in Seq(FitCall) /\ Tail(calls) \in Seq(LowerCall) /\ Head(calls) = k /\ calls # <<>>
  BY <1>1
<1>4. \A x : k # After("dialled", x) /\ k # After("hung_up", x)
             /\ a # After("dialled", x) /\ a # After("hung_up", x)
  BY <1>1, CallKinds
<1>5. \A m : Has(calls, m) <=> k = m \/ a = m
  BY DEF Has
<1>6. MayPrecede(k, a)
  BY <1>1 DEF MayPrecede
<1> HIDE DEF calls
<1>7. /\ todo' = calls
      /\ \A x : ~Has(todo', After("dialled", x)) /\ ~Has(todo', After("hung_up", x))
  BY <1>2, <1>4, <1>5
<1>8. Ordered(todo')
  BY <1>6, <1>7, OrderedFew DEF calls
<1>9. Stack' /\ ~SomeDecided' /\ \A x : ~Decided(x)'
  BY <1>3, <1>7, <1>8 DEF Stack, FitCall, LowerCall, Decided, SomeDecided
<1> QED BY <1>1, <1>3, <1>7, <1>9, HeadIs

(* What is true of a circuit without a dial on its way stays so. *)
LEMMA StillNotInFlight ==
  ASSUME CircdInv, LifeInv, inbox # <<>>, inbox' = Tail(inbox), UNCHANGED <<queue, worker>>,
         NEW c, ~InFlight(c)
  PROVE  ~InFlight(c)'
BY Taken DEF LifeInv, InFlight, Dials, Queued

LEMMA ActivateStep ==
  ASSUME CircdInv, LifeInv, HandleActivate
  PROVE  LifeInv'
<1>1. /\ Receives("activate") /\ inbox' = Tail(inbox) /\ inbox # <<>>
      /\ UNCHANGED <<state, queue, worker, translated, daemons, protocols_up, process, owner, net>>
  BY DEF HandleActivate, circuit, scripts, world, Receives
<1>2. PICK c \in Circuits : c = Msg.circuit
  BY <1>1, Received, MessageTypes DEF CircdInv
<1>3. \/ todo' = <<>>
      \/ todo' = <<ChangeState(c, "active")>> /\ state[c] \in {"inactive", "failed"}
  BY <1>2 DEF HandleActivate
<1>4. Stack' /\ HeadRight' /\ \A x : ~Decided(x)'
  <2>1. CASE todo' = <<ChangeState(c, "active")>> /\ state[c] \in {"inactive", "failed"}
    <3>1. NoSession(c) /\ ~InFlight(c)
      BY <2>1 DEF LifeInv, Waiting, Up
    <3>2. NoSession(c)' /\ ~InFlight(c)'
      BY <1>1, <3>1, StillNotInFlight DEF NoSession
    <3> QED BY <2>1, <3>2, OneChange DEF State
  <2> QED BY <1>3, <2>1, NoCalls
<1> QED BY <1>1, <1>4, NeutralHandled

LEMMA ChildExitedStep ==
  ASSUME CircdInv, LifeInv, HandleChildExited
  PROVE  LifeInv'
<1>1. /\ Receives("child_exited") /\ inbox' = Tail(inbox) /\ todo' = <<>>
      /\ UNCHANGED <<state, queue, worker, translated, daemons, protocols_up, process, owner, net>>
  BY DEF HandleChildExited, circuit, scripts, world, Receives
<1> QED BY <1>1, NoCalls, NeutralHandled

(* A script is told the dial mode. *)
LEMMA GetModeStep ==
  ASSUME CircdInv, LifeInv, HandleGetMode
  PROVE  LifeInv'
<1>1. /\ inbox # <<>> /\ inbox' = Tail(inbox) /\ Head(inbox).type = "get_effective_dialmode"
      /\ UNCHANGED <<todo, state, operation, queue, translated, daemons, protocols_up, process,
                     owner, net>>
  BY DEF HandleGetMode, circuit, world, Receives
<1>2. ASSUME NEW x \in Circuits
      PROVE  worker'[x] = worker[x] \/ (worker[x] = "asks" /\ worker'[x] \in {"allowed", "refused"})
  BY DEF HandleGetMode, CircdInv, TypeOK
<1>3. \A x \in Circuits :
        /\ Dials(x)' <=> Dials(x)
        /\ worker'[x] = "hangup" => worker[x] = "hangup"
        /\ worker[x] \in {"dial", "gone"} => worker'[x] \in {"dial", "gone"}
  BY <1>2 DEF Dials
<1>4. /\ AllSucceed'
      /\ \A x : /\ Asked(x)' <=> Asked(x)
                /\ Single(inbox, StartDaemon(x)) => Single(inbox, StartDaemon(x))'
  <2>1. \A x : Head(inbox) # StartDaemon(x)
    BY <1>1, MessageKinds
  <2> QED BY <1>1, <2>1, Taken DEF LifeInv
<1>5. \A x \in Circuits : /\ Decided(x)' <=> Decided(x)
                          /\ Queued(x)' <=> Queued(x)
                          /\ InFlight(x)' <=> InFlight(x)
  BY <1>1, <1>3, <1>4 DEF Decided, Queued, InFlight
<1>6. OneDial' /\ Interface'
  BY <1>1, <1>3, <1>4, <1>5 DEF LifeInv, OneDial, Interface
<1>7. Sessions' /\ \A x \in Circuits : NoSession(x) => NoSession(x)'
  <2>1. Neutral(Head(inbox))
    BY <1>1 DEF Neutral
  <2> QED BY <1>1, <2>1, NeutralRead DEF LifeInv
<1>8. DialFirst' /\ Waiting' /\ Stack' /\ HeadRight' /\ Chains'
  BY <1>1, <1>5, <1>7, QuietStep
<1> QED BY <1>4, <1>6, <1>7, <1>8 DEF LifeInv

LEMMA StopDaemonStep ==
  ASSUME CircdInv, LifeInv, HandleStopDaemon
  PROVE  LifeInv'
<1>1. /\ Receives("stop_daemon") /\ inbox # <<>> /\ inbox' = Tail(inbox) /\ todo' = <<>>
      /\ todo = <<>> /\ Head(inbox).type # "start_daemon"
      /\ UNCHANGED <<state, queue, worker, translated>>
  BY DEF HandleStopDaemon, circuit, scripts, Receives
<1> QED BY <1>1, NoCalls, StopStep, IdleStep DEF LifeInv

LEMMA DaemonExitedStep ==
  ASSUME CircdInv, LifeInv, HandleDaemonExited
  PROVE  LifeInv'
<1>1. /\ Receives("daemon_exited") /\ inbox # <<>> /\ inbox' = Tail(inbox) /\ todo = <<>>
      /\ Head(inbox).type # "start_daemon"
      /\ UNCHANGED <<state, queue, worker, translated>>
      /\ \/ todo' = <<>>
         \/ \E c \in Circuits : /\ Msg.daemon \in Registered(c, "HANGUP")
                               /\ todo' = <<FinalizeHangup(c)>>
  BY DEF HandleDaemonExited, circuit, scripts, Receives
<1>2. ASSUME NEW c \in Circuits, Msg.daemon \in Registered(c, "HANGUP"),
             todo' = <<FinalizeHangup(c)>>
      PROVE  Stack' /\ HeadRight' /\ \A x : ~Decided(x)'
  <2>1. ~InFlight(c)
    BY <1>2 DEF LifeInv, DialFirst, NoSession, Registered
  <2> QED BY <1>1, <1>2, <2>1, StillNotInFlight, OneFinalize
<1>3. Stack' /\ HeadRight' /\ \A x : ~Decided(x)'
  BY <1>1, <1>2, NoCalls
<1> QED BY <1>1, <1>3, ExitedStep, IdleStep DEF LifeInv

LEMMA ReportStep ==
  ASSUME CircdInv, LifeInv, HandleUp \/ HandleDown
  PROVE  LifeInv'
<1>1. /\ inbox # <<>> /\ inbox' = Tail(inbox) /\ todo = <<>> /\ Msg = Head(inbox)
      /\ Msg.type \in {"up", "down"}
      /\ UNCHANGED <<state, queue, worker, translated>>
  BY DEF HandleUp, HandleDown, circuit, scripts, Receives, Msg
<1>2. inbox \in Seq(Message) /\ Msg \in Message
  BY <1>1, Types, HeadTailProperties
<1>3. PICK c \in Circuits, p \in Protocols : c = Msg.circuit /\ p = Msg.protocol
  BY <1>1, <1>2, MessageTypes
<1>4. CASE HandleUp
  <2>1. Msg = UpMessage(c, p)
    BY <1>2, <1>3, <1>4, MessageIs DEF HandleUp, Receives, Msg
  <2>2. Has(inbox, UpMessage(c, p))
    BY <1>1, <1>2, <2>1, HasTail
  <2>3. state[c] \in Up
    BY <2>2, UpHasSession DEF LifeInv, Waiting, NoSession
  <2>4. \/ todo' = <<>>
        \/ todo' = <<ChangeState(c, "online"), After("went_online", c)>>
        \/ todo' = <<ChangeState(c, "semionline")>>
    BY <1>3, <1>4 DEF HandleUp
  <2>5. Stack' /\ HeadRight' /\ \A x : ~Decided(x)'
    BY <1>1, <2>3, <2>4, NoCalls, OneChange, GoesOnline DEF State
  <2> QED BY <1>1, <1>4, <2>5, HeardStep, IdleStep DEF LifeInv
<1>5. CASE HandleDown
  <2>1. \/ todo' = <<>>
        \/ protocols_up[c] # {} /\ todo' = <<FinalizeHangup(c)>>
        \/ protocols_up[c] # {} /\ todo' = <<ChangeState(c, "semionline")>>
    BY <1>3, <1>5 DEF HandleDown
  <2>2. protocols_up[c] # {} => state[c] \in Up /\ ~InFlight(c)
    BY DEF LifeInv, DialFirst, Waiting, NoSession
  <2>3. ~InFlight(c) => ~InFlight(c)'
    BY <1>1, StillNotInFlight
  <2>4. Stack' /\ HeadRight' /\ \A x : ~Decided(x)'
    BY <1>1, <2>1, <2>2, <2>3, NoCalls, OneChange, OneFinalize DEF State
  <2> QED BY <1>1, <1>5, <2>4, HeardStep, IdleStep DEF LifeInv
<1> QED BY <1>4, <1>5

(* No message tells of a failed script. *)
LEMMA NoFailure ==
  ASSUME CircdInv, LifeInv
  PROVE  ~HandleDialupFailed /\ ~HandleHangupFailed
<1> SUFFICES ASSUME inbox # <<>>
             PROVE  Head(inbox).type \notin {"dialup_failed", "hangup_failed"}
  BY DEF HandleDialupFailed, HandleHangupFailed, Receives
<1>1. Head(inbox) \in Success
  BY HeadTailProperties DEF LifeInv, AllSucceed
<1> QED BY <1>1 DEF Success

(* circd sends itself messages that deactivate all circuits. *)
LEMMA StopServiceStep ==
  ASSUME CircdInv, LifeInv, HandleStopService
  PROVE  LifeInv'
<1>1. /\ Receives("stop_service") /\ todo' = <<>> /\ todo = <<>> /\ inbox # <<>>
      /\ Head(inbox).type = "stop_service"
      /\ UNCHANGED <<state, queue, worker, translated, daemons, protocols_up, process, owner, net>>
  BY DEF HandleStopService, circuit, scripts, world, Receives
<1>2. CASE inbox' = Tail(inbox)
  BY <1>1, <1>2, NoCalls, NeutralHandled
<1> DEFINE message(i) == [type |-> "deactivate", circuit |-> Order[i]]
           s == [i \in DOMAIN Order |-> message(i)]
<1>3. CASE inbox' = Tail(inbox) \o s
  <2>1. /\ s \in Seq(Message) /\ s \in Seq(Success)
        /\ \A i \in DOMAIN s : Neutral(s[i]) /\ s[i].type # "start_daemon"
    <3>1. Order \in Seq(Circuits) /\ Len(Order) \in Nat /\ DOMAIN Order = 1 .. Len(Order)
      BY CircdAssumption, LenProperties
    <3>2. ASSUME NEW i \in DOMAIN Order
          PROVE  /\ message(i) \in Message /\ message(i) \in Success
                 /\ Neutral(message(i)) /\ message(i).type # "start_daemon"
      <4>1. Order[i] \in Circuits
        BY <3>1
      <4> QED BY <4>1 DEF Message, Success, SwitchesOff, Command, CircuitCommand, Neutral
    <3> HIDE DEF message
    <3>3. \A i \in 1 .. Len(Order) : message(i) \in Message /\ message(i) \in Success
      BY <3>1, <3>2
    <3>4. s = [i \in 1 .. Len(Order) |-> message(i)]
      BY <3>1
    <3>5. s \in Seq(Message) /\ s \in Seq(Success)
      BY <3>1, <3>3, <3>4, IsASeq
    <3> QED BY <3>2, <3>5
  <2> HIDE DEF s
  <2>2. inbox \in Seq(Message) /\ inbox \in Seq(Success) /\ Head(inbox) \in Success
        /\ Tail(inbox) \in Seq(Message) /\ Tail(inbox) \in Seq(Success)
    BY <1>1, Types, HeadTailProperties DEF LifeInv, AllSucceed
  <2>3. inbox' \in Seq(Success)
    BY <1>3, <2>1, <2>2, ConcatProperties
  <2>4. AllSucceed'
    BY <2>3 DEF AllSucceed, Success
  <2>5. Neutral(Head(inbox)) /\ Head(inbox).type # "start_daemon"
    BY <1>1 DEF Neutral
  <2>6. Sessions'
    <3> DEFINE t == Tail(inbox)
    <3>1. t = Tail(inbox) /\ inbox' = t \o s
      BY <1>3
    <3> HIDE DEF t
    <3> QED BY <1>1, <2>1, <2>5, <3>1, NeutralStep DEF LifeInv
  <2>7. ASSUME NEW c \in Circuits
        PROVE  /\ Asked(c)' => Asked(c)
               /\ Single(inbox, StartDaemon(c)) => Single(inbox, StartDaemon(c))'
    <3>1. ~Has(s, StartDaemon(c)) /\ Single(s, StartDaemon(c))
      BY <2>1, MessageKinds DEF Has, Single
    <3>2. /\ Has(inbox', StartDaemon(c)) <=> Has(Tail(inbox), StartDaemon(c))
          /\ Single(inbox', StartDaemon(c)) <=> Single(Tail(inbox), StartDaemon(c))
      BY <1>3, <2>1, <2>2, <3>1, HasJoined
    <3>3. /\ Has(Tail(inbox), StartDaemon(c)) => Has(inbox, StartDaemon(c))
          /\ Single(inbox, StartDaemon(c)) => Single(Tail(inbox), StartDaemon(c))
      BY <1>1, <2>2, HasTail
    <3> QED BY <3>2, <3>3 DEF Asked
  <2>8. \A c \in Circuits : NoSession(c) => NoSession(c)'
    BY <1>1 DEF NoSession
  <2>9. Stack' /\ HeadRight' /\ \A c : ~Decided(c)'
    BY <1>1, NoCalls
  <2> QED BY <1>1, <2>4, <2>6, <2>7, <2>8, <2>9, HandledStep
<1> QED BY <1>2, <1>3 DEF HandleStopService

(* The dial of a circuit is over when its daemon is started. *)
LEMMA StartDaemonStep ==
  ASSUME CircdInv, LifeInv, HandleStartDaemon
  PROVE  LifeInv'
<1>1. /\ inbox # <<>> /\ inbox' = Tail(inbox) /\ todo = <<>> /\ todo' = <<>>
      /\ Msg = Head(inbox) /\ Msg.type = "start_daemon"
      /\ UNCHANGED <<state, queue, worker, translated>>
  BY DEF HandleStartDaemon, circuit, scripts, Receives, Msg
<1>2. PICK c \in Circuits : Msg = StartDaemon(c) /\ c = Msg.circuit
  <2>1. Msg \in Message
    BY <1>1, Types, HeadTailProperties
  <2> QED BY <1>1, <2>1, MessageIs
<1>3. /\ AllSucceed'
      /\ \A x : /\ Asked(x)' => Asked(x)
                /\ Single(inbox, StartDaemon(x)) => Single(inbox, StartDaemon(x))'
      /\ Asked(c) /\ (Single(inbox, StartDaemon(c)) => ~Asked(c)')
  BY <1>1, <1>2, Taken DEF LifeInv
<1>4. state[c] \in Up /\ ~InFlight(c)'
  <2>1. state[c] \in Up
    BY <1>3 DEF LifeInv, Waiting, InFlight
  <2>2. ~Queued(c) /\ ~Dials(c) /\ ~Asked(c)'
    BY <1>3 DEF LifeInv, OneDial
  <2> QED BY <1>1, <2>1, <2>2 DEF InFlight, Dials, Queued
<1>5. Sessions' /\ \A x \in Circuits : x # c /\ NoSession(x) => NoSession(x)'
  BY <1>2, StartStep DEF LifeInv
<1>6. Stack' /\ HeadRight' /\ \A x : ~Decided(x)'
  BY <1>1, NoCalls
<1> QED BY <1>1, <1>3, <1>4, <1>5, <1>6, HandledStep

(* A message is put into the queue of a circuit. *)
LEMMA QueueAppended ==
  ASSUME CircdInv, NEW c \in Circuits, NEW m \in {"dial", "hangup", "quit"}, ToQueue(c, m)
  PROVE  /\ \A x \in Circuits : x # c \/ worker[c] = "gone" => queue'[x] = queue[x]
         /\ worker[c] # "gone" =>
              /\ Has(queue'[c], "dial") <=> Has(queue[c], "dial") \/ m = "dial"
              /\ Single(queue'[c], "dial") <=>
                   Single(queue[c], "dial") /\ ~(Has(queue[c], "dial") /\ m = "dial")
              /\ DialBefore(queue[c]) /\ (m = "hangup" => Has(queue[c], "dial"))
                   => DialBefore(queue'[c])
<1> DEFINE q == queue[c]
           a == Append(q, m)
<1>1. q \in Seq({"dial", "hangup", "quit"})
  BY Types
<1>2. /\ \A x \in Circuits : x # c \/ worker[c] = "gone" => queue'[x] = queue[x]
      /\ worker[c] # "gone" => queue'[c] = a
  BY DEF CircdInv, TypeOK, ToQueue
<1>3. /\ Has(a, "dial") <=> Has(q, "dial") \/ m = "dial"
      /\ Single(a, "dial") <=> Single(q, "dial") /\ ~(Has(q, "dial") /\ m = "dial")
  BY <1>1, HasAppended
<1>4. /\ Len(q) \in Nat /\ DOMAIN q = 1 .. Len(q) /\ DOMAIN a = 1 .. Len(q) + 1
      /\ \A i \in DOMAIN q : a[i] = q[i]
      /\ a[Len(q) + 1] = m
  BY <1>1, AppendProperties, LenProperties
<1>5. DialBefore(q) /\ (m = "hangup" => Has(q, "dial")) => DialBefore(a)
  <2> HIDE DEF a, q
  <2> SUFFICES ASSUME DialBefore(q), m = "hangup" => Has(q, "dial"),
                      NEW i \in DOMAIN a, a[i] = "hangup"
               PROVE  \E j \in DOMAIN a : j < i /\ a[j] = "dial"
    BY DEF DialBefore
  <2>1. CASE i \in DOMAIN q
    <3>1. PICK j \in DOMAIN q : j < i /\ q[j] = "dial"
      BY <1>4, <2>1 DEF DialBefore
    <3> QED BY <1>4, <3>1
  <2>2. CASE i = Len(q) + 1
    <3>1. PICK j \in DOMAIN q : q[j] = "dial"
      BY <1>4, <2>2 DEF Has
    <3>2. j < i /\ j \in DOMAIN a
      BY <1>4, <2>2
    <3> QED BY <1>4, <3>1, <3>2
  <2> QED BY <1>4, <2>1, <2>2
<1> QED BY <1>2, <1>3, <1>5

(* Hanging up a circuit that is up: its dial is not disturbed, and comes   *)
(* first.                                                                  *)
LEMMA HangupQueued ==
  ASSUME CircdInv, LifeInv, NEW c \in Circuits, NEW t, state[c] \in Up, ~Decided(c),
         CircuitHangup(c, t)
  PROVE  \A x \in Circuits :
           /\ Queued(x)' <=> Queued(x)
           /\ Single(queue[x], "dial") => Single(queue'[x], "dial")
           /\ translated[x] \/ worker[x] \in {"dial", "gone"} \/ DialBefore(queue'[x])
<1>1. CASE UNCHANGED queue
  BY <1>1 DEF LifeInv, Interface, Queued
<1>2. CASE ToQueue(c, "hangup")
  <2>1. /\ \A x \in Circuits : x # c \/ worker[c] = "gone" => queue'[x] = queue[x]
        /\ worker[c] # "gone" =>
             /\ Has(queue'[c], "dial") <=> Has(queue[c], "dial")
             /\ Single(queue'[c], "dial") <=> Single(queue[c], "dial")
             /\ DialBefore(queue[c]) /\ Has(queue[c], "dial") => DialBefore(queue'[c])
    BY <1>2, QueueAppended
  <2>2. /\ \A x \in Circuits : translated[x] \/ worker[x] \in {"dial", "gone"} \/ DialBefore(queue[x])
        /\ translated[c] \/ Queued(c) \/ worker[c] \in {"dial", "gone"}
    BY DEF LifeInv, Interface
  <2> QED BY <2>1, <2>2 DEF Queued
<1> QED BY <1>1, <1>2 DEF CircuitHangup

LEMMA HangupStep ==
  ASSUME CircdInv, LifeInv, HandleHangup
  PROVE  LifeInv'
<1>1. PICK type \in {"hangup", "deactivate", "fail"} : Receives(type)
  BY DEF HandleHangup
<1>2. /\ inbox # <<>> /\ inbox' = Tail(inbox) /\ todo = <<>>
      /\ Head(inbox).type = type
      /\ UNCHANGED <<state, worker, translated, daemons, protocols_up, process, owner, net>>
  BY <1>1 DEF HandleHangup, circuit, scripts, world, Receives, Msg
<1>3. PICK c \in Circuits : c = Msg.circuit
  BY <1>1, Received, MessageTypes DEF CircdInv
<1>4. CASE state[c] \in Up
  <2>1. CircuitHangup(c, Target(Msg.type)) /\ todo' = <<>>
    BY <1>2, <1>3, <1>4 DEF HandleHangup
  <2>2. ~Decided(c)
    BY <1>2, HasOne DEF Decided
  <2>3. \A x \in Circuits :
           /\ Queued(x)' <=> Queued(x)
           /\ Single(queue[x], "dial") => Single(queue'[x], "dial")
           /\ translated[x] \/ worker[x] \in {"dial", "gone"} \/ DialBefore(queue'[x])
    BY <1>4, <2>1, <2>2, HangupQueued
  <2>4. Neutral(Head(inbox)) /\ \A x : Head(inbox) # StartDaemon(x)
    BY <1>2, MessageKinds DEF Neutral
  <2>5. Sessions' /\ \A x \in Circuits : NoSession(x) => NoSession(x)'
    BY <1>2, <2>4, NeutralRead DEF LifeInv
  <2>6. AllSucceed' /\ \A x : /\ Asked(x)' => Asked(x)
                              /\ Single(inbox, StartDaemon(x)) => Single(inbox, StartDaemon(x))'
    BY <1>2, <2>4, Taken DEF LifeInv
  <2>7. Stack' /\ HeadRight' /\ \A x : ~Decided(x)'
    BY <2>1, NoCalls
  <2> QED BY <1>2, <2>3, <2>5, <2>6, <2>7, HandledWith
<1>5. CASE state[c] \notin Up
  <2>1. todo' = <<FinalizeHangup(c)>> /\ UNCHANGED queue
    BY <1>3, <1>5 DEF HandleHangup
  <2>2. ~InFlight(c)
    BY <1>5 DEF LifeInv, Waiting
  <2>3. Stack' /\ HeadRight' /\ \A x : ~Decided(x)'
    BY <1>2, <2>1, <2>2, StillNotInFlight, OneFinalize
  <2> QED BY <1>1, <1>2, <2>1, <2>3, NeutralHandled
<1> QED BY <1>4, <1>5

(* One round for every circuit *)
LEMMA SetModeStep ==
  ASSUME CircdInv, LifeInv, HandleSetMode
  PROVE  LifeInv'
<1>1. PICK type \in {"set_global_dialmode", "set_local_dialmode"} : Receives(type)
  BY DEF HandleSetMode
<1>2. /\ inbox' = Tail(inbox) /\ todo = <<>>
      /\ UNCHANGED <<state, queue, worker, translated, daemons, protocols_up, process, owner, net>>
  BY <1>1 DEF HandleSetMode, circuit, scripts, world, Receives
<1>3. CASE UNCHANGED todo
  BY <1>1, <1>2, <1>3, NoCalls, NeutralHandled
<1> DEFINE old == [c \in Circuits |-> EffectiveMode(c)]
           new == [c \in Circuits |-> EffectiveMode(c)']
           call(i) == [fn |-> "mode_change", circuit |-> Order[i],
                       old |-> old[Order[i]], mode |-> new[Order[i]]]
<1>4. CASE todo' = ModeChanges(old, new)
  <2>1. Order \in Seq(Circuits) /\ Len(Order) \in Nat /\ DOMAIN Order = 1 .. Len(Order)
    BY CircdAssumption, LenProperties
  <2>2. TypeOK /\ TypeOK'
    BY <1>1, SetModeInv DEF CircdInv
  <2>3. \A i \in 1 .. Len(Order) : call(i) \in LowerCall /\ call(i).fn = "mode_change"
    <3>1. ASSUME NEW i \in 1 .. Len(Order)
          PROVE  call(i) \in LowerCall /\ call(i).fn = "mode_change"
      <4>1. Order[i] \in Circuits
        BY <2>1
      <4>2. old[Order[i]] \in Mode
        BY <2>2, <4>1, EffectiveModeType
      <4>3. EffectiveMode(Order[i])' \in Mode
        <5>1. global_mode' \in Mode /\ local_mode' \in [Circuits -> Mode]
          BY <2>2 DEF TypeOK
        <5> QED BY <4>1, <5>1 DEF EffectiveMode, Smaller, Mode
      <4>4. new[Order[i]] = EffectiveMode(Order[i])'
        BY <4>1
      <4> HIDE DEF old, new
      <4> QED BY <4>1, <4>2, <4>3, <4>4 DEF LowerCall, FitCall, Call
    <3> QED BY <3>1
  <2>4. todo' = [i \in 1 .. Len(Order) |-> call(i)]
    BY <1>4, <2>1 DEF ModeChanges
  <2> HIDE DEF call
  <2>5. DOMAIN todo' = 1 .. Len(Order)
        /\ \A i \in DOMAIN todo' : todo'[i] \in LowerCall /\ todo'[i].fn = "mode_change"
    BY <2>3, <2>4
  <2>6. todo' \in Seq(LowerCall) /\ todo' \in Seq(FitCall)
    <3>1. todo' \in Seq(LowerCall)
      BY <2>1, <2>3, <2>4, IsASeq
    <3>2. LowerCall \subseteq FitCall
      BY DEF LowerCall
    <3> QED BY <3>1, <3>2, SeqMonotonic
  <2>7. \A c : ~Has(todo', After("dialled", c)) /\ ~Has(todo', After("hung_up", c))
    BY <2>5, CallKinds DEF Has
  <2>8. todo' # <<>> => Head(todo').fn = "mode_change" /\ Tail(todo') \in Seq(LowerCall)
    <3> SUFFICES ASSUME todo' # <<>>
                 PROVE  Head(todo').fn = "mode_change" /\ Tail(todo') \in Seq(LowerCall)
      OBVIOUS
    <3>1. 1 \in DOMAIN todo' /\ Head(todo') = todo'[1]
      BY <2>6, Splitting
    <3> QED BY <2>5, <2>6, <3>1, HeadTailProperties
  <2>9. Ordered(todo')
    BY <2>5 DEF Ordered, MayPrecede
  <2>10. Stack'
    BY <2>6, <2>7, <2>8, <2>9 DEF Stack, FitCall, LowerCall
  <2>11. HeadRight'
    BY <2>8 DEF HeadRight
  <2>12. \A c : ~Decided(c)'
    BY <2>7 DEF Decided
  <2> QED BY <1>1, <1>2, <2>10, <2>11, <2>12, NeutralHandled
<1> QED BY <1>3, <1>4 DEF HandleSetMode

(* A circuit depends on circuits that are up, if on any. *)
LEMMA MetAreUp ==
  ASSUME CircdInv, LifeInv, NEW x \in Circuits, NEW h, DependenciesMet(x, h)
  PROVE  \A z \in Circuits : x \in Dependents(z) => state[z] \in Up
<1> SUFFICES ASSUME NEW z \in Circuits, x \in Dependents(z)
             PROVE  state[z] \in Up
  OBVIOUS
<1>1. CASE z \in WeakDeps[x]
  BY <1>1 DEF DependenciesMet, IsAtLeastReady
<1>2. CASE \E d \in Deps[x] : d[1] = z
  <2>1. PICK d \in Deps[x] : d[1] = z
    BY <1>2
  <2>2. state[z] = "online" \/ d[2] \in protocols_up[z]
    BY <2>1 DEF DependenciesMet, IsOnline
  <2>3. d[2] \in protocols_up[z] => state[z] \in Up
    BY DEF LifeInv, Waiting, NoSession
  <2> QED BY <2>2, <2>3 DEF Up
<1> QED BY <1>1, <1>2 DEF Dependents

(* The decision to dial a circuit: two calls are put on what is left of    *)
(* the stack.                                                              *)
LEMMA DialBegun ==
  ASSUME CircdInv, LifeInv, NEW c \in Circuits, state[c] = "active", DependenciesMet(c, TRUE),
         NEW rest \in Seq(LowerCall), Ordered(rest), todo' = InitiateDialup(c) \o rest,
         UNCHANGED <<state, operation, protocols_up, queue, worker, translated, daemons>>,
         Sessions', AllSucceed',
         \A x \in Circuits :
           /\ Has(rest, After("hung_up", x)) => daemons[x] = {}
           /\ Has(rest, After("dialled", x)) <=> Decided(x)
           /\ Single(rest, After("dialled", x))
           /\ Head(todo) # ChangeState(x, "ready") \/ todo = <<>>
           /\ NoSession(x) => NoSession(x)'
           /\ Asked(x)' => Asked(x)
           /\ Single(inbox, StartDaemon(x)) => Single(inbox, StartDaemon(x))'
  PROVE  LifeInv'
<1> DEFINE k == ChangeState(c, "ready")
           a == After("dialled", c)
           calls == <<k, a>>
<1>1. /\ k.fn = "change_state" /\ k.circuit = c /\ k.to = "ready"
      /\ k \in FitCall /\ a \in LowerCall /\ a.fn = "dialled" /\ a.circuit = c /\ a \in FitCall
  <2>1. "ready" \in State
    BY DEF State
  <2>2. k \in FitCall /\ a \in LowerCall /\ a \in FitCall
    BY <2>1, CallsFit DEF LowerCall
  <2> QED BY <2>2, CallKinds
<1>2. todo' = calls \o rest
  BY DEF InitiateDialup
<1>3. \A x : /\ k # After("dialled", x) /\ k # After("hung_up", x) /\ a # After("hung_up", x)
             /\ a = After("dialled", x) <=> x = c
  <2>1. \A what, x : After(what, x).fn = what /\ After(what, x).circuit = x
    BY DEF After
  <2>2. \A x : k # After("dialled", x) /\ k # After("hung_up", x)
    <3> HIDE DEF k
    <3> QED BY <1>1, <2>1
  <2> QED BY <2>1, <2>2
<1>4. ~Decided(c)
  BY HasOne DEF LifeInv, Waiting, Up, Decided
<1> HIDE DEF k, a
<1>5. calls \in Seq(FitCall) /\ calls # <<>> /\ Head(calls) = k /\ Tail(calls) \in Seq(LowerCall)
  BY <1>1
<1>6. \A m : Has(calls, m) <=> k = m \/ a = m
  <2>1. DOMAIN calls = {1, 2} /\ calls[1] = k /\ calls[2] = a
    OBVIOUS
  <2> HIDE DEF calls
  <2> QED BY <2>1 DEF Has
<1>7. \A x : Single(calls, After("dialled", x))
  <2>1. \A i \in DOMAIN calls : i = 2 \/ calls[i] = k
    OBVIOUS
  <2> QED BY <1>3, <2>1 DEF Single
<1>8. Ordered(calls)
  BY <1>1, OrderedFew DEF MayPrecede
<1>9. \A i \in DOMAIN calls : \A j \in DOMAIN rest : MayPrecede(calls[i], rest[j])
  <2>1. \A i \in DOMAIN calls : calls[i] = k \/ calls[i] = a
    OBVIOUS
  <2> QED BY <1>1, <2>1 DEF MayPrecede
<1>10. \A x \in Circuits :
         /\ Has(calls, After("hung_up", x)) \/ Has(rest, After("hung_up", x)) => daemons'[x] = {}
         /\ Has(calls, After("dialled", x)) <=> x = c
  BY <1>3, <1>6
<1>11. todo' # <<>> /\ Head(todo') = k
  <2>1. rest \in Seq(FitCall)
    <3>1. LowerCall \subseteq FitCall
      BY DEF LowerCall
    <3> QED BY <3>1, SeqMonotonic
  <2> QED BY <1>2, <1>5, <2>1, HeadTailProperties, ConcatProperties
<1> HIDE DEF calls
<1>12. /\ Stack'
       /\ \A x : Decided(x)' <=> Has(calls, After("dialled", x)) \/ Has(rest, After("dialled", x))
       /\ \A x : Single(todo', After("dialled", x)) <=>
                   /\ Single(calls, After("dialled", x)) /\ Single(rest, After("dialled", x))
                   /\ ~(Has(calls, After("dialled", x)) /\ Has(rest, After("dialled", x)))
  BY <1>2, <1>5, <1>8, <1>9, <1>10, Pushed
<1>13. \A x \in Circuits : /\ Decided(x)' <=> x = c \/ Decided(x)
                           /\ Single(todo', After("dialled", x))
  BY <1>4, <1>7, <1>10, <1>12
<1>14. NoSession(c) /\ ~InFlight(c)
  BY DEF LifeInv, Waiting, Up
<1>15. \A x \in Circuits : InFlight(x)' => InFlight(x)
  BY DEF InFlight, Dials, Queued
<1>16. \A z \in Circuits : c \in Dependents(z) => z # c /\ state[z] \in Up
  BY MetAreUp DEF Up
<1>17. OneDial'
  <2>1. \A x \in Circuits : Dials(x)' <=> Dials(x)
    BY DEF Dials
  <2> QED BY <1>13, <1>14, <1>15, <2>1 DEF LifeInv, OneDial, Queued
<1>18. DialFirst'
  BY <1>13, <1>14, <1>15 DEF LifeInv, DialFirst
<1>19. Waiting'
  <2> SUFFICES ASSUME NEW x \in Circuits, state[x] \notin Up
               PROVE  /\ NoSession(x)' /\ ~InFlight(x)'
                      /\ Decided(x)' => todo' # <<>> /\ Head(todo') = ChangeState(x, "ready")
    BY DEF Waiting
  <2>1. NoSession(x) /\ ~InFlight(x) /\ ~Decided(x)
    BY DEF LifeInv, Waiting
  <2> QED BY <1>11, <1>13, <1>15, <2>1 DEF k
<1>20. Interface'
  BY <1>13 DEF LifeInv, Interface, Queued
<1>21. Chains'
  BY <1>13, <1>16 DEF LifeInv, Chains
<1>22. HeadRight'
  <2>1. DependenciesMet(c, FALSE)'
    BY DEF DependenciesMet, IsOnline, IsAtLeastReady
  <2> QED BY <1>1, <1>11, <1>13, <2>1, HeadIs
<1> QED BY <1>12, <1>17, <1>18, <1>19, <1>20, <1>21, <1>22 DEF LifeInv

LEMMA DialupStep ==
  ASSUME CircdInv, LifeInv, HandleDialup
  PROVE  LifeInv'
<1>1. /\ Receives("dialup") /\ inbox' = Tail(inbox) /\ inbox # <<>> /\ todo = <<>>
      /\ Head(inbox).type = "dialup"
      /\ UNCHANGED <<state, operation, queue, worker, translated, daemons, protocols_up, process,
                     owner, net>>
  BY DEF HandleDialup, circuit, scripts, world, Receives
<1>2. PICK c \in Circuits : c = Msg.circuit
  BY <1>1, Received, MessageTypes DEF CircdInv
<1>3. CASE todo' = <<>>
  BY <1>1, <1>3, NoCalls, NeutralHandled
<1>4. CASE MayDial(c) /\ todo' = InitiateDialup(c)
  <2>1. state[c] = "active" /\ DependenciesMet(c, TRUE)
    BY <1>4 DEF MayDial
  <2>2. todo' = InitiateDialup(c) \o <<>>
    BY <1>4 DEF InitiateDialup
  <2>3. Neutral(Head(inbox)) /\ \A x : Head(inbox) # StartDaemon(x)
    BY <1>1, MessageKinds DEF Neutral
  <2>4. Sessions' /\ \A x \in Circuits : NoSession(x) => NoSession(x)'
    BY <1>1, <2>3, NeutralRead DEF LifeInv
  <2>5. AllSucceed' /\ \A x : /\ Asked(x)' => Asked(x)
                              /\ Single(inbox, StartDaemon(x)) => Single(inbox, StartDaemon(x))'
    BY <1>1, <2>3, Taken DEF LifeInv
  <2>6. \A m : ~Has(<<>>, m) /\ Single(<<>>, m)
    BY HasOne
  <2>7. <<>> \in Seq(LowerCall) /\ Ordered(<<>>) /\ \A x : ~Decided(x)
    BY <1>1, <2>6, OrderedFew DEF Decided
  <2> QED BY <1>1, <2>1, <2>2, <2>4, <2>5, <2>6, <2>7, DialBegun
<1> QED BY <1>2, <1>3, <1>4 DEF HandleDialup

-----------------------------------------------------------------------------
(* Calls *)

(* What a call finds below it on the stack *)
LEMMA Below ==
  ASSUME CircdInv, LifeInv, todo # <<>>
  PROVE  /\ Tail(todo) \in Seq(LowerCall) /\ Ordered(Tail(todo))
         /\ Head(todo) \in FitCall /\ Head(todo) \in Call
         /\ \A j \in DOMAIN Tail(todo) : MayPrecede(Head(todo), Tail(todo)[j])
         /\ \A c \in Circuits : Has(Tail(todo), After("hung_up", c)) => daemons[c] = {}
         /\ \A c : /\ Decided(c) <=> Head(todo) = After("dialled", c)
                                     \/ Has(Tail(todo), After("dialled", c))
                   /\ Single(todo, After("dialled", c)) =>
                        /\ Single(Tail(todo), After("dialled", c))
                        /\ ~(/\ Head(todo) = After("dialled", c)
                             /\ Has(Tail(todo), After("dialled", c)))
<1> DEFINE h == Head(todo)
           o == <<h>>
           t == Tail(todo)
<1>1. todo \in Seq(FitCall) /\ t \in Seq(LowerCall) /\ Ordered(todo)
      /\ \A c \in Circuits : Has(todo, After("hung_up", c)) => daemons[c] = {}
  BY DEF LifeInv, Stack
<1>2. todo = o \o t /\ o \in Seq(FitCall) /\ t \in Seq(FitCall) /\ h \in FitCall
  BY <1>1, Splitting
<1>3. 1 \in DOMAIN o /\ o[1] = h
  OBVIOUS
<1>4. \A m : /\ Has(todo, m) <=> h = m \/ Has(t, m)
             /\ Single(todo, m) <=> Single(t, m) /\ ~(h = m /\ Has(t, m))
  BY <1>1, HasTail
<1> HIDE DEF h, o, t
<1>5. Ordered(t) /\ \A j \in DOMAIN t : MayPrecede(h, t[j])
  <2>1. Ordered(o \o t)
    BY <1>1, <1>2
  <2> QED BY <1>2, <1>3, <2>1, OrderedJoined
<1> QED BY <1>1, <1>2, <1>4, <1>5 DEF h, t, FitCall, Decided

(* The first of the calls that were below it has its turn. *)
LEMMA LowerFirst ==
  ASSUME NEW q \in Seq(LowerCall), todo' = q
  PROVE  HeadRight'
<1>1. q # <<>> => Head(q) \in LowerCall
  BY HeadTailProperties
<1>2. q # <<>> => /\ Head(q).fn \notin {"change_state", "finalize_hangup"}
                  /\ Head(q).fn = "react" => Head(q).position # 0
  BY <1>1 DEF LowerCall
<1> QED BY <1>2 DEF HeadRight

(* A call that neither changes a state nor dials *)
LEMMA CallWith ==
  ASSUME CircdInv, LifeInv, todo # <<>>,
         UNCHANGED <<state, inbox, worker, translated, daemons, protocols_up, process, owner, net>>,
         Stack', HeadRight',
         \A c \in Circuits :
           /\ Head(todo) # ChangeState(c, "ready")
           /\ Decided(c)' <=> Decided(c)
           /\ Single(todo, After("dialled", c)) => Single(todo', After("dialled", c))
           /\ Queued(c)' <=> Queued(c)
           /\ Single(queue[c], "dial") => Single(queue'[c], "dial")
           /\ translated[c] \/ worker[c] \in {"dial", "gone"} \/ DialBefore(queue'[c])
  PROVE  LifeInv'
<1>1. \A c \in Circuits : /\ InFlight(c)' <=> InFlight(c)
                          /\ NoSession(c)' <=> NoSession(c)
                          /\ Asked(c)' <=> Asked(c)
  BY DEF InFlight, Dials, Asked, NoSession
<1>2. OneDial'
  <2>1. \A c \in Circuits : Dials(c)' <=> Dials(c)
    BY DEF Dials
  <2> QED BY <1>1, <2>1 DEF LifeInv, OneDial
<1>3. DialFirst'
  BY <1>1 DEF LifeInv, DialFirst
<1>4. Waiting'
  BY <1>1 DEF LifeInv, Waiting
<1>5. Interface'
  BY DEF LifeInv, Interface
<1>6. Chains'
  BY DEF LifeInv, Chains
<1>7. Sessions' /\ AllSucceed'
  <2>1. Sessions'
    BY DEF LifeInv, Sessions, Registrations, Served, Announced, Backed, InUse, Alive
  <2> QED BY <2>1 DEF LifeInv, AllSucceed, Success
<1> QED BY <1>2, <1>3, <1>4, <1>5, <1>6, <1>7 DEF LifeInv

(* Calls that only return, and send a message to a queue process at most *)
LEMMA Returned ==
  ASSUME CircdInv, LifeInv, todo # <<>>, Return,
         UNCHANGED <<state, inbox, worker, translated, daemons, protocols_up, process, owner, net>>,
         Head(todo).fn \notin {"change_state", "dialled"},
         \A c \in Circuits :
           /\ Queued(c)' <=> Queued(c)
           /\ Single(queue[c], "dial") => Single(queue'[c], "dial")
           /\ translated[c] \/ worker[c] \in {"dial", "gone"} \/ DialBefore(queue'[c])
  PROVE  LifeInv'
<1> DEFINE t == Tail(todo)
<1>1. /\ t \in Seq(LowerCall) /\ Ordered(t)
      /\ \A c \in Circuits : Has(t, After("hung_up", c)) => daemons[c] = {}
      /\ \A c : /\ Decided(c) <=> Head(todo) = After("dialled", c) \/ Has(t, After("dialled", c))
                /\ Single(todo, After("dialled", c)) => Single(t, After("dialled", c))
  BY Below
<1>2. \A c : Head(todo) # After("dialled", c) /\ Head(todo) # ChangeState(c, "ready")
  BY CallKinds
<1>3. t \in Seq(FitCall) /\ (t # <<>> => Tail(t) \in Seq(LowerCall))
  <2>1. LowerCall \subseteq FitCall
    BY DEF LowerCall
  <2> QED BY <1>1, <2>1, SeqMonotonic, HeadTailProperties
<1>4. todo' = t
  <2>1. \A S : \A q \in Seq(S) : <<>> \o q = q
    BY ConcatEmptySeq
  <2> QED BY <1>1, <2>1 DEF Return, Run
<1> HIDE DEF t
<1>5. Stack' /\ HeadRight'
  BY <1>1, <1>3, <1>4, LowerFirst DEF Stack, FitCall, LowerCall
<1>6. \A c \in Circuits : /\ Decided(c)' <=> Decided(c)
                          /\ Single(todo, After("dialled", c)) => Single(todo', After("dialled", c))
  BY <1>1, <1>2, <1>4 DEF Decided
<1> QED BY <1>2, <1>5, <1>6, CallWith

LEMMA StopQueueStep ==
  ASSUME CircdInv, LifeInv, StopQueue
  PROVE  LifeInv'
<1>1. /\ todo # <<>> /\ Head(todo).fn = "stop_queue" /\ Return
      /\ UNCHANGED <<state, inbox, worker, translated, daemons, protocols_up, process, owner, net>>
  BY DEF StopQueue, Running, circuit, scripts, world
<1>2. PICK c \in Circuits : ToQueue(c, "quit")
  <2>1. Head(todo).circuit \in Circuits
    BY <1>1, Below, CallTypes
  <2> QED BY <2>1 DEF StopQueue
<1>3. \A x \in Circuits :
        /\ Queued(x)' <=> Queued(x)
        /\ Single(queue[x], "dial") => Single(queue'[x], "dial")
        /\ DialBefore(queue[x]) => DialBefore(queue'[x])
  <2>1. /\ \A x \in Circuits : x # c \/ worker[c] = "gone" => queue'[x] = queue[x]
        /\ worker[c] # "gone" =>
             /\ Has(queue'[c], "dial") <=> Has(queue[c], "dial")
             /\ Single(queue'[c], "dial") <=> Single(queue[c], "dial")
             /\ DialBefore(queue[c]) => DialBefore(queue'[c])
    BY <1>2, QueueAppended
  <2> QED BY <2>1 DEF Queued
<1>4. \A x \in Circuits : translated[x] \/ worker[x] \in {"dial", "gone"} \/ DialBefore(queue'[x])
  BY <1>3 DEF LifeInv, Interface
<1> QED BY <1>1, <1>3, <1>4, Returned

LEMMA WentOnlineStep ==
  ASSUME CircdInv, LifeInv, WentOnline
  PROVE  LifeInv'
<1>1. /\ todo # <<>> /\ Head(todo).fn = "went_online" /\ Return /\ UNCHANGED queue
      /\ UNCHANGED <<state, inbox, worker, translated, daemons, protocols_up, process, owner, net>>
  BY DEF WentOnline, Running, scripts, world
<1>2. \A c \in Circuits :
        /\ Queued(c)' <=> Queued(c)
        /\ translated[c] \/ worker[c] \in {"dial", "gone"} \/ DialBefore(queue'[c])
  BY <1>1 DEF LifeInv, Interface, Queued
<1> QED BY <1>1, <1>2, Returned

(* Nothing is registered any more for a circuit that has been hung up. *)
LEMMA HungUpStep ==
  ASSUME CircdInv, LifeInv, HungUp
  PROVE  LifeInv'
<1>1. /\ todo # <<>> /\ Head(todo).fn = "hung_up" /\ Return /\ UNCHANGED queue
      /\ UNCHANGED <<state, inbox, worker, translated, protocols_up, process, owner, net>>
  BY DEF HungUp, Running, scripts, world
<1>2. PICK c \in Circuits : c = Head(todo).circuit
  BY <1>1, Below, CallTypes
<1>3. Head(todo) = After("hung_up", c)
  BY <1>1, <1>2, Below, CallIs
<1>4. daemons[c] = {}
  <2>1. todo \in Seq(Call)
    BY Types
  <2>2. Has(todo, After("hung_up", c))
    BY <1>1, <1>3, <2>1, HasTail
  <2> QED BY <2>2 DEF LifeInv, Stack
<1>5. daemons' = daemons
  <2>1. daemons' = [daemons EXCEPT ![c] = Deregistered(c, "HANGUP")]
    BY <1>2 DEF HungUp
  <2>2. Deregistered(c, "HANGUP") = {}
    BY <1>4 DEF Deregistered
  <2> QED BY <1>4, <2>1, <2>2 DEF CircdInv, TypeOK
<1>6. \A x \in Circuits :
        /\ Queued(x)' <=> Queued(x)
        /\ translated[x] \/ worker[x] \in {"dial", "gone"} \/ DialBefore(queue'[x])
  BY <1>1 DEF LifeInv, Interface, Queued
<1> QED BY <1>1, <1>5, <1>6, Returned

(* No such call is made. *)
LEMMA NoNotDialled ==
  ASSUME CircdInv, LifeInv
  PROVE  ~NotDialled
<1>1. todo # <<>> => Head(todo) \in FitCall
  BY Below
<1> QED BY <1>1 DEF NotDialled, Running, FitCall

(* What has been decided is put into the queue. *)
LEMMA DialledStep ==
  ASSUME CircdInv, LifeInv, Dialled
  PROVE  LifeInv'
<1>1. /\ todo # <<>> /\ Head(todo).fn = "dialled" /\ Return
      /\ UNCHANGED <<state, inbox, worker, translated, daemons, protocols_up, process, owner, net>>
  BY DEF Dialled, Running, scripts, world
<1>2. PICK c \in Circuits : c = Head(todo).circuit
  BY <1>1, Below, CallTypes
<1>3. Head(todo) = After("dialled", c) /\ ToQueue(c, "dial")
  BY <1>1, <1>2, Below, CallIs DEF Dialled
<1> DEFINE t == Tail(todo)
<1>4. /\ t \in Seq(LowerCall) /\ Ordered(t)
      /\ \A x \in Circuits : Has(t, After("hung_up", x)) => daemons[x] = {}
      /\ \A x : /\ Decided(x) <=> Head(todo) = After("dialled", x) \/ Has(t, After("dialled", x))
                /\ Single(todo, After("dialled", x)) =>
                     /\ Single(t, After("dialled", x))
                     /\ ~(Head(todo) = After("dialled", x) /\ Has(t, After("dialled", x)))
  BY <1>1, Below
<1>5. t \in Seq(FitCall) /\ (t # <<>> => Tail(t) \in Seq(LowerCall))
  <2>1. LowerCall \subseteq FitCall
    BY DEF LowerCall
  <2> QED BY <1>4, <2>1, SeqMonotonic, HeadTailProperties
<1>6. todo' = t
  <2>1. \A S : \A q \in Seq(S) : <<>> \o q = q
    BY ConcatEmptySeq
  <2> QED BY <1>1, <1>4, <2>1 DEF Return, Run
<1> HIDE DEF t
<1>7. Stack' /\ HeadRight'
  BY <1>1, <1>4, <1>5, <1>6, LowerFirst DEF Stack, FitCall, LowerCall
<1>8. Decided(c) /\ ~Decided(c)'
  BY <1>3, <1>4, <1>6 DEF LifeInv, OneDial, Decided
<1>9. \A x \in Circuits : x # c => (Decided(x)' <=> Decided(x))
  <2>1. \A x : x # c => Head(todo) # After("dialled", x)
    BY <1>3 DEF After
  <2> QED BY <1>4, <1>6, <2>1 DEF Decided
<1>10. \A x \in Circuits : Single(todo', After("dialled", x))
  BY <1>4, <1>6 DEF LifeInv, OneDial
<1>11. NoSession(c) /\ ~InFlight(c) /\ state[c] \in Up
  <2>1. Head(todo) # ChangeState(c, "ready")
    BY <1>1, CallKinds
  <2> QED BY <1>8, <2>1 DEF LifeInv, OneDial, DialFirst, Waiting
<1>12. /\ \A x \in Circuits : x # c \/ worker[c] = "gone" => queue'[x] = queue[x]
       /\ worker[c] # "gone" =>
            /\ Has(queue'[c], "dial")
            /\ Single(queue'[c], "dial") <=> Single(queue[c], "dial") /\ ~Has(queue[c], "dial")
            /\ DialBefore(queue[c]) => DialBefore(queue'[c])
  BY <1>3, QueueAppended
<1>13. /\ \A x \in Circuits : x # c => (InFlight(x)' <=> InFlight(x)) /\ (Queued(x)' <=> Queued(x))
       /\ \A x \in Circuits : Asked(x)' <=> Asked(x)
       /\ \A x \in Circuits : NoSession(x)' <=> NoSession(x)
  BY <1>1, <1>12 DEF InFlight, Dials, Queued, Asked, NoSession
<1>14. OneDial'
  <2>1. ASSUME NEW x \in Circuits
        PROVE  /\ Single(queue'[x], "dial") /\ Single(inbox', StartDaemon(x))
               /\ Decided(x)' => ~InFlight(x)'
               /\ Queued(x)' => ~Dials(x)' /\ ~Asked(x)'
               /\ Dials(x)' => ~Asked(x)'
    <3>0. Dials(x)' <=> Dials(x)
      BY <1>1 DEF Dials
    <3>1. CASE x = c
      BY <1>1, <1>8, <1>11, <1>12, <1>13, <3>0, <3>1 DEF LifeInv, OneDial, InFlight, Queued
    <3>2. CASE x # c
      BY <1>1, <1>9, <1>12, <1>13, <3>0, <3>2 DEF LifeInv, OneDial
    <3> QED BY <3>1, <3>2
  <2> QED BY <1>10, <2>1 DEF OneDial
<1>15. DialFirst'
  BY <1>9, <1>11, <1>13 DEF LifeInv, DialFirst
<1>16. Waiting'
  <2> SUFFICES ASSUME NEW x \in Circuits, state[x] \notin Up
               PROVE  NoSession(x)' /\ ~InFlight(x)' /\ ~Decided(x)'
    BY <1>1 DEF Waiting
  <2>1. x # c /\ NoSession(x) /\ ~InFlight(x)
    BY <1>11 DEF LifeInv, Waiting
  <2>2. ~Decided(x)
    BY <1>1, CallKinds DEF LifeInv, Waiting
  <2> QED BY <1>9, <1>13, <2>1, <2>2
<1>17. Interface'
  <2>1. ASSUME NEW x \in Circuits
        PROVE  /\ translated[x] \/ worker[x] \in {"dial", "gone"} \/ DialBefore(queue'[x])
               /\ worker[x] = "hangup" => translated[x]
               /\ state[x] \in Up =>
                    translated[x] \/ Decided(x)' \/ Queued(x)' \/ worker[x] \in {"dial", "gone"}
    <3>1. CASE x = c
      BY <1>12, <3>1 DEF LifeInv, Interface, Queued
    <3>2. CASE x # c
      BY <1>9, <1>12, <1>13, <3>2 DEF LifeInv, Interface
    <3> QED BY <3>1, <3>2
  <2> QED BY <1>1, <2>1 DEF Interface
<1>18. Chains'
  BY <1>1, <1>8, <1>9 DEF LifeInv, Chains
<1>19. Sessions' /\ AllSucceed'
  <2>1. Sessions'
    BY <1>1 DEF LifeInv, Sessions, Registrations, Served, Announced, Backed, InUse, Alive
  <2> QED BY <1>1, <2>1 DEF LifeInv, AllSucceed, Success
<1> QED BY <1>7, <1>14, <1>15, <1>16, <1>17, <1>18, <1>19 DEF LifeInv

(* A circuit is dialled by a call. *)
LEMMA CallDials ==
  ASSUME CircdInv, LifeInv, todo # <<>>, NEW c \in Circuits, state[c] = "active",
         DependenciesMet(c, TRUE), Head(todo).fn \notin {"change_state", "dialled"},
         NEW rest \in Seq(LowerCall), Ordered(rest), todo' = InitiateDialup(c) \o rest,
         UNCHANGED <<state, operation, protocols_up, queue, inbox, worker, translated, daemons,
                     process, owner, net>>,
         \A x : Has(rest, After("hung_up", x)) <=> Has(Tail(todo), After("hung_up", x)),
         \A x : /\ Has(rest, After("dialled", x)) <=> Has(Tail(todo), After("dialled", x))
                /\ Single(Tail(todo), After("dialled", x)) => Single(rest, After("dialled", x))
  PROVE  LifeInv'
<1>1. \A x : Head(todo) # After("dialled", x) /\ Head(todo) # ChangeState(x, "ready")
  <2>1. \A x : After("dialled", x).fn = "dialled" /\ ChangeState(x, "ready").fn = "change_state"
    BY DEF After, ChangeState
  <2> QED BY <2>1
<1>2. \A x \in Circuits :
           /\ Has(rest, After("hung_up", x)) => daemons[x] = {}
           /\ Has(rest, After("dialled", x)) <=> Decided(x)
           /\ Single(rest, After("dialled", x))
  BY <1>1, Below DEF LifeInv, OneDial
<1>3. \A x \in Circuits : NoSession(x)' <=> NoSession(x)
  BY DEF NoSession
<1>4. \A x \in Circuits : (Asked(x)' <=> Asked(x))
                          /\ (Single(inbox, StartDaemon(x)) => Single(inbox, StartDaemon(x))')
  BY DEF Asked
<1>5. Sessions' /\ AllSucceed'
  <2>1. Sessions'
    BY DEF LifeInv, Sessions, Registrations, Served, Announced, Backed, InUse, Alive
  <2> QED BY <2>1 DEF LifeInv, AllSucceed, Success
<1> QED BY <1>1, <1>2, <1>3, <1>4, <1>5, DialBegun

(* The next round of a loop replaces the one that is running. *)
LEMMA RoundPushed ==
  ASSUME CircdInv, LifeInv, todo # <<>>, Head(todo).fn = "react", NEW rest,
         rest = NextRound(Head(todo).changed, Head(todo).to, Head(todo).position)
  PROVE  LET q == rest \o Tail(todo) IN
         /\ rest \in Seq(LowerCall) /\ q \in Seq(LowerCall) /\ Ordered(q)
         /\ \A x : Has(q, After("hung_up", x)) <=> Has(Tail(todo), After("hung_up", x))
         /\ \A x : /\ Has(q, After("dialled", x)) <=> Has(Tail(todo), After("dialled", x))
                   /\ Single(Tail(todo), After("dialled", x)) => Single(q, After("dialled", x))
<1> DEFINE t == Tail(todo)
           h == Head(todo)
<1>1. /\ t \in Seq(LowerCall) /\ Ordered(t) /\ h \in FitCall /\ h \in Call
      /\ \A j \in DOMAIN t : MayPrecede(h, t[j])
      /\ h.fn = "react" /\ rest = NextRound(h.changed, h.to, h.position)
  BY Below
<1> HIDE DEF t, h
<1>2. CASE rest = <<>>
  <2>1. <<>> \o t = t /\ <<>> \in Seq(LowerCall)
    BY <1>1, ConcatEmptySeq
  <2> QED BY <1>1, <1>2, <2>1 DEF t
<1>3. ASSUME NEW j \in DOMAIN Order, Order[j] \in Dependents(h.changed),
             rest = <<React(Order[j], h.changed, h.to, j)>>
      PROVE  /\ rest \in Seq(LowerCall) /\ rest \o t \in Seq(LowerCall) /\ Ordered(rest \o t)
             /\ \A x : Has(rest \o t, After("hung_up", x)) <=> Has(t, After("hung_up", x))
             /\ \A x : /\ Has(rest \o t, After("dialled", x)) <=> Has(t, After("dialled", x))
                       /\ Single(t, After("dialled", x)) => Single(rest \o t, After("dialled", x))
  <2> DEFINE r == React(Order[j], h.changed, h.to, j)
  <2>1. /\ r.fn = "react" /\ r.changed = h.changed /\ r.circuit = Order[j] /\ r.to = h.to
        /\ r.position = j
    BY CallKinds
  <2>2. r \in LowerCall
    <3>1. Order[j] \in Circuits /\ j # 0
      BY CircdAssumption
    <3>2. /\ h.changed \in Circuits /\ h.to \in State
          /\ h.to \in Up => h.changed \notin Dependents(h.changed)
      BY <1>1, CallTypes DEF FitCall
    <3>3. r \in Call
      BY <3>1, <3>2 DEF React, Call
    <3> HIDE DEF r
    <3> QED BY <1>3, <2>1, <3>1, <3>2, <3>3 DEF LowerCall, FitCall
  <2>3. rest = <<r>>
    BY <1>3
  <2> HIDE DEF r
  <2>4. rest \in Seq(LowerCall)
    <3>1. <<r>> \in Seq(LowerCall)
      BY <2>2
    <3> QED BY <2>3, <3>1
  <2>5. rest \o t \in Seq(LowerCall)
    BY <1>1, <2>4, ConcatProperties
  <2>6. Ordered(rest) /\ DOMAIN rest = {1} /\ rest[1] = r
    BY <2>3, OrderedFew
  <2>7. \A k \in DOMAIN t : MayPrecede(r, t[k])
    BY <1>1, <2>1 DEF MayPrecede
  <2>8. Ordered(rest \o t)
    <3>1. \A i \in DOMAIN rest : \A k \in DOMAIN t : MayPrecede(rest[i], t[k])
      BY <2>6, <2>7
    <3> QED BY <1>1, <2>4, <2>6, <3>1, OrderedJoined
  <2>9. \A x : r # After("dialled", x) /\ r # After("hung_up", x)
    BY <2>1, CallKinds
  <2>10. \A x : /\ ~Has(rest, After("dialled", x)) /\ ~Has(rest, After("hung_up", x))
                /\ Single(rest, After("dialled", x))
    BY <2>3, <2>9, HasOne
  <2>11. \A m : /\ Has(rest \o t, m) <=> Has(rest, m) \/ Has(t, m)
                /\ Single(rest \o t, m) <=> /\ Single(rest, m) /\ Single(t, m)
                                            /\ ~(Has(rest, m) /\ Has(t, m))
    BY <1>1, <2>4, HasJoined
  <2> QED BY <2>4, <2>5, <2>8, <2>10, <2>11
<1>4. \/ rest = <<>>
      \/ \E j \in DOMAIN Order : /\ Order[j] \in Dependents(h.changed)
                                 /\ rest = <<React(Order[j], h.changed, h.to, j)>>
  <2> DEFINE left == {j \in DOMAIN Order : j > h.position /\ Order[j] \in Dependents(h.changed)}
             first == {j \in left : \A k \in left : j <= k}
             j == CHOOSE j \in first : TRUE
  <2>1. CASE first = {}
    BY <1>1, <2>1 DEF NextRound
  <2>2. CASE first # {}
    <3>1. j \in first
      BY <2>2
    <3>2. j \in DOMAIN Order /\ Order[j] \in Dependents(h.changed)
      BY <3>1
    <3>3. rest = <<React(Order[j], h.changed, h.to, j)>>
      BY <1>1, <2>2 DEF NextRound
    <3> HIDE DEF j
    <3> QED BY <3>2, <3>3
  <2> QED BY <2>1, <2>2
<1> QED BY <1>2, <1>3, <1>4 DEF t, h

(* Only calls that may wait are left. *)
LEMMA Lowered ==
  ASSUME NEW q \in Seq(LowerCall), todo' = q, Ordered(q),
         \A c \in Circuits : Has(q, After("hung_up", c)) => daemons'[c] = {}
  PROVE  Stack' /\ HeadRight'
<1>1. q \in Seq(FitCall) /\ (q # <<>> => Tail(q) \in Seq(LowerCall))
  <2>1. LowerCall \subseteq FitCall
    BY DEF LowerCall
  <2> QED BY <2>1, SeqMonotonic, HeadTailProperties
<1> QED BY <1>1, LowerFirst DEF Stack, FitCall, LowerCall

LEMMA ReactStep ==
  ASSUME CircdInv, LifeInv, DoReact
  PROVE  LifeInv'
<1>1. /\ todo # <<>> /\ Head(todo).fn = "react"
      /\ UNCHANGED <<state, protocols_up, inbox, worker, translated, daemons, process, owner, net>>
  BY DEF DoReact, Running, scripts, world
<1>2. Head(todo) \in FitCall /\ Head(todo) \in Call
  BY <1>1, Below
<1>3. PICK x \in Circuits, c \in Circuits :
        x = Head(todo).circuit /\ c = Head(todo).changed
  BY <1>1, <1>2, CallTypes
<1>4. PICK to, i : to = Head(todo).to /\ i = Head(todo).position
  OBVIOUS
<1>5. PICK s : s = IF x = c THEN to ELSE state[x]
  OBVIOUS
<1>6. PICK rest : rest = NextRound(c, to, i)
  OBVIOUS
<1>7. \/ /\ s = "active" /\ DependenciesMet(x, TRUE) /\ Run(InitiateDialup(x) \o rest)
         /\ UNCHANGED <<operation, queue>>
      \/ /\ Run(rest)
         /\ \/ s \in Up /\ ~DependenciesMet(x, FALSE) /\ CircuitHangup(x, "active")
            \/ UNCHANGED queue
  BY <1>3, <1>4, <1>5, <1>6 DEF DoReact
<1>8. PICK q : q = rest \o Tail(todo)
  OBVIOUS
<1>9. /\ rest \in Seq(LowerCall) /\ q \in Seq(LowerCall) /\ Ordered(q)
      /\ \A y : Has(q, After("hung_up", y)) <=> Has(Tail(todo), After("hung_up", y))
      /\ \A y : /\ Has(q, After("dialled", y)) <=> Has(Tail(todo), After("dialled", y))
                /\ Single(Tail(todo), After("dialled", y)) => Single(q, After("dialled", y))
  BY <1>1, <1>3, <1>4, <1>6, <1>8, RoundPushed
<1>10. /\ i = 0 => x = c /\ state[c] = to /\ (Decided(c) => DependenciesMet(c, FALSE))
       /\ i # 0 => x \in Dependents(c)
       /\ to \in Up => c \notin Dependents(c)
  <2>1. /\ i = 0 => x = c
        /\ i # 0 => x \in Dependents(c)
        /\ to \in Up => c \notin Dependents(c)
    BY <1>1, <1>2, <1>3, <1>4 DEF FitCall
  <2>2. i = 0 => state[c] = to /\ (Decided(c) => DependenciesMet(c, FALSE))
    BY <1>1, <1>3, <1>4, <2>1 DEF LifeInv, HeadRight
  <2> QED BY <2>1, <2>2
<1>11. ASSUME s = "active", DependenciesMet(x, TRUE)
       PROVE  state[x] = "active"
  <2>1. CASE x = c /\ i # 0
    <3>1. x \in Dependents(x) /\ state[x] \in Up
      BY <1>10, <1>11, <2>1, MetAreUp
    <3> QED BY <3>1 DEF LifeInv, Chains
  <2>2. CASE x # c \/ i = 0
    BY <1>5, <1>10, <1>11, <2>2
  <2> QED BY <2>1, <2>2
<1>12. \A y : Head(todo) # After("dialled", y) /\ Head(todo) # ChangeState(y, "ready")
  BY <1>1 DEF After, ChangeState
<1>13. ASSUME s \in Up, ~DependenciesMet(x, FALSE)
       PROVE  state[x] \in Up /\ ~Decided(x)
  <2>1. CASE i = 0
    BY <1>5, <1>10, <1>13, <2>1
  <2>2. CASE i # 0
    <3>1. x # c /\ x \in Dependents(c)
      BY <1>5, <1>10, <1>13, <2>2
    <3>2. state[x] \in Up
      BY <1>5, <1>13, <3>1
    <3>3. ~Has(Tail(todo), After("dialled", x))
      <4>1. ASSUME NEW j \in DOMAIN Tail(todo), Tail(todo)[j] = After("dialled", x)
            PROVE  FALSE
        <5>1. MayPrecede(Head(todo), After("dialled", x))
          BY <1>1, <4>1, Below
        <5> QED BY <1>1, <1>3, <3>1, <5>1 DEF MayPrecede, After
      <4> QED BY <4>1 DEF Has
    <3> QED BY <1>1, <1>12, <3>2, <3>3, Below
  <2> QED BY <2>1, <2>2
<1>14. CASE s = "active" /\ DependenciesMet(x, TRUE) /\ Run(InitiateDialup(x) \o rest)
            /\ UNCHANGED <<operation, queue>>
  <2>1. state[x] = "active"
    BY <1>11, <1>14
  <2>2. todo' = InitiateDialup(x) \o q
    <3> DEFINE a == InitiateDialup(x)
               t == Tail(todo)
    <3>1. a \in Seq(FitCall)
      <4>1. ChangeState(x, "ready") \in FitCall /\ After("dialled", x) \in FitCall
        BY CallsFit DEF State, LowerCall
      <4> QED BY <4>1 DEF InitiateDialup
    <3>2. rest \in Seq(FitCall) /\ t \in Seq(FitCall)
      <4>1. LowerCall \subseteq FitCall
        BY DEF LowerCall
      <4> QED BY <1>1, <1>9, <4>1, Below, SeqMonotonic
    <3>3. todo' = (a \o rest) \o t /\ q = rest \o t
      BY <1>8, <1>14 DEF Run
    <3> HIDE DEF a, t
    <3>4. todo' = a \o q
      BY <3>1, <3>2, <3>3, ConcatAssociative
    <3> QED BY <3>4 DEF a
  <2> QED BY <1>1, <1>9, <1>14, <2>1, <2>2, CallDials
<1>15. CASE /\ Run(rest)
            /\ \/ s \in Up /\ ~DependenciesMet(x, FALSE) /\ CircuitHangup(x, "active")
               \/ UNCHANGED queue
  <2>1. \A y \in Circuits :
           /\ Queued(y)' <=> Queued(y)
           /\ Single(queue[y], "dial") => Single(queue'[y], "dial")
           /\ translated[y] \/ worker[y] \in {"dial", "gone"} \/ DialBefore(queue'[y])
    <3>1. CASE s \in Up /\ ~DependenciesMet(x, FALSE) /\ CircuitHangup(x, "active")
      BY <1>13, <3>1, HangupQueued
    <3>2. CASE UNCHANGED queue
      BY <3>2 DEF LifeInv, Interface, Queued
    <3> QED BY <1>15, <3>1, <3>2
  <2>2. todo' = q
    BY <1>8, <1>15 DEF Run
  <2>3. Stack' /\ HeadRight'
    BY <1>1, <1>9, <2>2, Below, Lowered
  <2>4. \A y \in Circuits : /\ Decided(y)' <=> Decided(y)
                            /\ Single(todo, After("dialled", y)) => Single(todo', After("dialled", y))
    BY <1>1, <1>9, <1>12, <2>2, Below DEF Decided
  <2> QED BY <1>1, <1>12, <2>1, <2>3, <2>4, CallWith
<1> QED BY <1>7, <1>14, <1>15

LEMMA ModeChangeStep ==
  ASSUME CircdInv, LifeInv, DoModeChange
  PROVE  LifeInv'
<1>1. /\ todo # <<>> /\ Head(todo).fn = "mode_change"
      /\ UNCHANGED <<state, protocols_up, inbox, worker, translated, daemons, process, owner, net>>
  BY DEF DoModeChange, Running, scripts, world
<1>2. PICK c \in Circuits : c = Head(todo).circuit
  BY <1>1, Below, CallTypes
<1>3. \/ /\ state[c] = "active" /\ DependenciesMet(c, TRUE) /\ Run(InitiateDialup(c))
         /\ UNCHANGED <<operation, queue>>
      \/ Return /\ state[c] \in Up /\ CircuitHangup(c, "active")
      \/ Return /\ UNCHANGED queue
  BY <1>2 DEF DoModeChange, Up
<1>4. \A x : ~Decided(x)
  <2>1. ASSUME NEW x, NEW j \in DOMAIN Tail(todo), Tail(todo)[j] = After("dialled", x)
        PROVE  FALSE
    <3>1. MayPrecede(Head(todo), After("dialled", x))
      BY <1>1, <2>1, Below
    <3> QED BY <1>1, <3>1 DEF MayPrecede, After
  <2>2. \A x : Head(todo) # After("dialled", x)
    BY <1>1 DEF After
  <2> QED BY <1>1, <2>1, <2>2, Below DEF Has
<1>5. CASE state[c] = "active" /\ DependenciesMet(c, TRUE) /\ Run(InitiateDialup(c))
           /\ UNCHANGED <<operation, queue>>
  <2>1. todo' = InitiateDialup(c) \o Tail(todo)
    BY <1>5 DEF Run
  <2>2. Tail(todo) \in Seq(LowerCall) /\ Ordered(Tail(todo))
    BY <1>1, Below
  <2> QED BY <1>1, <1>5, <2>1, <2>2, CallDials
<1>6. CASE Return /\ state[c] \in Up /\ CircuitHangup(c, "active")
  <2>1. \A y \in Circuits :
           /\ Queued(y)' <=> Queued(y)
           /\ Single(queue[y], "dial") => Single(queue'[y], "dial")
           /\ translated[y] \/ worker[y] \in {"dial", "gone"} \/ DialBefore(queue'[y])
    BY <1>4, <1>6, HangupQueued
  <2> QED BY <1>1, <1>6, <2>1, Returned
<1>7. CASE Return /\ UNCHANGED queue
  <2>1. \A y \in Circuits :
           /\ Queued(y)' <=> Queued(y)
           /\ translated[y] \/ worker[y] \in {"dial", "gone"} \/ DialBefore(queue'[y])
    BY <1>7 DEF LifeInv, Interface, Queued
  <2> QED BY <1>1, <1>7, <2>1, Returned
<1> QED BY <1>3, <1>5, <1>6, <1>7

(* Where nothing is decided, no call below is a dial. *)
LEMMA NoneDecided ==
  ASSUME CircdInv, LifeInv, todo # <<>>, ~SomeDecided, NEW x
  PROVE  \A j \in DOMAIN Tail(todo) : MayPrecede(x, Tail(todo)[j])
<1> SUFFICES ASSUME NEW j \in DOMAIN Tail(todo), Tail(todo)[j].fn = "dialled"
             PROVE  FALSE
  BY DEF MayPrecede
<1> DEFINE y == Tail(todo)[j]
<1>1. y \in Call
  <2>1. todo \in Seq(Call)
    BY Types
  <2>2. Tail(todo) \in Seq(Call)
    BY <2>1, HeadTailProperties
  <2> QED BY <2>2
<1>2. y = After("dialled", y.circuit) /\ y.circuit \in Circuits
  BY <1>1, CallIs
<1> HIDE DEF y
<1>3. Has(Tail(todo), After("dialled", y.circuit))
  BY <1>2 DEF Has, y
<1> QED BY <1>2, <1>3, Below DEF SomeDecided

(* Nothing is left of a circuit without a registered daemon and without a  *)
(* protocol that is up.                                                    *)
LEMMA NothingLeft ==
  ASSUME CircdInv, LifeInv, NEW c \in Circuits, ~HangupDelayed(c)
  PROVE  NoSession(c)
<1>1. protocols_up[c] = {} /\ \A d \in Daemons : <<"HANGUP", d>> \notin daemons[c]
  BY DEF HangupDelayed, Registered
<1>2. daemons[c] = {}
  <2>1. ASSUME NEW r \in daemons[c]
        PROVE  FALSE
    <3>1. r[2] \in Daemons
      BY <2>1, Types
    <3>2. <<"HANGUP", r[2]>> \in daemons[c]
      BY <2>1 DEF LifeInv, Sessions, Registrations
    <3> QED BY <1>1, <3>1, <3>2
  <2> QED BY <2>1
<1>3. ASSUME NEW d \in Daemons, owner[d] = c, NEW p \in net[d]
      PROVE  FALSE
  <2>1. SeenUp(inbox, {}, c, p)
    BY <1>1, <1>3 DEF LifeInv, Sessions, Announced
  <2>2. Has(inbox, UpMessage(c, p))
    BY <2>1 DEF SeenUp, Has
  <2>3. daemons[c] # {}
    BY <2>2, UpHasSession DEF LifeInv
  <2> QED BY <1>2, <2>3
<1> QED BY <1>1, <1>2, <1>3 DEF NoSession

LEMMA FinalizeHangupStep ==
  ASSUME CircdInv, LifeInv, DoFinalizeHangup
  PROVE  LifeInv'
<1>1. /\ todo # <<>> /\ Head(todo).fn = "finalize_hangup" /\ UNCHANGED queue
      /\ UNCHANGED <<state, protocols_up, inbox, worker, translated, daemons, process, owner, net>>
  BY DEF DoFinalizeHangup, Running, circuit, scripts, world
<1>2. PICK c \in Circuits : c = Head(todo).circuit
  BY <1>1, Below, CallTypes
<1>3. ~InFlight(c) /\ ~SomeDecided
  BY <1>1, <1>2 DEF LifeInv, HeadRight
<1>4. PICK t \in {"active", "inactive", "failed"} :
        \/ Return
        \/ ~HangupDelayed(c) /\ Run(<<After("hung_up", c)>>)
        \/ ~HangupDelayed(c) /\ Run(<<ChangeState(c, t), After("hung_up", c)>>)
  <2> DEFINE t == IF hangup_state[c] = "none" THEN "active" ELSE hangup_state[c]
  <2>1. t \in {"active", "inactive", "failed"}
    BY DEF CircdInv, TypeOK
  <2>2. \/ Return
        \/ ~HangupDelayed(c) /\ Run(<<After("hung_up", c)>>)
        \/ ~HangupDelayed(c) /\ Run(<<ChangeState(c, t), After("hung_up", c)>>)
    BY <1>2 DEF DoFinalizeHangup, Return
  <2> HIDE DEF t
  <2> QED BY <2>1, <2>2
<1>5. \A y \in Circuits :
           /\ Queued(y)' <=> Queued(y)
           /\ translated[y] \/ worker[y] \in {"dial", "gone"} \/ DialBefore(queue'[y])
  BY <1>1 DEF LifeInv, Interface, Queued
<1>6. CASE Return
  BY <1>1, <1>5, <1>6, Returned
<1> DEFINE k == ChangeState(c, t)
           a == After("hung_up", c)
<1>7. ASSUME ~HangupDelayed(c), NEW calls, calls = <<a>> \/ calls = <<k, a>>, Run(calls)
      PROVE  LifeInv'
  <2>1. NoSession(c)
    BY <1>7, NothingLeft
  <2>2. /\ k.fn = "change_state" /\ k.circuit = c /\ k.to = t
        /\ k \in FitCall /\ a \in LowerCall /\ a \in FitCall /\ a.fn = "hung_up"
        /\ \A x : a = After("hung_up", x) => x = c
        /\ \A x : k # After("hung_up", x)
        /\ \A x : a # After("dialled", x) /\ k # After("dialled", x)
    <3>1. t \in State
      BY DEF State
    <3>2. k \in FitCall /\ a \in LowerCall /\ a \in FitCall
      BY <3>1, CallsFit DEF LowerCall
    <3> QED BY <3>2 DEF ChangeState, After
  <2> HIDE DEF k, a
  <2>3. \/ calls = <<a>> /\ DOMAIN calls = {1} /\ calls[1] = a
        \/ calls = <<k, a>> /\ DOMAIN calls = {1, 2} /\ calls[1] = k /\ calls[2] = a
    BY <1>7
  <2>4. /\ calls \in Seq(FitCall) /\ calls # <<>> /\ Tail(calls) \in Seq(LowerCall)
        /\ Head(calls) \in {a, k}
    <3>1. /\ <<a>> \in Seq(FitCall) /\ <<a>> # <<>> /\ Tail(<<a>>) \in Seq(LowerCall)
          /\ Head(<<a>>) = a
      BY <2>2
    <3>2. /\ <<k, a>> \in Seq(FitCall) /\ <<k, a>> # <<>> /\ Tail(<<k, a>>) \in Seq(LowerCall)
          /\ Head(<<k, a>>) = k
      BY <2>2
    <3> QED BY <2>3, <3>1, <3>2
  <2>5. Ordered(calls)
    BY <2>2, <2>3, OrderedFew DEF MayPrecede
  <2>6. \A m : Has(calls, m) => m \in {a, k}
    BY <2>3 DEF Has
  <2>7. /\ Tail(todo) \in Seq(LowerCall) /\ Ordered(Tail(todo))
        /\ \A x \in Circuits : Has(Tail(todo), After("hung_up", x)) => daemons[x] = {}
        /\ \A i \in DOMAIN calls : \A j \in DOMAIN Tail(todo) : MayPrecede(calls[i], Tail(todo)[j])
    BY <1>1, <1>3, Below, NoneDecided
  <2>8. todo' = calls \o Tail(todo)
    BY <1>7 DEF Run
  <2>9. \A x \in Circuits :
          Has(calls, After("hung_up", x)) \/ Has(Tail(todo), After("hung_up", x)) => daemons'[x] = {}
    BY <1>1, <2>1, <2>2, <2>6, <2>7 DEF NoSession
  <2>10. /\ Stack'
         /\ \A x : Decided(x)' <=> Has(calls, After("dialled", x)) \/ Has(Tail(todo), After("dialled", x))
    BY <2>4, <2>5, <2>7, <2>8, <2>9, Pushed
  <2>11. \A x \in Circuits : ~Decided(x) /\ ~Decided(x)'
    BY <1>1, <1>3, <2>2, <2>6, <2>10, Below DEF SomeDecided
  <2>12. \A x \in Circuits : Single(todo', After("dialled", x))
    BY <2>11 DEF Decided, Has, Single
  <2>13. todo' # <<>> /\ Head(todo') \in {a, k}
    <3>1. Tail(todo) \in Seq(FitCall)
      <4>1. LowerCall \subseteq FitCall
        BY DEF LowerCall
      <4> QED BY <2>7, <4>1, SeqMonotonic
    <3> QED BY <2>4, <2>8, <3>1, HeadTailProperties, ConcatProperties
  <2>14. (NoSession(c) /\ ~InFlight(c) /\ ~SomeDecided)'
    <3>1. NoSession(c)'
      BY <1>1, <2>1 DEF NoSession
    <3>2. ~InFlight(c)'
      BY <1>1, <1>3 DEF InFlight, Dials, Queued, Asked
    <3>3. ~SomeDecided'
      BY <2>11 DEF SomeDecided
    <3> QED BY <3>1, <3>2, <3>3
  <2>15. HeadRight'
    <3>1. CASE Head(todo') = a
      BY <2>2, <2>13, <3>1 DEF HeadRight
    <3>2. CASE Head(todo') = k
      BY <2>2, <2>13, <2>14, <3>2, HeadIs
    <3> QED BY <2>13, <3>1, <3>2
  <2>16. \A x : Head(todo) # ChangeState(x, "ready")
    BY <1>1 DEF ChangeState
  <2> QED BY <1>1, <1>5, <2>10, <2>11, <2>12, <2>15, <2>16, CallWith
<1> HIDE DEF k, a
<1>8. <<After("hung_up", c)>> = <<a>> /\ <<ChangeState(c, t), After("hung_up", c)>> = <<k, a>>
  BY DEF k, a
<1> QED BY <1>4, <1>6, <1>7, <1>8

(* A circuit changes its state. *)
LEMMA ChangeStateStep ==
  ASSUME CircdInv, LifeInv, DoChangeState
  PROVE  LifeInv'
<1>1. /\ todo # <<>> /\ Head(todo).fn = "change_state"
      /\ UNCHANGED <<operation, protocols_up, inbox, queue, worker, translated, daemons, process,
                     owner, net>>
  BY DEF DoChangeState, Running, scripts, world
<1>2. PICK c \in Circuits, new \in State : c = Head(todo).circuit /\ new = Head(todo).to
  BY <1>1, Below, CallTypes
<1>3. Head(todo) = ChangeState(c, new)
  BY <1>1, <1>2, Below, CallIs
<1>4. /\ new = "ready" => state[c] = "active" /\ Decided(c) /\ DependenciesMet(c, FALSE)
      /\ new \in {"semionline", "online"} => state[c] \in Up /\ ~SomeDecided
      /\ new \in {"inactive", "active", "failed"} =>
           NoSession(c) /\ ~InFlight(c) /\ ~SomeDecided
  BY <1>1, <1>2 DEF LifeInv, HeadRight
<1>5. PICK stop : /\ stop = <<>> \/ (new # "ready" /\ stop = <<After("stop_queue", c)>>)
                  /\ \/ /\ state[c] = new /\ Run(stop) /\ UNCHANGED state
                     \/ /\ state[c] # new /\ state' = [state EXCEPT ![c] = new]
                        /\ Run(<<React(c, c, new, 0)>> \o stop)
  <2> DEFINE s == IF shutting_down /\ new \in {"inactive", "failed"}
                  THEN <<After("stop_queue", c)>> ELSE <<>>
  <2>1. s = <<>> \/ (new # "ready" /\ s = <<After("stop_queue", c)>>)
    OBVIOUS
  <2>2. \/ /\ state[c] = new /\ Run(s) /\ UNCHANGED state
        \/ /\ state[c] # new /\ state' = [state EXCEPT ![c] = new]
           /\ Run(<<React(c, c, new, 0)>> \o s)
    BY <1>2 DEF DoChangeState
  <2> HIDE DEF s
  <2> QED BY <2>1, <2>2
<1> DEFINE a == After("stop_queue", c)
           r == React(c, c, new, 0)
           t == Tail(todo)
<1>6. /\ t \in Seq(LowerCall) /\ Ordered(t)
      /\ \A x \in Circuits : Has(t, After("hung_up", x)) => daemons[x] = {}
      /\ \A x : /\ Decided(x) <=> Has(t, After("dialled", x))
                /\ Single(todo, After("dialled", x)) => Single(t, After("dialled", x))
  <2>1. \A x : Head(todo) # After("dialled", x)
    BY <1>1 DEF After
  <2> QED BY <1>1, <2>1, Below
<1>7. c \in Dependents(c) => new \notin Up
  <2>1. state[c] \in Up => c \notin Dependents(c)
    BY DEF LifeInv, Chains
  <2>2. new = "ready" => c \notin Dependents(c)
    BY <1>4 DEF LifeInv, Chains
  <2> QED BY <1>4, <2>1, <2>2 DEF Up
<1>8. /\ a.fn = "stop_queue" /\ a \in FitCall /\ a \in LowerCall
      /\ r.fn = "react" /\ r.circuit = c /\ r.changed = c /\ r.to = new /\ r.position = 0
      /\ r \in FitCall
      /\ \A x : /\ a # After("hung_up", x) /\ a # After("dialled", x)
                /\ r # After("hung_up", x) /\ r # After("dialled", x)
  <2>1. a \in FitCall /\ a \in LowerCall
    BY CallsFit DEF LowerCall
  <2>2. r \in Call /\ r.fn = "react" /\ r.circuit = c /\ r.changed = c /\ r.to = new
        /\ r.position = 0
    BY DEF React, Call
  <2>3. r \in FitCall
    <3> HIDE DEF r
    <3> QED BY <1>7, <2>2 DEF FitCall
  <2>4. \A what, x : After(what, x).fn = what
    BY DEF After
  <2>5. a.fn = "stop_queue"
    BY <2>4
  <2> HIDE DEF a, r
  <2> QED BY <2>1, <2>2, <2>3, <2>4, <2>5
<1> HIDE DEF a, r
<1>9. \A j \in DOMAIN t : MayPrecede(a, t[j]) \/ new = "ready"
  <2>1. new # "ready" => ~SomeDecided
    BY <1>4 DEF State
  <2> QED BY <1>1, <2>1, NoneDecided
<1>10. \A j \in DOMAIN t : MayPrecede(r, t[j])
  <2>1. CASE new # "ready"
    <3>1. ~SomeDecided
      BY <1>4, <2>1 DEF State
    <3> QED BY <1>1, <3>1, NoneDecided
  <2>2. CASE new = "ready"
    <3> SUFFICES ASSUME NEW j \in DOMAIN t, t[j].fn = "dialled"
                 PROVE  t[j].circuit \notin Dependents(c)
      BY <1>8 DEF MayPrecede
    <3>1. t[j] \in Call
      BY <1>6 DEF LowerCall, FitCall
    <3>2. PICK y \in Circuits : t[j] = After("dialled", y) /\ y = t[j].circuit
      BY <3>1, CallIs
    <3>3. Decided(y)
      BY <1>6, <3>2 DEF Has
    <3>4. y \in Dependents(c) => state[c] \in Up
      BY <3>3 DEF LifeInv, Chains
    <3> QED BY <1>4, <2>2, <3>2, <3>4 DEF Up
  <2> QED BY <2>1, <2>2
(* What is common to the two ways to go on *)
<1>11. ASSUME NEW calls \in Seq(FitCall), Run(calls), Ordered(calls),
              calls # <<>> => Tail(calls) \in Seq(LowerCall),
              \A i \in DOMAIN calls : calls[i] = r \/ (calls[i] = a /\ new # "ready")
       PROVE  /\ Stack'
              /\ \A x \in Circuits : /\ Decided(x)' <=> Decided(x)
                                     /\ Single(todo', After("dialled", x))
  <2>1. \A m : Has(calls, m) => m = r \/ m = a
    BY <1>11 DEF Has
  <2>2. \A x : /\ ~Has(calls, After("dialled", x)) /\ ~Has(calls, After("hung_up", x))
               /\ Single(calls, After("dialled", x))
    BY <1>8, <2>1 DEF Has, Single
  <2>3. \A i \in DOMAIN calls : \A j \in DOMAIN t : MayPrecede(calls[i], t[j])
    BY <1>9, <1>10, <1>11
  <2>4. todo' = calls \o t
    BY <1>11 DEF Run
  <2>5. \A x \in Circuits :
          Has(calls, After("hung_up", x)) \/ Has(t, After("hung_up", x)) => daemons'[x] = {}
    BY <1>1, <1>6, <2>2
  <2> HIDE DEF t
  <2>6. /\ Stack'
        /\ \A x : Decided(x)' <=> Has(calls, After("dialled", x)) \/ Has(t, After("dialled", x))
        /\ \A x : Single(todo', After("dialled", x)) <=>
                     /\ Single(calls, After("dialled", x)) /\ Single(t, After("dialled", x))
                     /\ ~(Has(calls, After("dialled", x)) /\ Has(t, After("dialled", x)))
    BY <1>6, <1>11, <2>3, <2>4, <2>5, Pushed
  <2> QED BY <1>6, <2>2, <2>6 DEF LifeInv, OneDial
<1>12. stop \in Seq(LowerCall) /\ stop \in Seq(FitCall) /\ Ordered(stop)
       /\ \A i \in DOMAIN stop : stop[i] = a /\ new # "ready"
  <2>1. CASE stop = <<>>
    BY <2>1, OrderedFew
  <2>2. CASE new # "ready" /\ stop = <<a>>
    <3>1. <<a>> \in Seq(LowerCall) /\ <<a>> \in Seq(FitCall) /\ Ordered(<<a>>)
          /\ \A i \in DOMAIN <<a>> : <<a>>[i] = a
      BY <1>8, OrderedFew
    <3> QED BY <2>2, <3>1
  <2> QED BY <1>5, <2>1, <2>2 DEF a
<1>13. CASE state[c] = new /\ Run(stop) /\ UNCHANGED state
  <2>1. new # "ready"
    BY <1>4, <1>13
  <2>2. stop # <<>> => Tail(stop) \in Seq(LowerCall)
    BY <1>12, HeadTailProperties
  <2>3. /\ Stack'
        /\ \A x \in Circuits : /\ Decided(x)' <=> Decided(x)
                               /\ Single(todo', After("dialled", x))
    BY <1>11, <1>12, <1>13, <2>2
  <2>4. HeadRight'
    <3>1. todo' \in Seq(LowerCall)
      BY <1>6, <1>12, <1>13, ConcatProperties DEF Run
    <3> QED BY <3>1, LowerFirst
  <2>5. \A x : Head(todo) # ChangeState(x, "ready")
    BY <1>2, <2>1 DEF ChangeState
  <2>6. \A y \in Circuits :
           /\ Queued(y)' <=> Queued(y)
           /\ Single(queue[y], "dial") => Single(queue'[y], "dial")
           /\ translated[y] \/ worker[y] \in {"dial", "gone"} \/ DialBefore(queue'[y])
    BY <1>1 DEF LifeInv, Interface, Queued
  <2> QED BY <1>1, <1>13, <2>3, <2>4, <2>5, <2>6, CallWith
<1>14. CASE /\ state[c] # new /\ state' = [state EXCEPT ![c] = new]
            /\ Run(<<r>> \o stop)
  <2>1. PICK calls : calls = <<r>> \o stop
    OBVIOUS
  <2>2. <<r>> \in Seq(FitCall) /\ DOMAIN <<r>> = {1} /\ <<r>>[1] = r /\ Ordered(<<r>>)
    BY <1>8, OrderedFew
  <2>3. calls \in Seq(FitCall) /\ calls # <<>> /\ Head(calls) = r /\ Tail(calls) = stop
    BY <1>8, <1>12, <2>1
  <2>4. \A i \in DOMAIN calls : calls[i] = r \/ (calls[i] = a /\ new # "ready")
    <3>1. \A i \in DOMAIN calls : \/ calls[i] = r
                                  \/ \E j \in DOMAIN stop : calls[i] = stop[j]
      BY <1>12, <2>1, <2>2, Joined
    <3> QED BY <1>12, <3>1
  <2>5. Ordered(calls)
    <3>1. MayPrecede(r, a)
      BY <1>8 DEF MayPrecede
    <3>2. \A i \in DOMAIN <<r>> : \A j \in DOMAIN stop : MayPrecede(<<r>>[i], stop[j])
      BY <1>12, <2>2, <3>1
    <3> QED BY <1>12, <2>1, <2>2, <3>2, OrderedJoined
  <2>6. Run(calls)
    BY <1>14, <2>1
  <2>7. /\ Stack'
        /\ \A x \in Circuits : /\ Decided(x)' <=> Decided(x)
                               /\ Single(todo', After("dialled", x))
    BY <1>11, <1>12, <2>3, <2>4, <2>5, <2>6
  <2>8. todo' # <<>> /\ Head(todo') = r
    <3>1. t \in Seq(FitCall)
      <4>1. LowerCall \subseteq FitCall
        BY DEF LowerCall
      <4> QED BY <1>6, <4>1, SeqMonotonic
    <3>2. todo' = calls \o t
      BY <2>6 DEF Run
    <3> HIDE DEF t
    <3> QED BY <2>3, <3>1, <3>2, HeadTailProperties, ConcatProperties
  <2>9. /\ state'[c] = new
        /\ \A x \in Circuits : x # c => state'[x] = state[x]
    BY <1>14 DEF CircdInv, TypeOK
  <2>10. \A x \in Circuits : /\ InFlight(x)' <=> InFlight(x)
                             /\ NoSession(x)' <=> NoSession(x)
                             /\ Asked(x)' <=> Asked(x)
                             /\ Queued(x)' <=> Queued(x)
    BY <1>1 DEF InFlight, Dials, Asked, Queued, NoSession
  <2>11. OneDial'
    <3>1. \A x \in Circuits : Dials(x)' <=> Dials(x)
      BY <1>1 DEF Dials
    <3> QED BY <1>1, <2>7, <2>10, <3>1 DEF LifeInv, OneDial
  <2>12. DialFirst'
    BY <2>7, <2>10 DEF LifeInv, DialFirst
  <2>13. Waiting'
    <3> SUFFICES ASSUME NEW x \in Circuits, state'[x] \notin Up
                 PROVE  NoSession(x) /\ ~InFlight(x) /\ ~Decided(x)
      BY <2>7, <2>10 DEF Waiting
    <3>1. CASE x = c
      <4>1. new \in {"inactive", "active", "failed"}
        BY <2>9, <3>1 DEF Up, State
      <4> QED BY <1>4, <3>1, <4>1 DEF SomeDecided
    <3>2. CASE x # c
      <4>1. state[x] \notin Up /\ Head(todo) # ChangeState(x, "ready")
        BY <1>2, <2>9, <3>2 DEF ChangeState
      <4> QED BY <4>1 DEF LifeInv, Waiting
    <3> QED BY <3>1, <3>2
  <2>14. Interface'
    <3>1. state'[c] \in Up => state[c] \in Up \/ Decided(c)
      BY <1>4, <2>9 DEF Up
    <3> QED BY <1>1, <2>7, <2>9, <2>10, <3>1 DEF LifeInv, Interface
  <2>15. Chains'
    <3>1. ASSUME NEW x \in Circuits, Decided(x), NEW z \in Circuits, x \in Dependents(z)
          PROVE  z # x /\ state'[z] \in Up
      <4>1. new = "ready"
        BY <1>4, <3>1 DEF SomeDecided, State
      <4>2. z # x /\ state[z] \in Up
        BY <3>1 DEF LifeInv, Chains
      <4> QED BY <2>9, <4>1, <4>2 DEF Up
    <3>2. \A x \in Circuits : x \in Dependents(x) => state'[x] \notin Up
      BY <1>7, <2>9 DEF LifeInv, Chains
    <3> QED BY <2>7, <3>1, <3>2 DEF Chains
  <2>16. HeadRight'
    <3>1. Decided(c)' => DependenciesMet(c, FALSE)'
      <4> SUFFICES ASSUME Decided(c)
                   PROVE  DependenciesMet(c, FALSE)'
        BY <2>7
      <4>1. DependenciesMet(c, FALSE) /\ \A z \in Circuits : c \in Dependents(z) => z # c
        BY <1>4 DEF LifeInv, Chains, SomeDecided, State
      <4>2. ASSUME NEW d \in Deps[c]
            PROVE  IsOnline(d[1], d[2])'
        <5>1. d[1] \in Circuits /\ d[1] # c
          BY <4>1, CircdAssumption DEF Dependents
        <5>2. IsOnline(d[1], d[2])
          BY <4>1 DEF DependenciesMet
        <5> QED BY <1>1, <2>9, <5>1, <5>2 DEF IsOnline
      <4>3. ASSUME NEW d \in WeakDeps[c]
            PROVE  IsAtLeastReady(d, FALSE)'
        <5>1. d \in Circuits /\ d # c
          BY <4>1, CircdAssumption DEF Dependents
        <5>2. IsAtLeastReady(d, FALSE)
          BY <4>1 DEF DependenciesMet
        <5> QED BY <1>1, <2>9, <5>1, <5>2 DEF IsAtLeastReady
      <4> QED BY <4>2, <4>3 DEF DependenciesMet
    <3> QED BY <1>8, <2>8, <2>9, <3>1, HeadIs
  <2>17. Sessions' /\ AllSucceed'
    <3>1. Sessions'
      BY <1>1 DEF LifeInv, Sessions, Registrations, Served, Announced, Backed, InUse, Alive
    <3> QED BY <1>1, <3>1 DEF LifeInv, AllSucceed, Success
  <2> QED BY <2>7, <2>11, <2>12, <2>13, <2>14, <2>15, <2>16, <2>17 DEF LifeInv
<1> QED BY <1>5, <1>13, <1>14 DEF r

-----------------------------------------------------------------------------
(* The theorems *)

(* Nothing is on its way at first. *)
LEMMA InitLifeInv == Init => LifeInv
<1> SUFFICES ASSUME Init PROVE LifeInv
  OBVIOUS
<1>1. \A m : ~Has(<<>>, m) /\ Single(<<>>, m)
  BY HasOne
<1>2. \A c \in Circuits : /\ ~Decided(c) /\ ~InFlight(c) /\ ~Queued(c) /\ ~Asked(c) /\ NoSession(c)
                          /\ state[c] \notin Up
  BY <1>1 DEF Init, Decided, InFlight, Dials, Queued, Asked, NoSession, Up
<1>3. OneDial /\ DialFirst /\ Waiting /\ Chains
  BY <1>1, <1>2 DEF Init, OneDial, DialFirst, Waiting, Chains
<1>4. \A d \in Daemons : ~Alive(d) /\ net[d] = {} /\ process[d] = "none"
  BY <1>1 DEF Init, Alive
<1>5. Sessions
  BY <1>1, <1>4 DEF Init, Sessions, Registrations, Served, InUse, Announced, Backed
<1>6. Interface /\ AllSucceed
  BY <1>2 DEF Init, Interface, DialBefore, AllSucceed
<1>7. Stack /\ HeadRight
  BY <1>1, OrderedFew DEF Init, Stack, HeadRight
<1> QED BY <1>3, <1>5, <1>6, <1>7 DEF LifeInv

LEMMA StutterLife ==
  ASSUME LifeInv, UNCHANGED vars
  PROVE  LifeInv'
<1>1. UNCHANGED <<state, operation, protocols_up, daemons, todo, inbox, queue, worker, translated,
                  process, owner, net>>
  BY DEF vars, circuit, scripts, world
<1>2. OneDial' /\ DialFirst' /\ Waiting' /\ Interface' /\ Chains'
  BY <1>1 DEF LifeInv, OneDial, DialFirst, Waiting, Interface, Chains, Decided, InFlight, Dials,
              Queued, Asked, NoSession
<1>3. Sessions' /\ AllSucceed'
  BY <1>1 DEF LifeInv, Sessions, Registrations, Served, Announced, Backed, InUse, Alive, AllSucceed,
              Success
<1>4. Stack' /\ HeadRight'
  BY <1>1 DEF LifeInv, Stack, HeadRight, Decided, SomeDecided, InFlight, Dials, Queued, Asked,
              NoSession, DependenciesMet, IsOnline, IsAtLeastReady, FitCall, LowerCall
<1> QED BY <1>2, <1>3, <1>4 DEF LifeInv

(* Scripts that ask are allowed to dial, the mode is never "off". *)
LEMMA PermittedStep ==
  ASSUME NoScriptFails, CircdInv, LifeInv, Permitted, [Next]_vars
  PROVE  Permitted'
<1>1. ASSUME UNCHANGED modes, NEW c \in Circuits, NEW w, worker' = [worker EXCEPT ![c] = w],
             w # "refused", w = "asks" => AsksMode # {}
      PROVE  Permitted'
  BY <1>1 DEF Permitted, modes, CircdInv, TypeOK
<1>2. CASE UNCHANGED <<modes, worker>>
  BY <1>2 DEF Permitted, modes
<1>3. CASE CircdCall
  <2>1. UNCHANGED <<modes, worker>>
    BY <1>3 DEF CircdCall, DoChangeState, DoReact, DoModeChange, Dialled, DoFinalizeHangup, HungUp,
                WentOnline, NotDialled, StopQueue, scripts
  <2> QED BY <1>2, <2>1
<1>4. CASE HandleGetMode
  <2>1. UNCHANGED modes
    BY <1>4 DEF HandleGetMode
  <2>2. ASSUME NEW x \in Circuits
        PROVE  /\ worker'[x] # "refused"
               /\ worker'[x] = "asks" => worker[x] = "asks"
    <3>1. CASE worker'[x] = worker[x]
      BY <3>1 DEF Permitted
    <3>2. CASE worker'[x] # worker[x]
      <4>1. /\ worker[x] = "asks"
            /\ worker'[x] = IF EffectiveMode(x) = "off" THEN "refused" ELSE "allowed"
        BY <1>4, <3>2 DEF HandleGetMode, CircdInv, TypeOK
      <4>2. global_mode # "off" /\ local_mode[x] # "off"
        BY <4>1 DEF Permitted
      <4>3. EffectiveMode(x) # "off"
        BY <4>2 DEF EffectiveMode, Smaller
      <4> QED BY <4>1, <4>3
    <3> QED BY <3>1, <3>2
  <2> QED BY <2>1, <2>2 DEF Permitted, modes
<1>5. CASE HandleSetMode
  <2>1. /\ inbox # <<>> /\ Msg = Head(inbox) /\ UNCHANGED worker
        /\ Msg.type \in {"set_global_dialmode", "set_local_dialmode"}
        /\ \/ UNCHANGED modes
           \/ global_mode' = Msg.mode /\ UNCHANGED local_mode
           \/ local_mode' = [local_mode EXCEPT ![Msg.circuit] = Msg.mode] /\ UNCHANGED global_mode
    BY <1>5 DEF HandleSetMode, Receives, Msg, scripts
  <2>2. Msg \in Success
    BY <2>1, HeadTailProperties DEF LifeInv, AllSucceed
  <2>3. AsksMode # {} => Msg.mode # "off"
    BY <2>1, <2>2 DEF Success, SwitchesOff
  <2> QED BY <2>1, <2>3 DEF Permitted, modes, CircdInv, TypeOK
<1>6. CASE CircdHandler /\ ~HandleGetMode /\ ~HandleSetMode
  <2>1. UNCHANGED <<modes, worker>>
    BY <1>6 DEF CircdHandler, HandleActivate, HandleDialup, HandleHangup, HandleUp,
                HandleDown, HandleDialupFailed, HandleHangupFailed, HandleStartDaemon,
                HandleStopDaemon, HandleDaemonExited, HandleChildExited, HandleStopService, scripts
  <2> QED BY <1>2, <2>1
<1>7. ASSUME NEW c \in Circuits, Script(c)
      PROVE  Permitted'
  <2>1. CASE QueueTakes(c)
    <3>1. queue[c] \in Seq({"dial", "hangup", "quit"}) /\ queue[c] # <<>>
      BY <2>1, Types DEF QueueTakes
    <3>2. Head(queue[c]) \in {"dial", "hangup", "quit"}
      BY <3>1, HeadTailProperties
    <3>3. UNCHANGED modes /\ \E w \in {"dial", "hangup", "gone"} : worker' = [worker EXCEPT ![c] = w]
      BY <2>1, <3>2 DEF QueueTakes
    <3> QED BY <1>1, <3>3
  <2>2. CASE DialScript(c)
    <3>1. /\ UNCHANGED modes
          /\ \/ worker' = [worker EXCEPT ![c] = "idle"]
             \/ worker' = [worker EXCEPT ![c] = "asks"] /\ c \in AsksMode
      BY <2>2 DEF DialScript
    <3> QED BY <1>1, <3>1
  <2>3. CASE DialAnswered(c) \/ HangupScript(c)
    <3>1. UNCHANGED modes /\ worker' = [worker EXCEPT ![c] = "idle"]
      BY <2>3 DEF DialAnswered, HangupScript
    <3> QED BY <1>1, <3>1
  <2> QED BY <1>7, <2>1, <2>2, <2>3 DEF Script
<1>8. CASE \E d \in Daemons : Daemon(d)
  <2>1. UNCHANGED <<modes, worker>>
    BY <1>8 DEF Daemon, DaemonExits, ProtocolUp, ProtocolDown, scripts
  <2> QED BY <1>2, <2>1
<1>9. CASE \E m \in Commands : Send(m)
  <2>1. UNCHANGED <<modes, worker>>
    BY <1>9 DEF Send, scripts
  <2> QED BY <1>2, <2>1
<1>10. CASE UNCHANGED vars
  <2>1. UNCHANGED <<modes, worker>>
    BY <1>10 DEF vars, scripts
  <2> QED BY <1>2, <2>1
<1> QED BY <1>3, <1>4, <1>5, <1>6, <1>7, <1>8, <1>9, <1>10 DEF Next, CircdStep

LEMMA InitPermitted ==
  ASSUME NoScriptFails, Init
  PROVE  Permitted
BY DEF NoScriptFails, Init, Permitted

LEMMA NextLifeInv ==
  ASSUME NoScriptFails, CircdInv, LifeInv, Permitted, [Next]_vars
  PROVE  LifeInv'
<1>1. CASE CircdCall
  BY <1>1, ChangeStateStep, ReactStep, ModeChangeStep, DialledStep, FinalizeHangupStep, HungUpStep,
     WentOnlineStep, NoNotDialled, StopQueueStep, Zenon DEF CircdCall
<1>2. CASE CircdHandler
  BY <1>2, ActivateStep, DialupStep, HangupStep, SetModeStep, GetModeStep, ReportStep, NoFailure,
     StartDaemonStep, StopDaemonStep, DaemonExitedStep, ChildExitedStep, StopServiceStep, Zenon
     DEF CircdHandler
<1>3. ASSUME NEW c \in Circuits, Script(c)
      PROVE  LifeInv'
  BY <1>3, QueueTakesStep, DialScriptStep, DialAnsweredStep, HangupScriptStep DEF Script
<1>4. CASE \E d \in Daemons : Daemon(d)
  BY <1>4, DaemonStep
<1>5. CASE \E m \in Commands : Send(m)
  BY <1>5, SendStep
<1>6. CASE UNCHANGED vars
  BY <1>6, StutterLife
<1> QED BY <1>1, <1>2, <1>3, <1>4, <1>5, <1>6 DEF Next, CircdStep

(* Where no dial script fails, the invariant holds in every state. *)
THEOREM LifeInvariance ==
  ASSUME NoScriptFails
  PROVE  Spec => [](CircdInv /\ LifeInv)
<1>1. CircdInv /\ LifeInv /\ Permitted /\ [Next]_vars => (CircdInv /\ LifeInv /\ Permitted)'
  BY NextCircdInv, NextLifeInv, PermittedStep
<1>2. Init => CircdInv /\ LifeInv /\ Permitted
  BY InitCircdInv, InitLifeInv, InitPermitted
<1> QED BY <1>1, <1>2, PTL DEF Spec

(* What circd is asked to start a daemon for *)
LEMMA DaemonWanted ==
  ASSUME CircdInv, LifeInv, Receives("start_daemon")
  PROVE  /\ Msg.circuit \in Circuits
         /\ NoSession(Msg.circuit) /\ state[Msg.circuit] \in Up
<1>1. inbox # <<>> /\ Msg = Head(inbox) /\ Msg.type = "start_daemon" /\ inbox \in Seq(Message)
  BY Types DEF Receives, Msg
<1>2. PICK c \in Circuits : Msg = StartDaemon(c) /\ c = Msg.circuit
  <2>1. Msg \in Message
    BY <1>1, HeadTailProperties
  <2> QED BY <1>1, <2>1, MessageIs
<1>3. Asked(c)
  BY <1>1, <1>2, HasTail DEF Asked
<1> QED BY <1>2, <1>3 DEF LifeInv, DialFirst, Waiting, InFlight

(* circd never starts a daemon for a circuit while the last one is still   *)
(* registered, runs, or has a protocol up.                                 *)
THEOREM NeverTwoDaemons ==
  ASSUME NoScriptFails
  PROVE  Spec => []OneDaemon
<1>1. ASSUME CircdInv, LifeInv
      PROVE  OneDaemon
  <2> SUFFICES ASSUME Receives("start_daemon"), NEW d \in Daemons, owner[d] = Msg.circuit
               PROVE  process[d] = "none" /\ net[d] = {}
    BY <1>1, DaemonWanted DEF OneDaemon, NoSession
  <2>1. daemons[owner[d]] = {} /\ net[d] = {}
    BY <1>1, DaemonWanted DEF NoSession
  <2>2. ~Alive(d)
    BY <1>1, <2>1, AliveHasSession DEF LifeInv
  <2> QED BY <2>1, <2>2 DEF Alive
<1> QED BY <1>1, LifeInvariance, PTL

(* No daemon is started for an inactive circuit: only a dial script that   *)
(* fails makes circd do so.                                                *)
THEOREM InactiveStaysDown ==
  ASSUME NoScriptFails
  PROVE  Spec => []InactiveNotDialled
<1>1. ASSUME CircdInv, LifeInv
      PROVE  InactiveNotDialled
  BY <1>1, DaemonWanted DEF InactiveNotDialled, Up
<1> QED BY <1>1, LifeInvariance, PTL

(* Every circuit lives the life AbstractCircuit describes: Spec implements *)
(* it, under the same states.                                              *)
LEMMA AbsInit == Init => Abs!Init
BY DEF Init, Abs!Init

LEMMA AbsNext ==
  ASSUME CircdInv, LifeInv, [Next]_vars
  PROVE  [Abs!Next]_state
<1>1. CASE DoChangeState
  <2>1. todo # <<>> /\ Head(todo).fn = "change_state"
    BY <1>1 DEF DoChangeState, Running
  <2>2. PICK c \in Circuits, new \in State : c = Head(todo).circuit /\ new = Head(todo).to
    BY <2>1, Below, CallTypes
  <2>3. CASE UNCHANGED state
    BY <2>3
  <2>4. CASE state[c] # new /\ state' = [state EXCEPT ![c] = new]
    <3>1. state[c] \in State
      BY Types
    <3>2. CASE new = "ready"
      <4>1. state[c] = "active"
        BY <2>1, <2>2, <3>2 DEF LifeInv, HeadRight
      <4> QED BY <2>4, <3>2, <4>1 DEF Abs!Next, Abs!Dial, Abs!Becomes
    <3>3. CASE new \in {"semionline", "online"}
      <4>1. state[c] \in Up
        BY <2>1, <2>2, <3>3 DEF LifeInv, HeadRight
      <4> QED BY <2>4, <3>3, <4>1 DEF Abs!Next, Abs!Connect, Abs!Becomes, Up
    <3>4. CASE new \in {"inactive", "failed"}
      BY <2>4, <3>4 DEF Abs!Next, Abs!Down, Abs!Becomes
    <3>5. CASE new = "active"
      BY <2>4, <3>1, <3>5 DEF Abs!Next, Abs!Up, Abs!Hangup, Abs!Becomes, State
    <3> QED BY <3>2, <3>3, <3>4, <3>5 DEF State
  <2> QED BY <1>1, <2>2, <2>3, <2>4 DEF DoChangeState
<1>2. CASE ~DoChangeState
  <2>1. CASE CircdCall
    BY <1>2, <2>1 DEF CircdCall, DoReact, DoModeChange, Dialled, DoFinalizeHangup, HungUp,
                      WentOnline, NotDialled, StopQueue, circuit
  <2>2. CASE CircdHandler
    BY <2>2 DEF CircdHandler, HandleActivate, HandleDialup, HandleHangup, HandleSetMode, HandleGetMode,
                HandleUp, HandleDown, HandleDialupFailed, HandleHangupFailed, HandleStartDaemon,
                HandleStopDaemon, HandleDaemonExited, HandleChildExited, HandleStopService, circuit
  <2>3. CASE \E c \in Circuits : Script(c)
    BY <2>3 DEF Script, QueueTakes, DialScript, DialAnswered, HangupScript, circuit
  <2>4. CASE \E d \in Daemons : Daemon(d)
    BY <2>4 DEF Daemon, DaemonExits, ProtocolUp, ProtocolDown, circuit
  <2>5. CASE \E m \in Commands : Send(m)
    BY <2>5 DEF Send, circuit
  <2>6. CASE UNCHANGED vars
    BY <2>6 DEF vars, circuit
  <2> QED BY <2>1, <2>2, <2>3, <2>4, <2>5, <2>6 DEF Next, CircdStep
<1> QED BY <1>1, <1>2

(* The states of the circuits change as the documentation says: a circuit  *)
(* is activated before it is dialled, and dialled before it goes online.   *)
THEOREM CircuitsLive ==
  ASSUME NoScriptFails
  PROVE  Spec => AbsSpec
<1>1. CircdInv /\ LifeInv /\ [Next]_vars => [Abs!Next]_state
  BY AbsNext
<1> QED BY <1>1, AbsInit, LifeInvariance, PTL DEF Spec, AbsSpec, Abs!Spec
=============================================================================
