----------------------------- MODULE ImondProofs -----------------------------
(***************************************************************************)
(* For any number of channels, circuits, configuration lines and events:   *)
(* imond is type correct; a circuit is marked online exactly while one     *)
(* connection is accounted to it, and online_counter counts the            *)
(* connections; the charged time a client is shown never falls; and a link *)
(* is added only bandwidth_time after a rate below the limit.              *)
(***************************************************************************)
EXTENDS Imond, FiniteSetTheorems, WellFoundedInduction, TLAPS

Budgeted == budget \in [kernel : Nat, client : Nat, measure : BOOLEAN]

(* No time that is kept lies in the future, and the rate was not measured  *)
(* below the limit after it began to be high.  Setting the clock moves     *)
(* only some of the times.                                                 *)
Times ==
  /\ last_time_isdn <= now /\ pppoe.start <= now
  /\ ~adjusted => /\ \A ch \in Channels : online_start[ch] <= now
                  /\ last_low <= last_time_isdn
                  /\ higher # 0 => last_low <= higher

ImondInv == TypeOK /\ Budgeted /\ Times /\ OnlineAgrees

-----------------------------------------------------------------------------
(* Look-ups and charges *)

(* The first line of a set of lines is one of them. *)
LEMMA FirstIn ==
  ASSUME NEW S \in SUBSET DOMAIN Lines
  PROVE  First(S) \in {NoLine} \cup S
<1>1. CASE S = {}
  BY <1>1 DEF First
<1>2. CASE S # {}
  <2>1. S \subseteq Nat
    BY ImondAssumption
  <2>2. PICK m \in S : \A y \in S : ~ (<<y, m>> \in OpToRel(<, Nat))
    BY <1>2, <2>1, NatLessThanWellFounded, WFMin
  <2>3. ASSUME NEW y \in S
        PROVE  m <= y
    <3>1. y \in Nat /\ m \in Nat
      BY <2>1
    <3>2. <<y, m>> \in OpToRel(<, Nat) <=> y < m
      BY <3>1 DEF OpToRel
    <3>3. ~ (y < m)
      BY <2>2, <3>2
    <3> QED BY <3>1, <3>3
  <2> QED BY <1>2, <2>3 DEF First
<1> QED BY <1>1, <1>2

(* Line 0 is none of the lines, and belongs to no circuit. *)
LEMMA LinesAre ==
  /\ NoLine \notin DOMAIN Lines
  /\ \A i \in {NoLine} \cup DOMAIN Lines : CircuitOf(i) \in Circuits \cup {NoCircuit}
  /\ \A i \in DOMAIN Lines : CircuitOf(i) = Lines[i].circuit
  /\ CircuitOf(NoLine) = NoCircuit
  /\ 1 \in DOMAIN Lines
BY ImondAssumption DEF NoLine, CircuitOf

(* What is found is a line, and a line of a circuit that is not online *)
LEMMA Found ==
  ASSUME NEW call
  PROVE  /\ find_conf_data(call) \in {NoLine} \cup DOMAIN Lines
         /\ find_conf_data(call) # NoLine => ~online[CircuitOf(find_conf_data(call))]
<1> DEFINE S == {i \in DOMAIN Lines :
                   /\ ~Lines[i].is_pppoe
                   /\ IF call.out THEN Hour \in Lines[i].hours /\ call.phone \in Lines[i].outgoing_phone
                                  ELSE call.phone \in Lines[i].incoming_phone
                   /\ ~online[Lines[i].circuit]
                   /\ DeviceOnline(Lines[i].circuit)}
<1>1. find_conf_data(call) = First(S)
  BY DEF find_conf_data
<1>2. S \in SUBSET DOMAIN Lines /\ \A i \in S : ~online[Lines[i].circuit]
  OBVIOUS
<1> HIDE DEF S
<1>3. First(S) \in {NoLine} \cup S
  BY <1>2, FirstIn
<1> QED BY <1>1, <1>2, <1>3, LinesAre

LEMMA PppoeFound == find_pppoe_conf_data \in {NoLine} \cup DOMAIN Lines
BY FirstIn DEF find_pppoe_conf_data

LEMMA CircuitFound ==
  ASSUME NEW r \in Circuits \cup {NoCircuit}
  PROVE  find_circuit(r) \in Circuits \cup {NoCircuit}
<1> DEFINE S == {i \in DOMAIN Lines : Lines[i].is_lcr /\ Hour \in Lines[i].hours}
<1>1. First(S) \in {NoLine} \cup DOMAIN Lines
  BY FirstIn
<1> HIDE DEF S
<1>2. CircuitOf(First(S)) \in Circuits \cup {NoCircuit}
  BY <1>1, LinesAre
<1> QED BY <1>2 DEF find_circuit, S

(* Division by an interval is monotonic, and so is multiplication. *)
LEMMA Quotients ==
  ASSUME NEW n \in Nat \ {0}, NEW a \in Nat, NEW b \in Nat, a <= b
  PROVE  a \div n \in Nat /\ b \div n \in Nat /\ a \div n <= b \div n
OBVIOUS

LEMMA Products ==
  ASSUME NEW n \in Nat, NEW x \in Int, NEW y \in Int, x <= y
  PROVE  x * n \in Int /\ x * n <= y * n
OBVIOUS

(* What is charged is not negative for a connection that has just begun,   *)
(* and the longer the connection the more.                                 *)
LEMMA ChargedMonotonic ==
  ASSUME NEW i \in {NoLine} \cup DOMAIN Lines, NEW c \in Int, NEW d \in Int, c <= d
  PROVE  /\ Charged(i, c) \in Int /\ Charged(i, d) \in Int
         /\ Charged(i, c) <= Charged(i, d)
         /\ 0 <= Charged(i, 0)
<1> DEFINE n == IF i = NoLine THEN 1 ELSE Lines[i].interval
           q(x) == IF x >= 0 THEN x \div n ELSE -((-x) \div n)
<1>1. n \in Nat \ {0}
  BY ImondAssumption
<1>2. \A x \in Int : Charged(i, x) = IF n > 1 THEN q(x) * n + n ELSE x
  BY DEF Charged
<1> HIDE DEF n
<1>3. ASSUME NEW x \in Int
      PROVE  q(x) \in Int
  <2>1. CASE x >= 0
    BY <1>1, <2>1, Quotients
  <2>2. CASE x < 0
    <3>1. -x \in Nat
      BY <2>2
    <3>2. (-x) \div n \in Nat
      BY <1>1, <3>1, Quotients
    <3> QED BY <2>2, <3>2
  <2> QED BY <2>1, <2>2
<1>4. q(c) <= q(d)
  <2>1. CASE c >= 0
    BY <1>1, <2>1, Quotients
  <2>2. CASE c < 0 /\ d >= 0
    <3>1. -c \in Nat
      BY <2>2
    <3>2. (-c) \div n \in Nat /\ d \div n \in Nat
      BY <1>1, <2>2, <3>1, Quotients
    <3> QED BY <2>2, <3>2
  <2>3. CASE c < 0 /\ d < 0
    <3>1. -c \in Nat /\ -d \in Nat /\ -d <= -c
      BY <2>3
    <3>2. /\ (-c) \div n \in Nat /\ (-d) \div n \in Nat
          /\ (-d) \div n <= (-c) \div n
      BY <1>1, <3>1, Quotients
    <3> QED BY <2>3, <3>2
  <2> QED BY <2>1, <2>2, <2>3
<1>5. q(0) \in Nat
  BY <1>1, Quotients
<1> HIDE DEF q
<1>6. q(c) * n \in Int /\ q(d) * n \in Int /\ q(c) * n <= q(d) * n
  BY <1>1, <1>3, <1>4, Products
<1>7. q(0) * n \in Int /\ 0 <= q(0) * n
  BY <1>1, <1>5, Products
<1> QED BY <1>1, <1>2, <1>6, <1>7

LEMMA ChargedType ==
  ASSUME NEW i \in {NoLine} \cup DOMAIN Lines, NEW d \in Int
  PROVE  Charged(i, d) \in Int
<1>1. d <= d
  OBVIOUS
<1> QED BY <1>1, ChargedMonotonic

-----------------------------------------------------------------------------
(* Types and times *)

Lamp == online_counter \in Nat /\ led \in BOOLEAN

ChannelTypes ==
  /\ is_active \in [Channels -> BOOLEAN] /\ outgoing \in [Channels -> BOOLEAN]
  /\ online_start \in [Channels -> 0 .. MaxTime]
  /\ conf_idx \in [Channels -> {NoLine} \cup DOMAIN Lines]
  /\ charge_time \in [Channels -> Int]

KernelTypes ==
  /\ line \in [Channels -> LineState] /\ news \in BOOLEAN
  /\ seen \in [Channels -> LineState] /\ reading \in 0 .. LastChannel + 1

RouteTypes ==
  /\ route_idx \in Circuits \cup {NoCircuit}
  /\ default_device \in Circuits \cup {NoCircuit}
  /\ dialled \subseteq Circuits

RateTypes ==
  /\ last_time_isdn \in 0 .. MaxTime /\ last_low \in 0 .. MaxTime
  /\ higher \in 0 .. MaxTime /\ lower \in 0 .. MaxTime

PppoeType ==
  pppoe \in [start : 0 .. MaxTime, conf : {NoLine} \cup DOMAIN Lines, charge_time : Int]

CircuitTypes ==
  online \in [Circuits -> BOOLEAN] /\ link_added \in [Circuits -> 0 .. 1]

Typed == /\ now \in 1 .. MaxTime /\ adjusted \in BOOLEAN
         /\ Lamp /\ ChannelTypes /\ KernelTypes /\ RouteTypes /\ RateTypes
         /\ PppoeType /\ CircuitTypes
         /\ Budgeted /\ Times

LEMMA TypedIs == TypeOK /\ Budgeted /\ Times <=> Typed
BY DEF Typed, TypeOK, Lamp, ChannelTypes, KernelTypes, RouteTypes, RateTypes, PppoeType,
       CircuitTypes

(* CountUp and CountDown keep the lamp's types. *)
LEMMA Counted ==
  ASSUME Lamp, CountUp \/ CountDown
  PROVE  Lamp'
<1>1. CASE CountUp
  BY <1>1 DEF Lamp, CountUp
<1>2. CASE CountDown
  <2>1. (led /\ online_counter' > 0) \in BOOLEAN
    OBVIOUS
  <2>2. online_counter' \in Nat
    BY <1>2 DEF Lamp, CountDown, lamp
  <2>3. led' \in BOOLEAN
    BY <1>2, <2>1, Zenon DEF Lamp, CountDown, lamp
  <2> QED BY <2>2, <2>3 DEF Lamp
<1> QED BY <1>1, <1>2

LEMMA Routed ==
  ASSUME RouteTypes, NEW r \in Circuits \cup {NoCircuit}, check_routing(r),
         route_idx' \in Circuits \cup {NoCircuit}
  PROVE  RouteTypes'
BY CircuitFound DEF RouteTypes, check_routing

LEMMA Commanded ==
  ASSUME Budgeted, Command
  PROVE  /\ Budgeted' /\ budget' # budget
         /\ UNCHANGED <<line, news, seen, reading>>
<1>1. budget.client \in Nat /\ budget.client > 0 /\ budget' = [budget EXCEPT !.client = @ - 1]
  BY DEF Budgeted, Command
<1>2. budget'.client = budget.client - 1
  BY <1>1 DEF Budgeted
<1>3. ASSUME budget' = budget
      PROVE  FALSE
  <2>1. budget'.client = budget.client
    BY <1>3
  <2> QED BY <1>1, <1>2, <2>1
<1> QED BY <1>1, <1>3 DEF Budgeted, Command, kernel

LEMMA LookTypes ==
  ASSUME Typed, NEW ch \in Channels, Look(ch)
  PROVE  /\ is_active' \in [Channels -> BOOLEAN]
         /\ KernelTypes' /\ RouteTypes' /\ PppoeType' /\ Budgeted'
         /\ UNCHANGED <<now, pppoe, budget, adjusted>>
BY ImondAssumption DEF Typed, Look, KernelTypes, RouteTypes, PppoeType, Budgeted, ChannelTypes,
   kernel, routes, Channels

(* A link is added or removed, or nothing happens. *)
LEMMA LinkTypes ==
  ASSUME CircuitTypes, NEW c \in Circuits, addlink(c) \/ removelink(c)
  PROVE  link_added' \in [Circuits -> 0 .. 1]
BY DEF CircuitTypes, addlink, removelink

LEMMA NowIs == ASSUME Typed PROVE now \in Nat \ {0} /\ now <= MaxTime /\ MaxTime \in Nat
BY ImondAssumption DEF Typed

LEMMA TypedStep == Typed /\ [Next]_vars => Typed'
<1> SUFFICES ASSUME Typed, [Next]_vars
             PROVE  Typed'
  OBVIOUS
<1> USE NowIs
<1>1. CASE UNCHANGED vars
  BY <1>1 DEF vars, Typed, Lamp, ChannelTypes, KernelTypes, RouteTypes, RateTypes, PppoeType,
              CircuitTypes, Budgeted, Times, kernel, infos, circuits, lamp, routes, rates
<1>2. CASE ReadInfo
  <2>1. /\ seen' = line /\ news' = FALSE /\ reading' = 0
        /\ UNCHANGED <<now, line, infos, circuits, pppoe, lamp, routes, rates, budget, adjusted>>
    BY <1>2 DEF ReadInfo
  <2>2. KernelTypes'
    <3>1. reading' \in 0 .. LastChannel + 1
      BY <2>1, ImondAssumption
    <3> QED BY <2>1, <3>1 DEF Typed, KernelTypes
  <2> QED BY <2>1, <2>2
          DEF Typed, Lamp, ChannelTypes, RouteTypes, RateTypes, PppoeType,
              CircuitTypes, Budgeted, Times, infos, circuits, lamp, routes, rates
<1>3. ASSUME NEW ch \in Channels, NothingNew(ch)
      PROVE  Typed'
  <2>1. /\ Look(ch)
        /\ UNCHANGED <<online_start, conf_idx, outgoing, charge_time, circuits, lamp, rates>>
    BY <1>3 DEF NothingNew
  <2>2. /\ is_active' \in [Channels -> BOOLEAN]
        /\ KernelTypes' /\ RouteTypes' /\ PppoeType' /\ Budgeted'
        /\ UNCHANGED <<now, pppoe, budget, adjusted>>
    BY <2>1, LookTypes
  <2>3. ChannelTypes' /\ RateTypes' /\ CircuitTypes' /\ Lamp'
    BY <2>1, <2>2 DEF Typed, ChannelTypes, RateTypes, CircuitTypes, Lamp, circuits, lamp, rates
  <2>4. Times'
    BY <2>1, <2>2 DEF Typed, Times, rates
  <2> QED BY <2>2, <2>3, <2>4 DEF Typed
<1>4. ASSUME NEW ch \in Channels, NewConnection(ch)
      PROVE  Typed'
  <2> DEFINE i == find_conf_data(seen[ch])
  <2>1. /\ Look(ch) /\ CountUp /\ last_time_isdn' = now
        /\ online_start' = [online_start EXCEPT ![ch] = now]
        /\ outgoing' = [outgoing EXCEPT ![ch] = seen[ch].out]
        /\ conf_idx' = [conf_idx EXCEPT ![ch] = i]
        /\ online' = [c \in Circuits |-> online[c] \/ c = CircuitOf(i)]
        /\ UNCHANGED <<charge_time, link_added, higher, lower, last_low>>
        /\ seen[ch] \in Calls
    BY <1>4 DEF NewConnection, IsUp
  <2>2. /\ is_active' \in [Channels -> BOOLEAN]
        /\ KernelTypes' /\ RouteTypes' /\ PppoeType' /\ Budgeted'
        /\ UNCHANGED <<now, pppoe, budget, adjusted>>
    BY <2>1, LookTypes
  <2>3. i \in {NoLine} \cup DOMAIN Lines
    BY Found
  <2> HIDE DEF i
  <2>4. online' \in [Circuits -> BOOLEAN] /\ CircuitTypes'
    <3>1. \A c \in Circuits : (online[c] \/ c = CircuitOf(i)) \in BOOLEAN
      OBVIOUS
    <3>2. online' \in [Circuits -> BOOLEAN]
      BY <2>1, <3>1
    <3> QED BY <2>1, <3>2 DEF Typed, CircuitTypes
  <2>5. seen[ch].out \in BOOLEAN
    BY <2>1, ImondAssumption
  <2>6. ChannelTypes'
    <3>1. online_start' \in [Channels -> 0 .. MaxTime]
      BY <2>1 DEF Typed, ChannelTypes
    <3>2. conf_idx' \in [Channels -> {NoLine} \cup DOMAIN Lines]
      BY <2>1, <2>3 DEF Typed, ChannelTypes
    <3>3. outgoing' \in [Channels -> BOOLEAN]
      BY <2>1, <2>5 DEF Typed, ChannelTypes
    <3>4. charge_time' \in [Channels -> Int]
      BY <2>1 DEF Typed, ChannelTypes
    <3> QED BY <2>2, <3>1, <3>2, <3>3, <3>4 DEF ChannelTypes
  <2>7. RateTypes' /\ Lamp'
    BY <2>1, Counted DEF Typed, RateTypes
  <2>8. Times'
    BY <2>1, <2>2 DEF Typed, Times, RateTypes, ChannelTypes
  <2> QED BY <2>2, <2>4, <2>6, <2>7, <2>8 DEF Typed
<1>5. ASSUME NEW ch \in Channels, HungUp(ch)
      PROVE  Typed'
  <2> DEFINE c == CircuitOf(conf_idx[ch])
  <2>1. /\ Look(ch) /\ CountDown
        /\ online' = [d \in Circuits |-> online[d] /\ d # c]
        /\ link_added' = [d \in Circuits |-> IF d = c THEN 0 ELSE link_added[d]]
        /\ charge_time' = [charge_time EXCEPT
             ![ch] = IF outgoing[ch] THEN @ + Charged(conf_idx[ch], now - online_start[ch])
                                     ELSE @]
        /\ online_start' = [online_start EXCEPT ![ch] = 0]
        /\ UNCHANGED <<conf_idx, outgoing, rates>>
    BY <1>5 DEF HungUp
  <2>2. /\ is_active' \in [Channels -> BOOLEAN]
        /\ KernelTypes' /\ RouteTypes' /\ PppoeType' /\ Budgeted'
        /\ UNCHANGED <<now, pppoe, budget, adjusted>>
    BY <2>1, LookTypes
  <2> HIDE DEF c
  <2>3. CircuitTypes'
    <3>1. \A d \in Circuits : (online[d] /\ d # c) \in BOOLEAN
      OBVIOUS
    <3>2. online' \in [Circuits -> BOOLEAN]
      BY <2>1, <3>1
    <3> QED BY <2>1, <3>2 DEF Typed, CircuitTypes
  <2>4. Charged(conf_idx[ch], now - online_start[ch]) \in Int
    <3>1. conf_idx[ch] \in {NoLine} \cup DOMAIN Lines /\ now - online_start[ch] \in Int
      BY DEF Typed, ChannelTypes
    <3> QED BY <3>1, ChargedType
  <2>5. ChannelTypes'
    <3>1. online_start' \in [Channels -> 0 .. MaxTime]
      BY <2>1 DEF Typed, ChannelTypes
    <3>2. charge_time' \in [Channels -> Int]
      BY <2>1, <2>4 DEF Typed, ChannelTypes
    <3> QED BY <2>1, <2>2, <3>1, <3>2 DEF Typed, ChannelTypes
  <2>6. RateTypes' /\ Lamp'
    BY <2>1, Counted DEF Typed, RateTypes, rates
  <2>7. Times'
    BY <2>1, <2>2 DEF Typed, Times, RateTypes, ChannelTypes, rates
  <2> QED BY <2>2, <2>3, <2>5, <2>6, <2>7 DEF Typed
<1>6. CASE Measure
  <2>1. /\ last_time_isdn' = now
        /\ UNCHANGED <<now, kernel, seen, reading, infos, online, pppoe, lamp, routes, budget,
                       adjusted>>
    BY <1>6 DEF Measure
  <2>2. PICK c \in Circuits \cup {NoCircuit} :
          HighRate(c) \/ LowRate(c) \/ UNCHANGED <<higher, lower, last_low, link_added>>
    <3>1. CircuitOf(conf_idx[0]) \in Circuits \cup {NoCircuit}
      BY LinesAre, ImondAssumption DEF Typed, ChannelTypes, Channels
    <3> QED BY <1>6, <3>1 DEF Measure
  <2>3. link_added' \in [Circuits -> 0 .. 1]
    BY <2>2, LinkTypes DEF Typed, CircuitTypes, HighRate, LowRate
  <2>4. /\ RateTypes'
        /\ ~adjusted => /\ last_low' <= now
                        /\ higher' # 0 => last_low' <= higher'
    BY <2>1, <2>2 DEF Typed, RateTypes, Times, HighRate, LowRate
  <2>5. Times'
    BY <2>1, <2>4 DEF Typed, Times, infos
  <2>6. CircuitTypes'
    BY <2>1, <2>3 DEF Typed, CircuitTypes
  <2> QED BY <2>1, <2>4, <2>5, <2>6
          DEF Typed, Lamp, ChannelTypes, KernelTypes, RouteTypes, PppoeType, Budgeted,
              kernel, infos, lamp, routes
<1>7. CASE Poll
  <2>1. /\ check_routing(route_idx)
        /\ UNCHANGED <<now, kernel, seen, reading, infos, circuits, pppoe, lamp, route_idx, rates,
                       budget, adjusted>>
    BY <1>7 DEF Poll
  <2>2. RouteTypes'
    BY <2>1, Routed DEF Typed, RouteTypes
  <2> QED BY <2>1, <2>2
          DEF Typed, Lamp, ChannelTypes, KernelTypes, RateTypes, PppoeType, CircuitTypes, Budgeted,
              Times, kernel, infos, circuits, lamp, rates
<1>8. ASSUME NEW r \in Circuits \cup {NoCircuit}, Route(r)
      PROVE  Typed'
  <2>1. /\ Command /\ route_idx' = r /\ check_routing(r)
        /\ UNCHANGED <<now, infos, circuits, pppoe, lamp, rates, adjusted>>
    BY <1>8 DEF Route
  <2>2. RouteTypes'
    BY <2>1, Routed DEF Typed
  <2>3. Budgeted' /\ UNCHANGED <<line, news, seen, reading>>
    BY <2>1, Commanded DEF Typed
  <2> QED BY <2>1, <2>2, <2>3
          DEF Typed, Lamp, ChannelTypes, KernelTypes, RateTypes, PppoeType, CircuitTypes,
              Times, infos, circuits, lamp, rates
<1>9. CASE Dial \/ Hangup
  <2>1. /\ Command
        /\ UNCHANGED <<now, infos, circuits, pppoe, lamp, route_idx, default_device, rates, adjusted>>
    BY <1>9 DEF Dial, Hangup
  <2>2. RouteTypes'
    <3>1. Wanted \in Circuits \cup {NoCircuit}
      BY CircuitFound DEF Wanted, Typed, RouteTypes
    <3>2. dialled' \subseteq dialled \cup ({Wanted} \ {NoCircuit})
      BY <1>9 DEF Dial, Hangup
    <3> QED BY <2>1, <3>1, <3>2 DEF Typed, RouteTypes
  <2>3. Budgeted' /\ UNCHANGED <<line, news, seen, reading>>
    BY <2>1, Commanded DEF Typed
  <2> QED BY <2>1, <2>2, <2>3
          DEF Typed, Lamp, ChannelTypes, KernelTypes, RateTypes, PppoeType, CircuitTypes,
              Times, infos, circuits, lamp, rates
<1>10. CASE PppoeUp
  <2>1. /\ Command /\ CountUp
        /\ pppoe' = [pppoe EXCEPT !.start = now, !.conf = find_pppoe_conf_data]
        /\ UNCHANGED <<now, infos, circuits, routes, rates, adjusted>>
    BY <1>10 DEF PppoeUp
  <2>2. PppoeType' /\ pppoe'.start = now
    <3>1. now \in 0 .. MaxTime /\ PppoeType
      BY DEF Typed
    <3>2. pppoe' = [start |-> now, conf |-> find_pppoe_conf_data,
                    charge_time |-> pppoe.charge_time]
      BY <2>1, <3>1 DEF PppoeType
    <3> QED BY <3>1, <3>2, PppoeFound DEF PppoeType
  <2>3. Budgeted' /\ UNCHANGED <<line, news, seen, reading>>
    BY <2>1, Commanded DEF Typed
  <2>4. Lamp'
    BY <2>1, Counted DEF Typed
  <2>5. Times'
    BY <2>1, <2>2 DEF Typed, Times, infos, rates
  <2> QED BY <2>1, <2>2, <2>3, <2>4, <2>5
          DEF Typed, ChannelTypes, KernelTypes, RouteTypes, RateTypes, CircuitTypes,
              infos, circuits, routes, rates
<1>11. CASE PppoeDown
  <2>1. /\ Command /\ check_routing(route_idx)
        /\ UNCHANGED <<now, infos, circuits, route_idx, rates, adjusted>>
        /\ \/ /\ CountDown
              /\ pppoe' = [pppoe EXCEPT !.start = 0,
                             !.charge_time = @ + Charged(pppoe.conf, now - pppoe.start)]
           \/ UNCHANGED <<lamp, pppoe>>
    BY <1>11 DEF PppoeDown
  <2>2. Charged(pppoe.conf, now - pppoe.start) \in Int
    <3>1. pppoe.conf \in {NoLine} \cup DOMAIN Lines /\ now - pppoe.start \in Int
      BY DEF Typed, PppoeType
    <3> QED BY <3>1, ChargedType
  <2>3. PppoeType' /\ pppoe'.start \in {0, pppoe.start}
    <3>1. PppoeType
      BY DEF Typed
    <3>2. \/ pppoe' = pppoe
          \/ pppoe' = [start |-> 0, conf |-> pppoe.conf,
                       charge_time |-> pppoe.charge_time + Charged(pppoe.conf, now - pppoe.start)]
      BY <2>1, <3>1 DEF PppoeType
    <3> QED BY <2>2, <3>1, <3>2, NowIs DEF PppoeType
  <2>4. Budgeted' /\ UNCHANGED <<line, news, seen, reading>>
    BY <2>1, Commanded DEF Typed
  <2>5. Lamp'
    BY <2>1, Counted DEF Typed, Lamp, lamp
  <2>6. RouteTypes'
    BY <2>1, Routed DEF Typed, RouteTypes
  <2>7. Times'
    BY <2>1, <2>3 DEF Typed, Times, infos, rates
  <2> QED BY <2>1, <2>3, <2>4, <2>5, <2>6, <2>7
          DEF Typed, ChannelTypes, KernelTypes, RateTypes, CircuitTypes,
              infos, circuits, rates
<1>12. CASE ChangeLinks
  <2>1. /\ Command
        /\ UNCHANGED <<now, infos, online, pppoe, lamp, routes, rates, adjusted>>
        /\ \E c \in Circuits : addlink(c) \/ removelink(c)
    BY <1>12, ImondAssumption DEF ChangeLinks
  <2>2. link_added' \in [Circuits -> 0 .. 1]
    BY <2>1, LinkTypes DEF Typed
  <2>3. Budgeted' /\ UNCHANGED <<line, news, seen, reading>>
    BY <2>1, Commanded DEF Typed
  <2> QED BY <2>1, <2>2, <2>3
          DEF Typed, Lamp, ChannelTypes, KernelTypes, RouteTypes, RateTypes, PppoeType, CircuitTypes,
              Times, infos, lamp, routes, rates
<1>13. CASE AdjustTime
  <2>1. PICK d \in {-2, 2} :
       /\ now + d \in 1 .. MaxTime
       /\ now' = now + d
       /\ \A ch \in Channels : Online(ch) => online_start[ch] + d > 0
       /\ online_start' = [ch \in Channels |-> IF Online(ch) THEN online_start[ch] + d
                                                             ELSE online_start[ch]]
       /\ pppoe.start # 0 => pppoe.start + d > 0
       /\ pppoe' = IF pppoe.start = 0 THEN pppoe ELSE [pppoe EXCEPT !.start = @ + d]
       /\ last_time_isdn > 0 => last_time_isdn + d > 0
       /\ last_time_isdn' = IF last_time_isdn > 0 THEN last_time_isdn + d ELSE 0
    BY <1>13 DEF AdjustTime
  <2>2. /\ Command /\ ~adjusted /\ adjusted' = TRUE
        /\ UNCHANGED <<is_active, conf_idx, outgoing, charge_time, circuits, lamp, routes,
                       higher, lower, last_low>>
    BY <1>13 DEF AdjustTime
  <2>3. Budgeted' /\ UNCHANGED <<line, news, seen, reading>>
    BY <2>2, Commanded DEF Typed
  <2>4. online_start' \in [Channels -> 0 .. MaxTime]
    <3>1. ASSUME NEW ch \in Channels, Online(ch)
          PROVE  online_start[ch] + d \in 0 .. MaxTime
      BY <2>1, <2>2, <3>1 DEF Typed, ChannelTypes, Times
    <3> QED BY <2>1, <3>1 DEF Typed, ChannelTypes
  <2>5. PppoeType' /\ pppoe'.start <= now'
    BY <2>1 DEF Typed, PppoeType, Times
  <2>6. RateTypes' /\ last_time_isdn' <= now'
    BY <2>1, <2>2 DEF Typed, RateTypes, Times
  <2>7. Times'
    BY <2>2, <2>5, <2>6 DEF Times
  <2> QED BY <2>1, <2>2, <2>3, <2>4, <2>5, <2>6, <2>7
          DEF Typed, Lamp, ChannelTypes, KernelTypes, RouteTypes, CircuitTypes,
              circuits, lamp, routes
<1>14. CASE Tick
  BY <1>14
     DEF Tick, Typed, Lamp, ChannelTypes, KernelTypes, RouteTypes, RateTypes, PppoeType,
         CircuitTypes, Budgeted, Times, kernel, infos, circuits, lamp, routes, rates
<1>15. ASSUME NEW ch \in Channels, KernelChanges(ch)
       PROVE  Typed'
  <2>1. PICK v \in LineState : line' = [line EXCEPT ![ch] = v]
    BY <1>15 DEF KernelChanges
  <2>2. /\ news' = TRUE
        /\ budget.kernel > 0 /\ budget' = [budget EXCEPT !.kernel = @ - 1]
        /\ UNCHANGED <<now, seen, reading, infos, circuits, pppoe, lamp, routes, rates, adjusted>>
    BY <1>15 DEF KernelChanges
  <2>3. KernelTypes'
    BY <2>1, <2>2 DEF Typed, KernelTypes
  <2>4. Budgeted'
    BY <2>2 DEF Typed, Budgeted
  <2> QED BY <2>2, <2>3, <2>4
          DEF Typed, Lamp, ChannelTypes, RouteTypes, RateTypes, PppoeType, CircuitTypes,
              Times, infos, circuits, lamp, routes, rates
<1> QED BY <1>1, <1>2, <1>3, <1>4, <1>5, <1>6, <1>7, <1>8, <1>9, <1>10, <1>11, <1>12, <1>13,
           <1>14, <1>15
        DEF Next, ReadChannel, Client, Environment

-----------------------------------------------------------------------------
(* Connections *)

Connected == {ch \in Channels : online_start[ch] # 0}

Carriers(c) == {ch \in Channels : online_start[ch] # 0 /\ CircuitOf(conf_idx[ch]) = c}

(* CircuitsAgree, without counting *)
CarriersAgree ==
  \A c \in Circuits :
    /\ online[c] => \E ch \in Channels : Carriers(c) = {ch}
    /\ ~online[c] => Carriers(c) = {}
    /\ link_added[c] > 0 => online[c]

LEMMA ChannelsCounted ==
  ASSUME NEW S \in SUBSET Channels
  PROVE  /\ IsFiniteSet(S) /\ Cardinality(S) \in Nat
         /\ Cardinality(S) = 1 <=> \E ch \in Channels : S = {ch}
         /\ \A ch \in Channels \ S : Cardinality(S \cup {ch}) = Cardinality(S) + 1
         /\ \A ch \in S : Cardinality(S \ {ch}) = Cardinality(S) - 1
<1>0. 0 \in Int /\ LastChannel \in Int
  BY ImondAssumption
<1>1. IsFiniteSet(Channels)
  BY <1>0, FS_Interval DEF Channels
<1>2. IsFiniteSet(S)
  BY <1>1, FS_Subset
<1>3. Cardinality(S) = 1 <=> \E ch : S = {ch}
  BY <1>2, FS_Singleton
<1>4. Cardinality(S) = 1 <=> \E ch \in Channels : S = {ch}
  BY <1>3
<1> QED BY <1>2, <1>4, FS_CardinalityType, FS_AddElement, FS_RemoveElement

LEMMA AgreeIs ==
  ASSUME CircuitTypes
  PROVE  CircuitsAgree <=> CarriersAgree
<1>1. ASSUME NEW c \in Circuits
      PROVE  Cardinality(Carriers(c)) = 1 <=> \E ch \in Channels : Carriers(c) = {ch}
  <2>1. Carriers(c) \in SUBSET Channels
    BY DEF Carriers
  <2> QED BY <2>1, ChannelsCounted
<1>2. CircuitsAgree <=>
        \A c \in Circuits :
          /\ IF online[c] THEN Cardinality(Carriers(c)) = 1 ELSE Carriers(c) = {}
          /\ link_added[c] > 0 => online[c]
  BY DEF CircuitsAgree, Carriers
<1> QED BY <1>1, <1>2 DEF CarriersAgree

(* What does not touch the connections of circuits leaves them in order. *)
LEMMA SameCarriers ==
  ASSUME CarriersAgree,
         \A c \in Circuits : Carriers(c)' = Carriers(c) /\ online'[c] = online[c],
         \A c \in Circuits : link_added'[c] > 0 => link_added[c] > 0 \/ online[c]
  PROVE  CarriersAgree'
BY DEF CarriersAgree

LEMMA CarriersStep == Typed /\ CarriersAgree /\ [Next]_vars => CarriersAgree'
<1> SUFFICES ASSUME Typed, CarriersAgree, [Next]_vars
             PROVE  CarriersAgree'
  OBVIOUS
<1>1. ASSUME UNCHANGED <<online_start, conf_idx, circuits>>
      PROVE  CarriersAgree'
  BY <1>1, SameCarriers DEF circuits, Carriers
<1>2. ASSUME NEW c \in Circuits \cup {NoCircuit}, addlink(c) \/ removelink(c),
             c \in Circuits => online[c],
             UNCHANGED <<online_start, conf_idx, online>>
      PROVE  CarriersAgree'
  <2>1. \A d \in Circuits : link_added'[d] > 0 => link_added[d] > 0 \/ online[d]
    BY <1>2 DEF Typed, CircuitTypes, addlink, removelink
  <2> QED BY <1>2, <2>1, SameCarriers DEF Carriers
<1>3. ASSUME NEW ch \in Channels, NewConnection(ch)
      PROVE  CarriersAgree'
  <2> DEFINE i == find_conf_data(seen[ch])
  <2>1. /\ online_start[ch] = 0
        /\ online_start' = [online_start EXCEPT ![ch] = now]
        /\ conf_idx' = [conf_idx EXCEPT ![ch] = i]
        /\ online' = [c \in Circuits |-> online[c] \/ c = CircuitOf(i)]
        /\ UNCHANGED link_added
    BY <1>3 DEF NewConnection
  <2>2. CircuitOf(i) \in Circuits => ~online[CircuitOf(i)]
    BY Found, LinesAre, ImondAssumption
  <2> HIDE DEF i
  <2>3. now # 0 /\ online_start \in [Channels -> 0 .. MaxTime]
        /\ conf_idx \in [Channels -> {NoLine} \cup DOMAIN Lines]
    BY DEF Typed, ChannelTypes
  <2>4. ASSUME NEW c \in Circuits
        PROVE  /\ online'[c] => \E x \in Channels : Carriers(c)' = {x}
               /\ ~online'[c] => Carriers(c)' = {}
               /\ link_added'[c] > 0 => online'[c]
    <3>1. CASE c = CircuitOf(i)
      <4>1. Carriers(c) = {} /\ ~online[c]
        BY <2>2, <3>1 DEF CarriersAgree
      <4>2. Carriers(c)' = {ch}
        BY <2>1, <2>3, <3>1, <4>1 DEF Carriers
      <4> QED BY <2>1, <3>1, <4>2
    <3>2. CASE c # CircuitOf(i)
      <4>1. Carriers(c)' = Carriers(c)
        BY <2>1, <2>3, <3>2 DEF Carriers
      <4>2. online'[c] <=> online[c]
        BY <2>1, <3>2
      <4> QED BY <2>1, <4>1, <4>2 DEF CarriersAgree
    <3> QED BY <3>1, <3>2
  <2> QED BY <2>4 DEF CarriersAgree
<1>4. ASSUME NEW ch \in Channels, HungUp(ch)
      PROVE  CarriersAgree'
  <2> DEFINE c == CircuitOf(conf_idx[ch])
  <2>1. /\ online_start[ch] # 0
        /\ online' = [d \in Circuits |-> online[d] /\ d # c]
        /\ link_added' = [d \in Circuits |-> IF d = c THEN 0 ELSE link_added[d]]
        /\ online_start' = [online_start EXCEPT ![ch] = 0]
        /\ UNCHANGED conf_idx
    BY <1>4 DEF HungUp
  <2>2. online_start \in [Channels -> 0 .. MaxTime]
    BY DEF Typed, ChannelTypes
  <2>3. ASSUME NEW d \in Circuits
        PROVE  /\ online'[d] => \E x \in Channels : Carriers(d)' = {x}
               /\ ~online'[d] => Carriers(d)' = {}
               /\ link_added'[d] > 0 => online'[d]
    <3>1. CASE d = c
      <4>1. Carriers(d) = {ch}
        <5>1. ch \in Carriers(d)
          BY <2>1, <3>1 DEF Carriers
        <5> QED BY <5>1 DEF CarriersAgree
      <4>2. Carriers(d)' = {}
        BY <2>1, <2>2, <4>1 DEF Carriers
      <4>3. ~online'[d]
        BY <2>1, <3>1
      <4>4. link_added'[d] = 0
        BY <2>1, <3>1
      <4> QED BY <4>2, <4>3, <4>4
    <3>2. CASE d # c
      <4>1. Carriers(d)' = Carriers(d)
        BY <2>1, <2>2, <3>2 DEF Carriers
      <4>2. online'[d] <=> online[d]
        BY <2>1, <3>2
      <4> QED BY <2>1, <3>2, <4>1, <4>2 DEF CarriersAgree
    <3> QED BY <3>1, <3>2
  <2> QED BY <2>3 DEF CarriersAgree
<1>5. CASE Measure
  <2> DEFINE c == CircuitOf(conf_idx[0])
  <2>1. UNCHANGED <<online_start, conf_idx, online>>
    BY <1>5 DEF Measure, infos
  <2>2. CASE UNCHANGED link_added
    BY <1>1, <2>1, <2>2 DEF circuits
  <2>3. CASE Online(0) /\ (HighRate(c) \/ LowRate(c)) /\ ~UNCHANGED link_added
    <3>1. addlink(c) \/ removelink(c)
      BY <2>3 DEF HighRate, LowRate
    <3>2. 0 \in Channels /\ c \in Circuits \cup {NoCircuit}
      BY LinesAre, ImondAssumption DEF Typed, ChannelTypes, Channels
    <3>3. c \in Circuits => 0 \in Carriers(c)
      BY <2>3, <3>2 DEF Carriers, Online
    <3>4. c \in Circuits => online[c]
      BY <3>3 DEF CarriersAgree
    <3> HIDE DEF c
    <3> QED BY <1>2, <2>1, <3>1, <3>2, <3>4
  <2> QED BY <1>5, <2>2, <2>3 DEF Measure
<1>6. CASE ChangeLinks
  <2>1. PICK c \in Bundled : ChannelsOf(c) # {} /\ (addlink(c) \/ removelink(c))
    BY <1>6 DEF ChangeLinks
  <2>2. c \in Circuits
    BY ImondAssumption
  <2>3. Carriers(c) # {}
    BY <2>1 DEF ChannelsOf, Carriers
  <2>4. online[c]
    BY <2>2, <2>3 DEF CarriersAgree
  <2>5. UNCHANGED <<online_start, conf_idx, online>>
    BY <1>6 DEF ChangeLinks, infos
  <2> QED BY <1>2, <2>1, <2>2, <2>4, <2>5
<1>7. CASE AdjustTime
  <2>1. /\ \A ch \in Channels : online_start'[ch] # 0 <=> online_start[ch] # 0
        /\ UNCHANGED <<conf_idx, circuits>>
    BY <1>7 DEF AdjustTime, Online
  <2>2. \A c \in Circuits : Carriers(c)' = Carriers(c)
    BY <2>1 DEF Carriers
  <2> QED BY <2>1, <2>2, SameCarriers DEF circuits
<1>8. CASE UNCHANGED vars
  BY <1>1, <1>8 DEF vars, infos
<1>9. CASE \/ ReadInfo \/ Poll \/ Dial \/ Hangup \/ PppoeUp \/ PppoeDown \/ Tick
           \/ \E ch \in Channels : NothingNew(ch) \/ KernelChanges(ch)
           \/ \E r \in Circuits \cup {NoCircuit} : Route(r)
  BY <1>1, <1>9
     DEF ReadInfo, Poll, Dial, Hangup, PppoeUp, PppoeDown, Tick, NothingNew, KernelChanges,
         Route, infos
<1> QED BY <1>3, <1>4, <1>5, <1>6, <1>7, <1>8, <1>9
        DEF Next, ReadChannel, Client, Environment

(* online_counter goes with the connections. *)
Pppoe == IF pppoe.start # 0 THEN 1 ELSE 0

Counts == /\ online_counter = Cardinality(Connected) + Pppoe
          /\ led = (online_counter > 0)

LEMMA CounterIs ==
  ASSUME Typed
  PROVE  CounterAgrees <=> Counts
BY DEF CounterAgrees, Counts, Connected, Pppoe, Typed, Lamp

LEMMA CounterStep == Typed /\ Counts /\ [Next]_vars => Counts'
<1> SUFFICES ASSUME Typed, Counts, [Next]_vars
             PROVE  Counts'
  OBVIOUS
<1>0. /\ online_start \in [Channels -> 0 .. MaxTime] /\ PppoeType
      /\ online_counter \in Nat /\ led \in BOOLEAN /\ now \in 1 .. MaxTime
  BY DEF Typed, ChannelTypes, Lamp
<1>a. /\ Connected \in SUBSET Channels /\ Connected' \in SUBSET Channels
      /\ Cardinality(Connected) \in Nat /\ Pppoe \in {0, 1}
  <2>1. Connected \in SUBSET Channels /\ Connected' \in SUBSET Channels
    BY DEF Connected
  <2> QED BY <2>1, ChannelsCounted DEF Pppoe
<1>1. ASSUME Connected' = Connected, Pppoe' = Pppoe, UNCHANGED lamp
      PROVE  Counts'
  BY <1>1 DEF Counts, lamp
<1>2. ASSUME CountUp, Cardinality(Connected') + Pppoe' = Cardinality(Connected) + Pppoe + 1
      PROVE  Counts'
  <2>1. online_counter' = online_counter + 1 /\ led' = TRUE
    BY <1>2 DEF CountUp
  <2>2. online_counter' = Cardinality(Connected') + Pppoe'
    BY <1>0, <1>a, <1>2, <2>1 DEF Counts
  <2>3. online_counter' > 0
    BY <1>0, <2>1
  <2>4. led' = (online_counter' > 0)
    BY <2>1, <2>3
  <2> QED BY <2>2, <2>4 DEF Counts
<1>3. ASSUME CountDown, Cardinality(Connected') + Pppoe' = Cardinality(Connected) + Pppoe - 1,
             Cardinality(Connected') + Pppoe' \in Nat
      PROVE  Counts'
  <2>1. online_counter > 0
    BY <1>0, <1>a, <1>3 DEF Counts
  <2>2. led = TRUE
    BY <1>0, <2>1 DEF Counts
  <2>3. online_counter' = online_counter - 1 /\ led' = (led /\ online_counter' > 0)
    BY <1>3, <2>1 DEF CountDown
  <2>4. online_counter' = Cardinality(Connected') + Pppoe'
    BY <1>0, <1>a, <1>3, <2>3 DEF Counts
  <2>5. led' = (online_counter' > 0)
    BY <2>2, <2>3
  <2> QED BY <2>4, <2>5 DEF Counts
<1>4. ASSUME NEW ch \in Channels, NewConnection(ch)
      PROVE  Counts'
  <2>1. /\ CountUp /\ online_start[ch] = 0
        /\ online_start' = [online_start EXCEPT ![ch] = now]
        /\ UNCHANGED pppoe
    BY <1>4 DEF NewConnection, Look
  <2>2. Connected' = Connected \cup {ch} /\ ch \notin Connected
    BY <1>0, <2>1 DEF Connected
  <2>3. Cardinality(Connected') = Cardinality(Connected) + 1
    BY <1>a, <2>2, ChannelsCounted
  <2>4. Pppoe' = Pppoe
    BY <2>1 DEF Pppoe
  <2> QED BY <1>2, <1>a, <2>1, <2>3, <2>4
<1>5. ASSUME NEW ch \in Channels, HungUp(ch)
      PROVE  Counts'
  <2>1. /\ CountDown /\ online_start[ch] # 0
        /\ online_start' = [online_start EXCEPT ![ch] = 0]
        /\ UNCHANGED pppoe
    BY <1>5 DEF HungUp, Look
  <2>2. Connected' = Connected \ {ch} /\ ch \in Connected
    BY <1>0, <2>1 DEF Connected
  <2>3. Cardinality(Connected') = Cardinality(Connected) - 1 /\ Cardinality(Connected') \in Nat
    BY <1>a, <2>2, ChannelsCounted
  <2>4. Pppoe' = Pppoe
    BY <2>1 DEF Pppoe
  <2> QED BY <1>3, <1>a, <2>1, <2>3, <2>4
<1>6. CASE PppoeUp
  <2>1. CountUp /\ Pppoe = 0 /\ Pppoe' = 1 /\ UNCHANGED online_start
    BY <1>0, <1>6 DEF PppoeUp, Pppoe, PppoeType, infos
  <2>2. Connected' = Connected
    BY <2>1 DEF Connected
  <2> QED BY <1>2, <1>a, <2>1, <2>2
<1>7. CASE PppoeDown
  <2>1. UNCHANGED online_start
    BY <1>7 DEF PppoeDown, infos
  <2>2. Connected' = Connected
    BY <2>1 DEF Connected
  <2>3. CASE pppoe.start # 0
    <3>1. CountDown /\ Pppoe = 1 /\ Pppoe' = 0
      BY <1>0, <1>7, <2>3 DEF PppoeDown, Pppoe, PppoeType
    <3> QED BY <1>3, <1>a, <2>2, <3>1
  <2>4. CASE pppoe.start = 0
    BY <1>1, <1>7, <2>2, <2>4 DEF PppoeDown, Pppoe
  <2> QED BY <2>3, <2>4
<1>8. CASE AdjustTime
  <2>1. \A ch \in Channels : online_start'[ch] # 0 <=> online_start[ch] # 0
    BY <1>8 DEF AdjustTime, Online
  <2>2. PICK d \in {-2, 2} :
          /\ pppoe.start # 0 => pppoe.start + d > 0
          /\ pppoe' = IF pppoe.start = 0 THEN pppoe ELSE [pppoe EXCEPT !.start = @ + d]
    BY <1>8 DEF AdjustTime
  <2>3. pppoe'.start # 0 <=> pppoe.start # 0
    BY <1>0, <2>2 DEF PppoeType
  <2>4. Connected' = Connected
    BY <2>1 DEF Connected
  <2>5. UNCHANGED lamp
    BY <1>8 DEF AdjustTime
  <2> QED BY <1>1, <2>3, <2>4, <2>5 DEF Pppoe
<1>9. CASE \/ ReadInfo \/ Measure \/ Poll \/ Dial \/ Hangup \/ ChangeLinks \/ Tick
           \/ \E ch \in Channels : NothingNew(ch) \/ KernelChanges(ch)
           \/ \E r \in Circuits \cup {NoCircuit} : Route(r)
           \/ UNCHANGED vars
  <2>1. UNCHANGED <<online_start, pppoe, lamp>>
    BY <1>9
       DEF ReadInfo, Measure, Poll, Dial, Hangup, ChangeLinks, Tick, NothingNew, KernelChanges,
           Route, infos, Look, vars
  <2> QED BY <1>1, <2>1 DEF Connected, Pppoe
<1> QED BY <1>4, <1>5, <1>6, <1>7, <1>8, <1>9
        DEF Next, ReadChannel, Client, Environment

-----------------------------------------------------------------------------
(* Charges *)

(* What is shown as charged for a channel, and for PPPoE *)
LEMMA ShownTypes ==
  ASSUME Typed
  PROVE  /\ \A ch \in Channels :
              /\ ShownChargeTime(ch) \in Int
              /\ charge_time[ch] \in Int /\ now - online_start[ch] \in Int
              /\ conf_idx[ch] \in {NoLine} \cup DOMAIN Lines
         /\ ShownPppoeTime \in Int
         /\ pppoe.charge_time \in Int /\ now - pppoe.start \in Int
         /\ pppoe.conf \in {NoLine} \cup DOMAIN Lines
         /\ now \in Nat
<1>1. ASSUME NEW ch \in Channels
      PROVE  /\ ShownChargeTime(ch) \in Int
             /\ charge_time[ch] \in Int /\ now - online_start[ch] \in Int
             /\ conf_idx[ch] \in {NoLine} \cup DOMAIN Lines
  <2>1. /\ charge_time[ch] \in Int /\ now - online_start[ch] \in Int
        /\ conf_idx[ch] \in {NoLine} \cup DOMAIN Lines
    BY DEF Typed, ChannelTypes
  <2>2. Charged(conf_idx[ch], now - online_start[ch]) \in Int
    BY <2>1, ChargedType
  <2> QED BY <2>1, <2>2 DEF ShownChargeTime
<1>2. /\ pppoe.charge_time \in Int /\ now - pppoe.start \in Int
      /\ pppoe.conf \in {NoLine} \cup DOMAIN Lines /\ now \in Nat
  BY DEF Typed, PppoeType
<1>3. Charged(pppoe.conf, now - pppoe.start) \in Int
  BY <1>2, ChargedType
<1> QED BY <1>1, <1>2, <1>3 DEF ShownPppoeTime

(* What is shown for a channel does not fall, nor what is shown for PPPoE. *)
Rises == /\ \A ch \in Channels :
              is_active[ch] /\ is_active'[ch] => ShownChargeTime(ch)' >= ShownChargeTime(ch)
         /\ ShownPppoeTime' >= ShownPppoeTime

LEMMA SamePppoe ==
  ASSUME Typed, UNCHANGED <<now, pppoe>>
  PROVE  ShownPppoeTime' >= ShownPppoeTime
<1>1. ShownPppoeTime' = ShownPppoeTime
  BY DEF ShownPppoeTime
<1> QED BY <1>1, ShownTypes

LEMMA SameChannel ==
  ASSUME Typed, NEW ch \in Channels, UNCHANGED now,
         charge_time'[ch] = charge_time[ch], outgoing'[ch] = outgoing[ch],
         online_start'[ch] = online_start[ch], conf_idx'[ch] = conf_idx[ch]
  PROVE  ShownChargeTime(ch)' >= ShownChargeTime(ch)
<1>1. ShownChargeTime(ch)' = ShownChargeTime(ch)
  BY DEF ShownChargeTime
<1> QED BY <1>1, ShownTypes

LEMMA ChargeStep == Typed /\ [Next]_vars => Rises
<1> SUFFICES ASSUME Typed, [Next]_vars
             PROVE  Rises
  OBVIOUS
<1>0. /\ online_start \in [Channels -> 0 .. MaxTime] /\ charge_time \in [Channels -> Int]
      /\ outgoing \in [Channels -> BOOLEAN] /\ PppoeType /\ now \in 1 .. MaxTime
      /\ conf_idx \in [Channels -> {NoLine} \cup DOMAIN Lines]
  BY DEF Typed, ChannelTypes
<1>1. ASSUME UNCHANGED <<now, online_start, conf_idx, outgoing, charge_time, pppoe>>
      PROVE  Rises
  BY <1>1, SamePppoe, SameChannel DEF Rises
<1>2. ASSUME NEW ch \in Channels, NewConnection(ch)
      PROVE  Rises
  <2> DEFINE i == find_conf_data(seen[ch])
  <2>1. /\ UNCHANGED <<now, pppoe, charge_time>> /\ online_start[ch] = 0
        /\ online_start' = [online_start EXCEPT ![ch] = now]
        /\ outgoing' = [outgoing EXCEPT ![ch] = seen[ch].out]
        /\ conf_idx' = [conf_idx EXCEPT ![ch] = i]
    BY <1>2 DEF NewConnection, Look
  <2>2. i \in {NoLine} \cup DOMAIN Lines
    BY Found
  <2> HIDE DEF i
  <2>3. Charged(i, 0) \in Int /\ Charged(i, 0) >= 0
    BY <2>2, ChargedMonotonic
  <2>4. ShownChargeTime(ch) = charge_time[ch]
    BY <1>0, <2>1 DEF ShownChargeTime
  <2>5. conf_idx'[ch] = i /\ online_start'[ch] = now /\ now - now = 0
    BY <1>0, <2>1
  <2>6. ShownChargeTime(ch)' = charge_time[ch] + (IF outgoing'[ch] THEN Charged(i, 0) ELSE 0)
    BY <1>0, <2>1, <2>5 DEF ShownChargeTime
  <2>7. ShownChargeTime(ch)' >= ShownChargeTime(ch)
    BY <1>0, <2>3, <2>4, <2>6
  <2>8. ASSUME NEW x \in Channels \ {ch}
        PROVE  ShownChargeTime(x)' >= ShownChargeTime(x)
    BY <1>0, <2>1, SameChannel
  <2> QED BY <2>1, <2>7, <2>8, SamePppoe DEF Rises
<1>3. ASSUME NEW ch \in Channels, HungUp(ch)
      PROVE  Rises
  <2> DEFINE charge == Charged(conf_idx[ch], now - online_start[ch])
  <2>1. /\ UNCHANGED <<now, pppoe, conf_idx, outgoing>> /\ online_start[ch] # 0
        /\ charge_time' = [charge_time EXCEPT ![ch] = IF outgoing[ch] THEN @ + charge ELSE @]
        /\ online_start' = [online_start EXCEPT ![ch] = 0]
    BY <1>3 DEF HungUp, Look
  <2>2. ShownChargeTime(ch) = charge_time[ch] + IF outgoing[ch] THEN charge ELSE 0
    BY <2>1 DEF ShownChargeTime
  <2>3. charge \in Int
    BY ShownTypes, ChargedType
  <2> HIDE DEF charge
  <2>4. ShownChargeTime(ch)' = charge_time'[ch] + 0
    BY <1>0, <2>1 DEF ShownChargeTime
  <2>5. ShownChargeTime(ch)' >= ShownChargeTime(ch)
    BY <1>0, <2>1, <2>2, <2>3, <2>4
  <2>6. ASSUME NEW x \in Channels \ {ch}
        PROVE  ShownChargeTime(x)' >= ShownChargeTime(x)
    BY <1>0, <2>1, SameChannel
  <2> QED BY <2>1, <2>5, <2>6, SamePppoe DEF Rises
<1>4. CASE PppoeUp
  <2>1. /\ pppoe.start = 0 /\ UNCHANGED <<now, online_start, conf_idx, outgoing, charge_time>>
        /\ pppoe' = [pppoe EXCEPT !.start = now, !.conf = find_pppoe_conf_data]
    BY <1>4 DEF PppoeUp, infos
  <2>2. pppoe' = [start |-> now, conf |-> find_pppoe_conf_data, charge_time |-> pppoe.charge_time]
    BY <1>0, <2>1 DEF PppoeType
  <2>3. /\ Charged(find_pppoe_conf_data, 0) \in Int
        /\ Charged(find_pppoe_conf_data, 0) >= 0
    BY PppoeFound, ChargedMonotonic
  <2>4. now - now = 0 /\ now # 0
    BY <1>0
  <2>5. ShownPppoeTime' = pppoe.charge_time + Charged(find_pppoe_conf_data, 0)
    BY <2>1, <2>2, <2>4 DEF ShownPppoeTime
  <2>6. ShownPppoeTime = pppoe.charge_time + 0
    BY <2>1 DEF ShownPppoeTime
  <2>7. ShownPppoeTime' >= ShownPppoeTime
    BY <2>3, <2>5, <2>6, ShownTypes
  <2> QED BY <2>1, <2>7, SameChannel DEF Rises
<1>5. CASE PppoeDown
  <2> DEFINE charge == Charged(pppoe.conf, now - pppoe.start)
  <2>1. UNCHANGED <<now, online_start, conf_idx, outgoing, charge_time>>
    BY <1>5 DEF PppoeDown, infos
  <2>2. CASE pppoe.start = 0
    <3>1. UNCHANGED pppoe
      BY <1>5, <2>2 DEF PppoeDown
    <3> QED BY <1>1, <2>1, <3>1
  <2>3. CASE pppoe.start # 0
    <3>1. pppoe' = [pppoe EXCEPT !.start = 0, !.charge_time = @ + charge]
      BY <1>5, <2>3 DEF PppoeDown
    <3>2. ShownPppoeTime = pppoe.charge_time + charge
      BY <2>3 DEF ShownPppoeTime
    <3>3. charge \in Int
      BY ShownTypes, ChargedType
    <3> HIDE DEF charge
    <3>4. pppoe'.start = 0 /\ pppoe'.charge_time = pppoe.charge_time + charge
      BY <1>0, <3>1 DEF PppoeType
    <3>5. ShownPppoeTime' = pppoe'.charge_time + 0
      BY <3>4 DEF ShownPppoeTime
    <3>6. ShownPppoeTime' >= ShownPppoeTime
      BY <3>2, <3>3, <3>4, <3>5, ShownTypes
    <3> QED BY <2>1, <3>6, SameChannel DEF Rises
  <2> QED BY <2>2, <2>3
<1>6. CASE AdjustTime
  <2>1. PICK d \in {-2, 2} :
       /\ now' = now + d
       /\ \A ch \in Channels : Online(ch) => online_start[ch] + d > 0
       /\ online_start' = [ch \in Channels |-> IF Online(ch) THEN online_start[ch] + d
                                                             ELSE online_start[ch]]
       /\ pppoe.start # 0 => pppoe.start + d > 0
       /\ pppoe' = IF pppoe.start = 0 THEN pppoe ELSE [pppoe EXCEPT !.start = @ + d]
    BY <1>6 DEF AdjustTime
  <2>2. UNCHANGED <<conf_idx, outgoing, charge_time>>
    BY <1>6 DEF AdjustTime
  <2>3. ASSUME NEW ch \in Channels, is_active[ch]
        PROVE  ShownChargeTime(ch)' >= ShownChargeTime(ch)
    <3>1. CASE online_start[ch] = 0
      <4>1. online_start'[ch] = 0
        BY <2>1, <3>1 DEF Online
      <4>2. ShownChargeTime(ch)' = charge_time[ch] + 0 /\ ShownChargeTime(ch) = charge_time[ch] + 0
        BY <2>2, <3>1, <4>1 DEF ShownChargeTime
      <4> QED BY <1>0, <4>2
    <3>2. CASE online_start[ch] # 0
      <4>1. online_start'[ch] = online_start[ch] + d /\ online_start[ch] + d > 0
        BY <2>1, <2>3, <3>2 DEF Online
      <4>2. now' - online_start'[ch] = now - online_start[ch] /\ online_start'[ch] # 0
        BY <1>0, <2>1, <4>1
      <4>3. ShownChargeTime(ch)' = ShownChargeTime(ch)
        BY <2>2, <3>2, <4>2 DEF ShownChargeTime
      <4> QED BY <4>3, ShownTypes
    <3> QED BY <3>1, <3>2
  <2>4. ShownPppoeTime' >= ShownPppoeTime
    <3>1. CASE pppoe.start = 0
      <4>1. pppoe' = pppoe
        BY <2>1, <3>1
      <4>2. ShownPppoeTime' = pppoe.charge_time + 0 /\ ShownPppoeTime = pppoe.charge_time + 0
        BY <3>1, <4>1 DEF ShownPppoeTime
      <4> QED BY <4>2, ShownTypes
    <3>2. CASE pppoe.start # 0
      <4>1. /\ pppoe'.start = pppoe.start + d /\ pppoe.start + d > 0
            /\ pppoe'.conf = pppoe.conf /\ pppoe'.charge_time = pppoe.charge_time
        BY <1>0, <2>1, <3>2 DEF PppoeType
      <4>2. now' - pppoe'.start = now - pppoe.start /\ pppoe'.start # 0
        BY <1>0, <2>1, <4>1 DEF PppoeType
      <4>3. ShownPppoeTime' = ShownPppoeTime
        BY <3>2, <4>1, <4>2 DEF ShownPppoeTime
      <4> QED BY <4>3, ShownTypes
    <3> QED BY <3>1, <3>2
  <2> QED BY <2>3, <2>4 DEF Rises
<1>7. CASE Tick
  <2>1. /\ now' = now + 1
        /\ UNCHANGED <<online_start, conf_idx, outgoing, charge_time, pppoe>>
    BY <1>7 DEF Tick, infos
  <2>2. ASSUME NEW i \in {NoLine} \cup DOMAIN Lines, NEW start \in Int
        PROVE  /\ Charged(i, now - start) \in Int /\ Charged(i, now' - start) \in Int
               /\ Charged(i, now - start) <= Charged(i, now' - start)
    <3>1. now - start \in Int /\ now' - start \in Int /\ now - start <= now' - start
      BY <1>0, <2>1
    <3> QED BY <3>1, ChargedMonotonic
  <2>3. ASSUME NEW ch \in Channels
        PROVE  ShownChargeTime(ch)' >= ShownChargeTime(ch)
    <3>1. /\ Charged(conf_idx[ch], now - online_start[ch]) \in Int
          /\ Charged(conf_idx[ch], now' - online_start[ch]) \in Int
          /\ Charged(conf_idx[ch], now - online_start[ch])
               <= Charged(conf_idx[ch], now' - online_start[ch])
      <4>1. conf_idx[ch] \in {NoLine} \cup DOMAIN Lines /\ online_start[ch] \in Int
        BY <1>0
      <4> QED BY <4>1, <2>2
    <3> QED BY <1>0, <2>1, <3>1 DEF ShownChargeTime
  <2>4. ShownPppoeTime' >= ShownPppoeTime
    <3>1. /\ Charged(pppoe.conf, now - pppoe.start) \in Int
          /\ Charged(pppoe.conf, now' - pppoe.start) \in Int
          /\ Charged(pppoe.conf, now - pppoe.start) <= Charged(pppoe.conf, now' - pppoe.start)
      <4>1. pppoe.conf \in {NoLine} \cup DOMAIN Lines /\ pppoe.start \in Int
        BY <1>0 DEF PppoeType
      <4> QED BY <4>1, <2>2
    <3>2. pppoe.charge_time \in Int
      BY ShownTypes
    <3> QED BY <2>1, <3>1, <3>2 DEF ShownPppoeTime
  <2> QED BY <2>3, <2>4 DEF Rises
<1>8. CASE \/ ReadInfo \/ Measure \/ Poll \/ Dial \/ Hangup \/ ChangeLinks
           \/ \E ch \in Channels : NothingNew(ch) \/ KernelChanges(ch)
           \/ \E r \in Circuits \cup {NoCircuit} : Route(r)
           \/ UNCHANGED vars
  <2>1. UNCHANGED <<now, online_start, conf_idx, outgoing, charge_time, pppoe>>
    BY <1>8
       DEF ReadInfo, Measure, Poll, Dial, Hangup, ChangeLinks, NothingNew, KernelChanges,
           Route, infos, Look, vars
  <2> QED BY <1>1, <2>1
<1> QED BY <1>2, <1>3, <1>4, <1>5, <1>6, <1>7, <1>8
        DEF Next, ReadChannel, Client, Environment

-----------------------------------------------------------------------------
(* Links *)

(* Only Measure adds a link without a client. *)
AddedInTime ==
  \A c \in Circuits :
    link_added'[c] > link_added[c] /\ budget' = budget /\ ~adjusted
      => now - last_low >= BandwidthTime

LEMMA LinkStep == Typed /\ [Next]_vars => AddedInTime
<1> SUFFICES ASSUME Typed, [Next]_vars, NEW c \in Circuits,
                    link_added'[c] > link_added[c], budget' = budget, ~adjusted
             PROVE  now - last_low >= BandwidthTime
  BY DEF AddedInTime
<1>0. link_added \in [Circuits -> 0 .. 1] /\ Budgeted /\ RateTypes /\ Times /\ now \in Nat
  BY DEF Typed, CircuitTypes
<1>1. CASE Measure
  <2>1. PICK d \in Circuits \cup {NoCircuit} : HighRate(d) \/ LowRate(d)
    <3>1. CircuitOf(conf_idx[0]) \in Circuits \cup {NoCircuit}
      BY LinesAre, ImondAssumption DEF Typed, ChannelTypes, Channels
    <3>2. ~UNCHANGED link_added
      BY <1>0
    <3> QED BY <1>1, <3>1, <3>2 DEF Measure
  <2>2. HighRate(d) /\ addlink(d)
    <3>1. ~UNCHANGED link_added
      BY <1>0
    <3>2. ~removelink(d)
      BY <1>0 DEF removelink
    <3> QED BY <2>1, <3>1, <3>2 DEF HighRate, LowRate
  <2>3. higher # 0 /\ now - higher >= BandwidthTime
    <3>1. ~UNCHANGED link_added
      BY <1>0
    <3> QED BY <2>2, <3>1 DEF HighRate
  <2> QED BY <1>0, <2>3, ImondAssumption DEF Times, RateTypes
<1>2. ASSUME Command
      PROVE  FALSE
  BY <1>0, <1>2, Commanded
<1>3. ASSUME NEW ch \in Channels, HungUp(ch)
      PROVE  FALSE
  <2>1. link_added'[c] \in {0, link_added[c]}
    BY <1>3 DEF HungUp
  <2> QED BY <1>0, <2>1
<1>4. CASE \/ ReadInfo \/ Poll \/ Tick
           \/ \E ch \in Channels : NothingNew(ch) \/ NewConnection(ch) \/ KernelChanges(ch)
           \/ UNCHANGED vars
  <2>1. UNCHANGED link_added
    BY <1>4 DEF ReadInfo, Poll, Tick, NothingNew, NewConnection, KernelChanges, circuits, vars
  <2> QED BY <1>0, <2>1
<1> QED BY <1>1, <1>2, <1>3, <1>4
        DEF Next, ReadChannel, Client, Environment, Route, Dial, Hangup, PppoeUp, PppoeDown,
            ChangeLinks, AdjustTime

-----------------------------------------------------------------------------
(* The theorems *)

LEMMA InitImondInv == Init => Typed /\ CarriersAgree /\ Counts
<1> SUFFICES ASSUME Init
             PROVE  Typed /\ CarriersAgree /\ Counts
  OBVIOUS
<1> USE ImondAssumption DEF Init
<1>1. KernelTypes
  BY DEF KernelTypes, LineState
<1>2. RouteTypes
  BY CircuitFound DEF RouteTypes
<1>3. PppoeType /\ ChannelTypes
  BY LinesAre DEF PppoeType, ChannelTypes
<1>4. RateTypes /\ CircuitTypes /\ Lamp
  <2>1. 0 \in 0 .. MaxTime /\ 0 \in 0 .. 1
    OBVIOUS
  <2>2. RateTypes
    BY <2>1 DEF RateTypes
  <2>3. CircuitTypes
    BY <2>1 DEF CircuitTypes
  <2>4. Lamp
    BY DEF Lamp
  <2> QED BY <2>2, <2>3, <2>4
<1>5. Budgeted /\ Times
  BY DEF Budgeted, Times
<1>6. now \in 1 .. MaxTime /\ adjusted \in BOOLEAN
  <2>1. 3 \in 1 .. MaxTime
    <3>1. MaxTime \in Nat /\ MaxTime \notin 0 .. 2
      OBVIOUS
    <3> HIDE DEF Init
    <3> QED BY <3>1
  <2> QED BY <2>1
<1>7. Connected = {} /\ \A c \in Circuits : Carriers(c) = {}
  BY DEF Connected, Carriers
<1>8. CarriersAgree
  BY <1>7 DEF CarriersAgree
<1>9. Counts
  <2>1. Cardinality(Connected) = 0 /\ Pppoe = 0
    BY <1>7, FS_EmptySet DEF Pppoe
  <2>2. online_counter = 0 /\ led = FALSE
    OBVIOUS
  <2>3. online_counter = Cardinality(Connected) + Pppoe
    BY <2>1, <2>2
  <2>4. led = (online_counter > 0)
    <3>1. (online_counter > 0) = FALSE
      BY <2>2
    <3> QED BY <2>2, <3>1
  <2> QED BY <2>3, <2>4 DEF Counts
<1> QED BY <1>1, <1>2, <1>3, <1>4, <1>5, <1>6, <1>8, <1>9 DEF Typed

(* ImondInv, spelled out for the proof *)
LEMMA ImondInvIs == ImondInv <=> Typed /\ CarriersAgree /\ Counts
<1>1. Typed => CircuitTypes
  BY DEF Typed
<1> QED BY <1>1, TypedIs, AgreeIs, CounterIs DEF ImondInv, OnlineAgrees

(* ImondInv holds in every reachable state. *)
THEOREM ImondInvariance == Spec => []ImondInv
<1>1. Init => ImondInv
  BY InitImondInv, ImondInvIs
<1>2. ImondInv /\ [Next]_vars => ImondInv'
  <2>1. ImondInv /\ [Next]_vars => (Typed /\ CarriersAgree /\ Counts)'
    BY ImondInvIs, TypedStep, CarriersStep, CounterStep
  <2>2. (Typed /\ CarriersAgree /\ Counts)' => ImondInv'
    BY ImondInvIs, PTL
  <2> QED BY <2>1, <2>2
<1> QED BY <1>1, <1>2, PTL DEF Spec

(* Every variable keeps its type. *)
THEOREM ImondTypeCorrect == Spec => []TypeOK
<1>1. ImondInv => TypeOK
  BY DEF ImondInv
<1> QED BY <1>1, ImondInvariance, PTL

(* A circuit is online exactly while one connection is accounted to it,    *)
(* and the counter counts the connections.                                 *)
THEOREM OnlineAgreed == Spec => []OnlineAgrees
<1>1. ImondInv => OnlineAgrees
  BY DEF ImondInv
<1> QED BY <1>1, ImondInvariance, PTL

(* The charged time that is shown never falls. *)
THEOREM ChargesRise == Spec => ChargeNeverFalls
<1>1. ImondInv /\ [Next]_vars =>
        [/\ \A ch \in Channels :
              is_active[ch] /\ is_active'[ch] => ShownChargeTime(ch)' >= ShownChargeTime(ch)
         /\ ShownPppoeTime' >= ShownPppoeTime]_vars
  BY ImondInvIs, ChargeStep DEF Rises
<1> QED BY <1>1, ImondInvariance, PTL DEF Spec, ChargeNeverFalls

(* When the loop adds a link, the rate of channel 0 was last measured      *)
(* below the limit bandwidth_time ago or earlier.                          *)
THEOREM LinksInTime == Spec => LinkAddedInTime
<1>1. ImondInv /\ [Next]_vars =>
        [\A c \in Circuits :
           link_added'[c] > link_added[c] /\ budget' = budget /\ ~adjusted
             => now - last_low >= BandwidthTime]_vars
  BY ImondInvIs, LinkStep DEF AddedInTime
<1> QED BY <1>1, ImondInvariance, PTL DEF Spec, LinkAddedInTime
=============================================================================
