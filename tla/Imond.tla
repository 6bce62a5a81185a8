------------------------------- MODULE Imond -------------------------------
(***************************************************************************)
(* imond (base/imond/imond.c): accounts for the connections of the ISDN    *)
(* channels and of PPPoE, bundles channels on demand and switches the      *)
(* default route between circuits by the hour.                             *)
(*                                                                         *)
(* imond is one thread: its main loop waits in select() for at most        *)
(* POLLING_INTERVAL seconds and then measures, reads /dev/isdninfo or      *)
(* checks the route, and serves its clients.  Each of these is an action;  *)
(* the kernel and the clock move between any two of them.  One unit of     *)
(* time is one polling interval.                                           *)
(***************************************************************************)
EXTENDS Integers, FiniteSets, Sequences

CONSTANTS
  LastChannel,   \* channels are 0 .. LastChannel, in the order of /dev/isdninfo
  Circuits,      \* circuits[], named by their first device
  NoCircuit,     \* circuit index -1, or no default device
  Lines,         \* conf_data[]: the lines of imond.conf, in their order
  Calls,         \* calls the kernel may report on a channel
  Absent, Idle,  \* a channel without driver; a channel without a call
  Bundled,       \* circuits with a second device and bandwidth limits
  BandwidthTime, \* bandwidth_time, in polling intervals
  HourOf,        \* hour of the week at each instant, holidays taken as sunday
  Budgets,       \* bounds: how often the kernel and the clients may act
  MaxTime        \* bound: last instant

ASSUME ImondAssumption ==
  /\ LastChannel \in Nat /\ BandwidthTime \in Nat /\ MaxTime \in Nat \ 0 .. 2
  /\ NoCircuit \notin Circuits
  /\ Bundled \subseteq Circuits
  /\ Len(Lines) \in Nat \ {0} /\ DOMAIN Lines = 1 .. Len(Lines)
  /\ Budgets \subseteq [kernel : Nat, client : Nat, measure : BOOLEAN]
  /\ \A i \in DOMAIN Lines : Lines[i].circuit \in Circuits /\ Lines[i].interval \in Nat \ {0}
  /\ \A k \in Calls : k.circuit \in Circuits /\ k.out \in BOOLEAN /\ k.up \in BOOLEAN
  /\ Absent \notin Calls /\ Idle \notin Calls

VARIABLES
  now,            \* time()
  line,           \* what the kernel knows of each channel
  news,           \* /dev/isdninfo is readable: something changed since the last read
  seen,           \* the buffer read_info() has read ...
  reading,        \* ... and the next channel it looks at; LastChannel + 1: none
  is_active, online_start, conf_idx, outgoing, charge_time,  \* infos[]
  online, link_added,                                        \* circuits[]
  pppoe,          \* pppoe_infos
  online_counter, led,
  route_idx, default_device,
  dialled,        \* circuits imond has last asked fli4lctrl to dial
  last_time_isdn, higher, lower,  \* times of measurements, those of channel 0
  last_low,       \* history: when the rate of channel 0 was last below the limit
  budget,         \* bound: what is left of the steps of kernel and clients
  adjusted        \* history: the clock has been set

kernel == <<line, news>>
infos == <<is_active, online_start, conf_idx, outgoing, charge_time>>
circuits == <<online, link_added>>
lamp == <<online_counter, led>>
routes == <<route_idx, default_device, dialled>>
rates == <<last_time_isdn, higher, lower, last_low>>
vars == <<now, kernel, seen, reading, infos, circuits, pppoe, lamp, routes, rates,
          budget, adjusted>>

Channels == 0 .. LastChannel
NoLine == 0
LineState == Calls \cup {Absent, Idle}

TypeOK ==
  /\ now \in 1 .. MaxTime
  /\ line \in [Channels -> LineState] /\ news \in BOOLEAN
  /\ seen \in [Channels -> LineState] /\ reading \in 0 .. LastChannel + 1
  /\ is_active \in [Channels -> BOOLEAN] /\ outgoing \in [Channels -> BOOLEAN]
  /\ online_start \in [Channels -> 0 .. MaxTime]
  /\ conf_idx \in [Channels -> {NoLine} \cup DOMAIN Lines]
  /\ charge_time \in [Channels -> Int]
  /\ online \in [Circuits -> BOOLEAN] /\ link_added \in [Circuits -> 0 .. 1]
  /\ pppoe \in [start : 0 .. MaxTime, conf : {NoLine} \cup DOMAIN Lines, charge_time : Int]
  /\ online_counter \in Nat /\ led \in BOOLEAN
  /\ route_idx \in Circuits \cup {NoCircuit}
  /\ default_device \in Circuits \cup {NoCircuit}
  /\ dialled \subseteq Circuits
  /\ last_time_isdn \in 0 .. MaxTime /\ last_low \in 0 .. MaxTime
  /\ higher \in 0 .. MaxTime /\ lower \in 0 .. MaxTime
  /\ adjusted \in BOOLEAN

-----------------------------------------------------------------------------
(* Look-ups in the configuration *)

Hour == HourOf[now]

(* The first line, in the order of the file, of a set of lines. *)
First(S) == IF S = {} THEN NoLine ELSE CHOOSE i \in S : \A j \in S : i <= j

CircuitOf(i) == IF i = NoLine THEN NoCircuit ELSE Lines[i].circuit

(* charge_diff: what is charged for a connection of d time units.  Integer  *)
(* division truncates.                                                     *)
Charged(i, d) ==
  LET interval == IF i = NoLine THEN 1 ELSE Lines[i].interval
      quotient == IF d >= 0 THEN d \div interval ELSE -((-d) \div interval)
  IN IF interval > 1 THEN quotient * interval + interval ELSE d

(* circuit_device_online: asked of the kernel when it is needed, not read   *)
(* from the buffer.                                                        *)
DeviceOnline(c) ==
  \E ch \in Channels : line[ch] \in Calls /\ line[ch].up /\ line[ch].circuit = c

(* Faulty variant: takes a circuit that is already accounted for. *)
Faultyfind_conf_data(call) ==
  First({i \in DOMAIN Lines :
           /\ ~Lines[i].is_pppoe
           /\ IF call.out THEN Hour \in Lines[i].hours /\ call.phone \in Lines[i].outgoing_phone
                          ELSE call.phone \in Lines[i].incoming_phone
           /\ DeviceOnline(Lines[i].circuit)})

find_conf_data(call) ==
  First({i \in DOMAIN Lines :
           /\ ~Lines[i].is_pppoe
           /\ IF call.out THEN Hour \in Lines[i].hours /\ call.phone \in Lines[i].outgoing_phone
                          ELSE call.phone \in Lines[i].incoming_phone
           /\ ~online[Lines[i].circuit]
           /\ DeviceOnline(Lines[i].circuit)})

find_pppoe_conf_data ==
  First({i \in DOMAIN Lines : Lines[i].is_pppoe /\ Hour \in Lines[i].hours})

(* find_circuit, for a manual route r. *)
find_circuit(r) ==
  IF r # NoCircuit THEN r
  ELSE CircuitOf(First({i \in DOMAIN Lines : Lines[i].is_lcr /\ Hour \in Lines[i].hours}))

Wanted == find_circuit(route_idx)

(* map_channel: the n-th active channel. *)
map_channel(n) ==
  {ch \in Channels : is_active[ch] /\ n = Cardinality({c \in 0 .. ch : is_active[c]})}

(* find_channel_idx_by_circuit_idx *)
ChannelsOf(c) ==
  {ch \in Channels : is_active[ch] /\ online_start[ch] # 0 /\ CircuitOf(conf_idx[ch]) = c}

-----------------------------------------------------------------------------

Init ==
  /\ now = 3
  /\ line = [ch \in Channels |-> Idle] /\ news = TRUE
  /\ seen = line /\ reading = LastChannel + 1
  /\ is_active = [ch \in Channels |-> FALSE]
  /\ online_start = [ch \in Channels |-> 0]
  /\ conf_idx = [ch \in Channels |-> 1]      \* zeroed memory: the first line
  /\ outgoing = [ch \in Channels |-> FALSE]
  /\ charge_time = [ch \in Channels |-> 0]
  /\ online = [c \in Circuits |-> FALSE] /\ link_added = [c \in Circuits |-> 0]
  /\ pppoe = [start |-> 0, conf |-> 1, charge_time |-> 0]
  /\ online_counter = 0 /\ led = FALSE
  /\ route_idx = NoCircuit
  /\ default_device = find_circuit(NoCircuit)   \* check_routing() before the loop
  /\ dialled = {default_device} \ {NoCircuit}
  /\ last_time_isdn = 0 /\ higher = 0 /\ lower = 0 /\ last_low = 0
  /\ budget \in Budgets
  /\ adjusted = FALSE

(* The loop is between two operations. *)
AtLoop == reading > LastChannel

(* A new connection or the end of one, of ISDN or PPPoE. *)
CountUp == online_counter' = online_counter + 1 /\ led' = TRUE

CountDown ==
  IF online_counter > 0
  THEN /\ online_counter' = online_counter - 1
       /\ led' = (led /\ online_counter' > 0)
  ELSE UNCHANGED lamp

-----------------------------------------------------------------------------
(* The kernel and the clock *)

(* A circuit uses one channel, a bundled one may use several. *)
MayCarry(ch, v) ==
  v \in Calls /\ v.circuit \notin Bundled =>
    \A other \in Channels \ {ch} :
      line[other] \in Calls => line[other].circuit # v.circuit

KernelChanges(ch) ==
  /\ budget.kernel > 0
  /\ \E v \in LineState \ {line[ch]} :
       /\ MayCarry(ch, v)
       /\ line' = [line EXCEPT ![ch] = v]
  /\ news' = TRUE
  /\ budget' = [budget EXCEPT !.kernel = @ - 1]
  /\ UNCHANGED <<now, seen, reading, infos, circuits, pppoe, lamp, routes, rates, adjusted>>

(* An hour lasts hundreds of polling intervals: the route has been checked  *)
(* in it before the next one begins.                                       *)
Tick ==
  /\ now < MaxTime
  /\ HourOf[now + 1] # Hour => default_device = Wanted
  /\ now' = now + 1
  /\ UNCHANGED <<kernel, seen, reading, infos, circuits, pppoe, lamp, routes, rates,
                 budget, adjusted>>

-----------------------------------------------------------------------------
(* read_info: reads the state of all channels, then goes through them *)

ReadInfo ==
  /\ AtLoop /\ news
  /\ seen' = line /\ news' = FALSE
  /\ reading' = 0
  /\ UNCHANGED <<now, line, infos, circuits, pppoe, lamp, routes, rates, budget, adjusted>>

Look(ch) ==
  /\ reading = ch
  /\ reading' = ch + 1
  /\ is_active' = [is_active EXCEPT ![ch] = seen[ch] # Absent]
  /\ UNCHANGED <<now, kernel, seen, pppoe, routes, budget, adjusted>>

IsUp(ch) == seen[ch] \in Calls /\ seen[ch].up

(* Nothing has changed, or the channel is gone: then not even its           *)
(* connection is closed.                                                   *)
NothingNew(ch) ==
  /\ \/ seen[ch] = Absent
     \/ seen[ch] # Absent /\ IsUp(ch) = (online_start[ch] # 0)
  /\ Look(ch)
  /\ UNCHANGED <<online_start, conf_idx, outgoing, charge_time, circuits, lamp, rates>>

NewConnection(ch) ==
  /\ IsUp(ch) /\ online_start[ch] = 0
  /\ Look(ch)
  /\ CountUp
  /\ last_time_isdn' = now
  /\ online_start' = [online_start EXCEPT ![ch] = now]
  /\ outgoing' = [outgoing EXCEPT ![ch] = seen[ch].out]
  /\ LET i == find_conf_data(seen[ch])
     IN /\ conf_idx' = [conf_idx EXCEPT ![ch] = i]
        /\ online' = [c \in Circuits |-> online[c] \/ c = CircuitOf(i)]
  /\ UNCHANGED <<charge_time, link_added, higher, lower, last_low>>

(* Faulty variant: adds up the time itself, not the units it is charged in. *)
FaultyHungUp(ch) ==
  /\ seen[ch] # Absent /\ ~IsUp(ch) /\ online_start[ch] # 0
  /\ Look(ch)
  /\ CountDown
  /\ LET c == CircuitOf(conf_idx[ch])
     IN /\ online' = [d \in Circuits |-> online[d] /\ d # c]
        /\ link_added' = [d \in Circuits |-> IF d = c THEN 0 ELSE link_added[d]]
  /\ charge_time' = [charge_time EXCEPT
       ![ch] = IF outgoing[ch] THEN @ + (now - online_start[ch]) ELSE @]
  /\ online_start' = [online_start EXCEPT ![ch] = 0]
  /\ UNCHANGED <<conf_idx, outgoing, rates>>

HungUp(ch) ==
  /\ seen[ch] # Absent /\ ~IsUp(ch) /\ online_start[ch] # 0
  /\ Look(ch)
  /\ CountDown
  /\ LET c == CircuitOf(conf_idx[ch])
     IN /\ online' = [d \in Circuits |-> online[d] /\ d # c]
        /\ link_added' = [d \in Circuits |-> IF d = c THEN 0 ELSE link_added[d]]
  /\ charge_time' = [charge_time EXCEPT
       ![ch] = IF outgoing[ch] THEN @ + Charged(conf_idx[ch], now - online_start[ch])
                               ELSE @]
  /\ online_start' = [online_start EXCEPT ![ch] = 0]
  /\ UNCHANGED <<conf_idx, outgoing, rates>>

-----------------------------------------------------------------------------
(* measure_isdn_rates *)

(* The loop measures whenever it wakes up, for a client, for /dev/isdninfo  *)
(* or after a polling interval, if half a second has gone by since the     *)
(* last measurement: so any number of times in one unit of time.  It never *)
(* measures again once 15 seconds have gone by.                            *)
MeasureDue == now - last_time_isdn \in 0 .. 1

Online(ch) == is_active[ch] /\ online_start[ch] # 0

(* addlink and removelink: fli4lctrl may fail. *)
addlink(c) ==
  /\ link_added[c] = 0
  /\ link_added' \in {link_added, [link_added EXCEPT ![c] = 1]}

removelink(c) ==
  /\ link_added[c] > 0
  /\ link_added' \in {link_added, [link_added EXCEPT ![c] = @ - 1]}

HighRate(c) ==
  /\ lower' = 0
  /\ higher' = IF higher = 0 THEN now ELSE higher
  /\ IF higher # 0 /\ c # NoCircuit /\ link_added[c] = 0 /\ now - higher >= BandwidthTime
     THEN addlink(c) ELSE UNCHANGED link_added
  /\ UNCHANGED last_low

(* Faulty variant: a time below the limit does not count. *)
FaultyLowRate(c) ==
  /\ lower' = IF lower = 0 THEN now ELSE lower
  /\ last_low' = now
  /\ UNCHANGED <<higher, link_added>>

LowRate(c) ==
  /\ higher' = 0
  /\ lower' = IF lower = 0 THEN now ELSE lower
  /\ IF lower # 0 /\ c # NoCircuit /\ link_added[c] > 0 /\ now - lower >= BandwidthTime
     THEN removelink(c) ELSE UNCHANGED link_added
  /\ last_low' = now

(* Channels without traffic are left out, and if all are last_time_isdn     *)
(* stays.  Only channel 0 has a bandwidth limit; of a connection without   *)
(* circuit circuits[-1] is read, which may hold anything.                  *)
Measure ==
  /\ AtLoop /\ budget.measure
  /\ MeasureDue
  /\ \E traffic \in SUBSET {ch \in Channels : Online(ch)} :
       /\ traffic # {}
       /\ IF 0 \in traffic
          THEN LET c == CircuitOf(conf_idx[0])
               IN \/ c \in Bundled \cup {NoCircuit} /\ (HighRate(c) \/ LowRate(c))
                  \/ c \notin Bundled /\ UNCHANGED <<higher, lower, last_low, link_added>>
          ELSE UNCHANGED <<higher, lower, last_low, link_added>>
  /\ last_time_isdn' = now
  /\ UNCHANGED <<now, kernel, seen, reading, infos, online, pppoe, lamp, routes, budget, adjusted>>

-----------------------------------------------------------------------------
(* Routing *)

(* Faulty variant: keeps the default route if no circuit is wanted. *)
Faultycheck_routing(r) ==
  LET c == IF find_circuit(r) = NoCircuit THEN default_device ELSE find_circuit(r)
  IN default_device' = c /\ dialled' = dialled

(* check_routing: hangs up the former default circuit, dials the new one. *)
check_routing(r) ==
  LET c == find_circuit(r)
  IN /\ default_device' = c
     /\ dialled' = IF c = default_device THEN dialled
                   ELSE (dialled \ {default_device}) \cup ({c} \ {NoCircuit})

(* select() timed out, or a client called and the last check is a polling   *)
(* interval ago; but not if /dev/isdninfo is readable.                     *)
Poll ==
  /\ AtLoop /\ ~news
  /\ default_device # Wanted     \* otherwise it changes nothing
  /\ check_routing(route_idx)
  /\ UNCHANGED <<now, kernel, seen, reading, infos, circuits, pppoe, lamp, route_idx, rates,
                 budget, adjusted>>

-----------------------------------------------------------------------------
(* Commands of clients that may give them *)

Command ==
  /\ AtLoop /\ budget.client > 0
  /\ budget' = [budget EXCEPT !.client = @ - 1]
  /\ UNCHANGED <<kernel, seen, reading>>

(* route *)
Route(r) ==
  /\ Command
  /\ route_idx' = r
  /\ check_routing(r)
  /\ UNCHANGED <<now, infos, circuits, pppoe, lamp, rates, adjusted>>

(* dial, hangup *)
Dial ==
  /\ Command
  /\ dialled' = dialled \cup ({Wanted} \ {NoCircuit})
  /\ UNCHANGED <<now, infos, circuits, pppoe, lamp, route_idx, default_device, rates, adjusted>>

Hangup ==
  /\ Command
  /\ \E c \in {Wanted} \cup {Lines[i].circuit : i \in {j \in DOMAIN Lines : Lines[j].is_pppoe}}
              \cup {CircuitOf(conf_idx[ch]) : ch \in UNION {map_channel(n) : n \in 1 .. LastChannel + 1}} :
       dialled' = dialled \ {c}
  /\ UNCHANGED <<now, infos, circuits, pppoe, lamp, route_idx, default_device, rates, adjusted>>

(* set-status pppoe up *)
PppoeUp ==
  /\ Command
  /\ pppoe.start = 0
  /\ CountUp
  /\ pppoe' = [pppoe EXCEPT !.start = now, !.conf = find_pppoe_conf_data]
  /\ UNCHANGED <<now, infos, circuits, routes, rates, adjusted>>

(* set-status pppoe down or restart *)
PppoeDown ==
  /\ Command
  /\ IF pppoe.start # 0
     THEN /\ CountDown
          /\ pppoe' = [pppoe EXCEPT !.start = 0,
                         !.charge_time = @ + Charged(pppoe.conf, now - pppoe.start)]
     ELSE UNCHANGED <<lamp, pppoe>>
  /\ check_routing(route_idx)
  /\ UNCHANGED <<now, infos, circuits, route_idx, rates, adjusted>>

(* addlink, removelink *)
ChangeLinks ==
  /\ Command
  /\ \E c \in Bundled : ChannelsOf(c) # {} /\ (addlink(c) \/ removelink(c))
  /\ UNCHANGED <<now, infos, online, pppoe, lamp, routes, rates, adjusted>>

(* adjust-time: sets the clock and moves what is measured against it; the   *)
(* times of the bandwidth limit are forgotten.  If the clock has been set   *)
(* by somebody else, who then gives the command, the two are one step.     *)
AdjustTime ==
  /\ Command
  /\ ~adjusted /\ adjusted' = TRUE
  /\ \E d \in {-2, 2} :
       /\ now + d \in 1 .. MaxTime
       /\ now' = now + d
       /\ \A ch \in Channels : Online(ch) => online_start[ch] + d > 0
       /\ online_start' = [ch \in Channels |-> IF Online(ch) THEN online_start[ch] + d
                                                             ELSE online_start[ch]]
       /\ pppoe.start # 0 => pppoe.start + d > 0
       /\ pppoe' = IF pppoe.start = 0 THEN pppoe ELSE [pppoe EXCEPT !.start = @ + d]
       /\ last_time_isdn > 0 => last_time_isdn + d > 0
       /\ last_time_isdn' = IF last_time_isdn > 0 THEN last_time_isdn + d ELSE 0
  /\ UNCHANGED <<is_active, conf_idx, outgoing, charge_time, circuits, lamp, routes,
                 higher, lower, last_low>>

-----------------------------------------------------------------------------

ReadChannel == \E ch \in Channels : NothingNew(ch) \/ NewConnection(ch) \/ HungUp(ch)

Environment == Tick \/ \E ch \in Channels : KernelChanges(ch)

Client ==
  \/ \E r \in Circuits \cup {NoCircuit} : Route(r)
  \/ Dial \/ Hangup
  \/ PppoeUp \/ PppoeDown
  \/ ChangeLinks
  \/ AdjustTime

Next == ReadInfo \/ ReadChannel \/ Measure \/ Poll \/ Client \/ Environment

Spec == Init /\ [][Next]_vars

(* imond is one process the system schedules: it gets through a reading,    *)
(* select() tells it that /dev/isdninfo is readable, and times out when     *)
(* nothing happens.                                                        *)
FairSpec == Spec /\ WF_vars(ReadInfo) /\ WF_vars(ReadChannel) /\ WF_vars(Poll)

-----------------------------------------------------------------------------
(* Properties *)

(* A circuit is marked online exactly while one connection, and only one,   *)
(* is accounted to it: find_conf_data never gives a circuit to a second    *)
(* channel and the end of the connection finds the same circuit again,     *)
(* whatever the clock or the kernel do in between.  A link is added to     *)
(* such a circuit only.                                                    *)
CircuitsAgree ==
  \A c \in Circuits :
    LET carriers == {ch \in Channels : online_start[ch] # 0 /\ CircuitOf(conf_idx[ch]) = c}
    IN /\ IF online[c] THEN Cardinality(carriers) = 1 ELSE carriers = {}
       /\ link_added[c] > 0 => online[c]

(* online_counter counts the connections of the channels and of PPPoE, and  *)
(* the lamp is on while there is one, although each is counted by events   *)
(* that may be lost, repeated or never come.                               *)
CounterAgrees ==
  /\ online_counter = Cardinality({ch \in Channels : online_start[ch] # 0})
                      + IF pppoe.start # 0 THEN 1 ELSE 0
  /\ led <=> online_counter > 0

OnlineAgrees == CircuitsAgree /\ CounterAgrees

(* The charged time a client is shown never falls while the channel stays   *)
(* active: what is shown during a connection, computed from the clock, is  *)
(* what is added up at its end, and setting the clock moves both.          *)
ShownChargeTime(ch) ==
  charge_time[ch] + IF outgoing[ch] /\ online_start[ch] # 0
                    THEN Charged(conf_idx[ch], now - online_start[ch]) ELSE 0

ShownPppoeTime ==
  pppoe.charge_time + IF pppoe.start # 0 THEN Charged(pppoe.conf, now - pppoe.start) ELSE 0

ChargeNeverFalls ==
  [][/\ \A ch \in Channels :
          is_active[ch] /\ is_active'[ch] => ShownChargeTime(ch)' >= ShownChargeTime(ch)
     /\ ShownPppoeTime' >= ShownPppoeTime]_vars

(* "add/remove link after 30 seconds": when the loop adds a link, the rate  *)
(* of channel 0 was last measured below the limit bandwidth_time ago or    *)
(* earlier, although a measurement may come at any time, many in a second  *)
(* or none for long, and connections of other circuits in between.  That   *)
(* the rate was high all the time is not said and not true: nothing is     *)
(* measured while channel 0 is offline or transfers nothing, and the time  *)
(* at which the rate began to be high is kept all the while.               *)
LinkAddedInTime ==
  [][\A c \in Circuits :
       link_added'[c] > link_added[c] /\ budget' = budget /\ ~adjusted
         => now - last_low >= BandwidthTime]_vars

(* The default route always catches up with the time table or the route a   *)
(* client has chosen, however many events delay check_routing.             *)
RouteFollowed == []<>(default_device = Wanted)

=============================================================================
