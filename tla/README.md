# Formal models of fli4l

fli4l is a router that is configured by text files on a build host and runs
from shell scripts. Most of the repository is third-party code, build recipes,
documentation and text-generating scripts. Its own run-time logic, and the part
with concurrency in it, is the *circuit system* of the package `base`: the
program `circd` that manages dial-up and other WAN connections ("circuits"),
the message-oriented middleware ("MOM") over which it talks to scripts and
daemons, and the file locks all of them use. All of it is written in POSIX
shell, many processes run at once, and their only shared memory is files.

The programs written in C are smaller systems of their own. `imond` accounts for
ISDN and PPPoE connections, switches the default route by the hour and serves
clients; `mkfli4l` runs on the build host and decides which file goes into which
archive. This directory holds TLA+ models of the circuit system and of the core
of these programs, the TLC runs that check them and the proofs.

In the paths below `B` stands for `src/src/packages/base/opt` and `S` for
`src/src/packages/src/src/fli4l/base`.

## 1. Inventory

| Part | Source | State | Operations |
|---|---|---|---|
| Exclusive locks | `B/etc/boot.d/locking.inc` 1-188 | a symbolic link per resource, a PID file with a count, a list in each process | lock (poll), try lock, unlock, unlock all in the exit trap |
| Reader/writer locks | `locking.inc` 190-424 | four files per resource, two lists in each process | lock and unlock for reading and for writing, promotion, exit trap |
| Exit traps | `B/etc/boot.d/exittrap.inc` | the shell's traps, a stack of commands | add, remove, run at exit or on a signal |
| MOM | `B/usr/share/mom/core` | per endpoint: queue files, a FIFO, an interface file; a message counter | unicast, broadcast, either with waiting for replies, register and unregister handlers, message loop, create and destroy endpoints |
| circd | `B/usr/share/circuits/circd` | per circuit: state, operation in progress, target of a hangup, protocols that are up, daemon; dial modes, router state, children, shutdown flag | about 35 message handlers |
| Queue processes | `circd` 884-943, 2772-2880 | one per circuit or bundle: a queue of dial, hangup and quit | run the control script of the circuit |
| Daemon wrappers | `circd` 1930-2023 | a child of circd per daemon | start a daemon, wait for it, report its exit |
| Circuit API | `B/usr/share/circuits/api` | property files of circuits and prefixes | read and write fields, lock, look up names and classes, send messages |
| Control scripts | `*-circuit-ctrl.sh` of `base`, `ppp` and others | none | dial and hang up one type of circuit |
| ip-up, ip-down, link scripts | `B/etc/ppp` | addresses, routes, name servers | announce protocols and links to circd |
| fli4lctrl | `B/usr/local/bin/fli4lctrl` | none | commands of the user, lists, `wait` |
| Boot and shutdown | `B/etc/rc.d`, `B/etc/rc0.d` | none | start circd, set the dial mode, stop the services |
| imond | `S/imond/imond.c` | per ISDN channel: connection, line of the configuration, charged time; per circuit: online, links; default route; PPPoE connection | main loop with select(), reading `/dev/isdninfo`, measuring rates, check_routing, about 60 commands |
| Clients of imond | `imond.c` 2317-2450, 5522-5612 | a slot per connection: rights, salt | accept, pass, salt, md5pass, quit |
| Calendar of imond | `imond.c` 280-330, 636-794 | holidays of the last year asked for | is_holiday |
| Containers of mkfli4l | `S/mkfli4l-tools/container/hashmap.c` | buckets with entries, holes and a free list | create, put, get, remove, size, destroy |
| Archive contents of mkfli4l | `S/mkfli4l-tools/ziplist` (`kernmod.c`, `optlibs.c`, `opt.c`) | the archive list, modules and their dependencies | place kernel modules, resolve shared libraries |
| Everything else | prefix database and `atd.sh`, firewall and resolver helpers, the netlink bridge, the configuration language of mkfli4l, other C programs, optional packages | | not modelled, see section 8 |

How they interact: fli4lctrl, the ip-up and ip-down scripts, the queue
processes and the daemon wrappers send *messages* to circd, whose message loop
runs one handler after the other. circd sends messages to the queue process of
a circuit, which runs the control script in the foreground; the script
typically asks circd, by a message, to start or to stop a daemon. Every process
reads and writes property files of circuits, under reader/writer locks guarded
by an exclusive lock per circuit.

imond and mkfli4l stand apart from this: imond only asks for circuits to be
dialled or hung up, through fli4lctrl, and mkfli4l has ended before the router
boots. They share no state with the circuit system or with each other.

What is hard, and what makes each part correct:

- *Locks.* Any two commands of two processes interleave, signals strike between
  any two commands. Correct: exclusion, recursion, no lock lost or kept, writers
  preferred and not starved, everything released by the exit trap.
- *MOM.* The queue and the FIFO are tied together by nothing but counting.
  Timeouts kill a helper process; replies come late. Correct: a byte for every
  message, a reply goes to the call it answers, every call ends.
- *circd.* A handler changes a circuit, which changes the circuits that depend
  on it, while scripts and daemons of the same circuits are under way and will
  report what is no longer current. Correct: dependencies are honoured, no
  circuit is forgotten, a circuit never has two daemons, the router state is
  right, what has been switched off is not dialled, hangup and shutdown end.
- *imond.* The kernel and the clock move between any two steps of its loop, and
  what it finds out about a connection comes partly from a buffer read before
  and partly from the kernel now. Correct: every connection is accounted to one
  circuit, and that one is found again at its end; counters and flags that are
  updated by events agree with the connections; charged time never goes back;
  the route follows the time table however busy the loop is; rights do not
  outlive a connection.
- *mkfli4l.* Lists grow, and entries move, while they are gone through. Correct:
  the result depends on what was chosen and not on the order, and the search
  ends. The hash map hands out pointers into memory that may move.

`PROJECT.json` lists the hazards one by one, with the line where each one bites
and the properties that cover it.

## 2. Modules

| Module | Models | Composition |
|---|---|---|
| `AbstractLock` | the promise of the exclusive lock: owner and depth | |
| `SyncLock` | the exclusive lock, one action per command that touches a file or a trap | refines `AbstractLock` |
| `SyncLockProofs` | the theorems about `SyncLock` | extends `SyncLock` |
| `AbstractRWLock` | the promise of the reader/writer lock | |
| `RWLock` | the reader/writer lock of one resource, over an atomic mutex | refines `AbstractRWLock` |
| `RWLockProofs` | the theorems about `RWLock` | extends `RWLock` |
| `Mom` | endpoints, queues, FIFOs, message loop, request and reply | |
| `MomProofs` | the theorems about `Mom` | extends `Mom` |
| `AbstractCircuit` | the documented life of a circuit | |
| `Circd` | circd with queue processes, control scripts and daemons | refines `AbstractCircuit` |
| `CircdProofs` | the theorems about `Circd`, its dial modes and dependencies | extends `Circd` |
| `CircdLifeProofs` | the theorems about the life of a circuit | extends `CircdProofs` |
| `Imond` | imond's main loop, accounting, bundling, routing, commands | |
| `ImondProofs` | the theorems about `Imond` | extends `Imond` |
| `ImondClients` | slots and rights of imond's clients | |
| `Calendar` | imond's holidays | |
| `AbstractMap` | the promise of the hash map | |
| `HashMap` | the hash map of mkfli4l | refines `AbstractMap` |
| `KernelModules` | the placement of kernel modules in the archives | |
| `Libraries` | the search for shared libraries | |
| `MkfliProofs` | the theorems about `HashMap` and `Libraries` | extends `HashMap`, instantiates `Libraries` |
| `MC*` | constants for TLC; `MCPrograms` instantiates the parts written in C | |
| `ProgramsProofs` | the theorems about `ImondClients`, `Calendar`, `KernelModules` and about `MCPrograms` as a whole | extends `MCPrograms` and `ImondProofs`, instantiates `MkfliProofs` |

### 2.1 SyncLock

`link`, `pidfile` and `held` are the symbolic link, the PID files and
`sync_locked_resources`. `pc[p]` is the next command of the process; the actions
have the names of what the command does: `Symlink` is `ln -s`, `CheckLocker` is
`sync_get_locker`, `WriteCount` and `AppendToList` are lines 73 and 74, and so
on. Commands that only touch variables of the process are merged with the next
one. `sync_get_locker` is one action although it is two commands: only the
process that asks can make or unmake "the link is mine". `rm -f lock pidfile`
is two actions, in the order of its arguments.

Signals: between `trap ""` and `trap -` a signal is ignored. When pc is
`restore` or `refuse`, the default actions are in force and neither the signal
traps nor the EXIT trap are installed, so that a signal kills the process
without any cleaning up (`killed`). Everywhere else it starts the exit trap,
which runs `sync_unlock_all_resources` through the same commands.

### 2.2 RWLock

`readers`, `own`, `writer` with `depth`, and `waiting` are the four files.
`mutex` and `guard` are exclusive locks, taken and released in one step;
`SyncLock` is what justifies that. All else is one action per command, because
a signal can strike between any two. `SignalPoints` says where signals strike:
everywhere that does not leave a file and a list in disagreement for ever
(`RWLock.cfg`), or in the poll of a writer (`RWLockSignal.cfg`).
`CallWriteLock` has the precondition the comment on lock promotion states: a
reader must hold the guarding exclusive lock. `circuit_lock` does that.
`CallReadLock` leaves out a process that already writes and does not read: it
would wait for itself, and nothing in the code calls it so.

### 2.3 Mom

Every sequence of commands under the interface lock of an endpoint is one
action; all else interleaves. A server answers what it receives, clients call
`mom_unicast_message_and_receive_reply` with or without a timeout. `fifo` counts
bytes, `wakeups` the forked writers; the pc value `token` is the time in which
the child of `mom_wait` has read its byte and not yet exited. The action
`Timeout` is the timer of `mom_do_wait`. With `KillWindow` it may strike in that
time, which is the finding in section 6; without it the other properties are
checked. Endpoints are destroyed in any state between calls, with messages on
their way to them.

`mom_do_wakeup` has a timer of its own (`mom_wakeup_timeout`, 30 seconds), which
kills a writer that is stuck and so loses its byte. It is left out: the FIFO is
opened for reading and writing, which does not block, and the write would only
block with 64 KB of bytes nobody has read.

### 2.4 Circd

One handler runs at a time, and circd changes the state of circuits from deep
inside recursive calls: `circd_change_state` calls `circd_handle_state_change`,
which dials or hangs up the circuit and its dependents, which calls
`circd_change_state` again. The variable `todo` holds the calls that the running
handler still has to make, innermost first; the values a caller keeps in local
variables (in `react` the new state and how far the loop over the circuits has
come, in `mode_change` the old and the new mode) are part of the call. So no
RECURSIVE operator is needed, and the files that other processes can read are right at
every step between two calls.

`inbox` is the message queue of circd and `queue[c]` that of a queue process;
`Mom` is what justifies treating them as reliable FIFO queues. Scripts
(`DialScript`, `HangupScript`) act on circd by what they return or send. The dial
script of a pppd circuit also asks circd for the effective dial mode
(`AsksMode` are these circuits): it sends a message, which is answered in its
turn (`HandleGetMode`), and by the time the script goes on (`DialAnswered`) the mode may
have changed again. So such a script ends in one of three ways: it fails by itself
(counted by `failures`), it asks for the daemon, or it finds the mode to be off
and is refused. In the last case its status is not zero: its last command is
`log_error`, which returns 1 (`B/usr/share/logfunc.sh` 18-22), `ppp-circuit-ctrl.sh`
hands that on, and the queue process runs the script with `pipefail`
(`circd` 2797-2803). So circd is told of a failure, which ends a hangup that has
been ordered meanwhile. A daemon brings protocols up and down and exits
when it likes, or when it is told to.

Daemons have process identifiers, taken from a small set; an identifier is used
again once nothing refers to it. circd registers a daemon twice (to terminate it
and to learn of its end), which `daemons` models as a set of pairs.

Abstracted: a wrapper's start and its registration are one step, because circd
waits for its child there. At the other end, the wrapper's report that the daemon
has exited (`circd` 2005-2010) and its exit trap, which reports the end of the
wrapper and removes its endpoint, are one step (`DaemonExits`); as two, the
instance with two circuits is too large. So what happens if the next daemon of
the circuit is started between the two is not explored. `HandleStopDaemon` stands
for SIGTERM and for the SIGHUP that circuits without a hangup timeout get; pppd
runs with `nopersist`, and ends on both. IP addresses, devices, logging and event broadcasts,
to which circd itself does not react.

### 2.5 Imond

Each thing the loop does between two calls of select() is an action: `ReadInfo`
and then one of `NothingNew`, `NewConnection` and `HungUp` per channel
(`read_info`; the buffer is `seen`, and `reading` how far it has come),
`Measure` (`measure_isdn_rates`), `Poll` (`check_routing`, either after a
time-out of select() or because a client has kept the loop busy) and the
commands. `KernelChanges` and `Tick` come in between, also between two channels
of one reading: `find_conf_data` asks the kernel about the device of a circuit
when it needs to know, and the model does the same with `line`, not with `seen`.

The loop measures at any wake-up that is half a second or more, and less than 15
seconds, after the last measurement. `MeasureDue` therefore allows any number of
measurements in one unit of time, or one in the next, and none once a unit has been
missed: a low and a high rate can be measured in the same second.

`Lines` are the lines of `imond.conf`. Time is counted in polling intervals and
hours are short, so that the bandwidth limit, the charge interval and the time
table all matter within six instants; but a new hour does not begin before the
route has been checked in the old one (`Tick`), since an hour lasts hundreds of
polling intervals. `AdjustTime` moves what the command `adjust-time` moves; the
times of the bandwidth limit are not among them. A channel that disappears while
it is online keeps its connection (`NothingNew`), as in the code.
`last_low`, `adjusted` and `budget` do not exist in the program: they are history
and bounds.

The measurement of one channel (the one the code calls a hack) decides about a
second link, and not the sum of all. If the connection belongs to no circuit,
the code reads `circuits[-1]`, which may hold anything: `Measure` takes either
branch, or neither if it holds a circuit without a second device.

### 2.6 ImondClients and Calendar

`ImondClients` follows a slot from `Accept` to `Quit` or `WriteFails`; the
latter leaves the rights behind, and `Accept` must reset them. A salt is
modelled as being there or not; which password a hash stands for is decided by
its content, so `Md5Pass` gets the password itself.

`Calendar` computes with the real numbers of the code. The code takes holidays
from a rule for easter; the property compares them with easter as the church
defines it, by the epact, on day numbers. `add_days` lengthens january where it
should lengthen february in a leap year. It is called only with dates from
march on, where it makes no difference; the comment in the module says so, the
run checks it for 230 years, and `HolidaysAreRight` shows it for all.

### 2.7 HashMap, KernelModules, Libraries

`HashMap`: a pointer into the array of a bucket is the array's generation and an
index; a reallocation begins a new generation, as if the array always moved.
`FillHole` writes through such a pointer. `FreeListExact` is the invariant that
makes this safe: the array grows only when the free list is empty.

`KernelModules`: `PlaceDependencies` handles one module per step, in the order
of the list, and reads what earlier steps of the same round have changed.
`Libraries`: the recursion of `resolve_dependencies` is the variable `stack`;
every iteration of its loop is a step. What `dep->file` was set to for one
program is used for the others.

`MCPrograms` starts one of these programs in each behaviour (`program`). They
have nothing to do with each other, so nothing is gained by interleaving them;
the others stand still in an initial state.

## 3. Runs

| Run | Instance | Shows |
|---|---|---|
| `sync_lock` | 2 processes, 2 resources, nesting 2, a signal each | exclusion, agreement of the three records, release at exit, end of the exit trap, refinement |
| `sync_lock_leak` | 1 signal | finding 1 |
| `rw_lock` | 3 processes, 2 writers, nesting 2 | exclusion, exact counts, writers preferred, refinement |
| `rw_lock_live` | 3 processes, 1 writer, nesting 1 | a waiting writer gets the lock, exit traps end |
| `rw_lock_signal` | 2 processes | finding 2 |
| `mom` | a server, a patient client, a client with timeouts, 2 calls each | one byte per message, replies match calls, calls end |
| `mom_timeout` | a server, a client with timeouts | finding 3 |
| `circd` | DSL, whose script asks for the dial mode, and a VPN that needs it, two protocols, 2 commands, dial mode auto at first, no script that fails by itself | dependencies, no circuit forgotten, one daemon, the documented life, hangup ends |
| `circd_modes` | a weak dependency, both circuits up at boot and dial mode off, one protocol, every command, a failing script | router state, weak dependencies, dial mode off |
| `circd_redial` | one circuit, one failing script | finding 4 |
| `circd_shutdown` | one circuit, stop_service | finding 5 |
| `programs` | the programs in C, see below | accounting, bundling, routing, rights and holidays of imond; the hash map refines its abstraction; modules and libraries are placed rightly and the searches end |

Deadlock is not checked in any run: every model stops when its bounds are used
up and its processes have ended, or when nobody sends another command. That
nothing hangs is what the liveness properties say.

Bounds, and why they are enough:

- *Locks.* Two processes are all that can compete in one pair of commands, and
  two resources make the list of a process hold different things. Nesting two
  separates the first, a middle and the last of lock and unlock. For the
  exclusive lock the proofs remove all bounds. Three processes for the
  reader/writer lock give two readers with a writer, and two writers with a
  reader.
- *Mom.* Two calls per client let a late reply meet the next call.
- *Circd.* `MaxCommands` bounds the commands of users; daemons are not
  bounded, they connect, disconnect and exit in any order for ever.
  `MaxQueue` stops daemons (not scripts and not circd) from sending while
  queues are long: it bounds how many reports of daemons are outstanding at
  once. `MaxFailures` bounds failing attempts to dial; in auto mode each would
  cause the next one at once. It does not count scripts that are refused for the dial
  mode; those are in `circd` and `circd_modes` (`AsksMode`). Two circuits with one dependency are the smallest
  case in which a change of one circuit changes another. Larger instances of
  the safety properties (`circd` with 4 commands and one protocol or 3 commands and two, `circd_modes` with two protocols) were
  explored without a violation; they take minutes and are not kept as runs.
  So were `OneDaemon`, `InactiveNotDialled` and `AbsSpec` on one circuit with 5
  commands, and `HangupEnds` with 4: enough to switch the mode off while a script
  asks for it, and on again before its refusal is handled.

- *Imond.* Two channels, of which one circuit may use both, a second ISDN
  circuit of the same provider (so the number alone does not tell which circuit
  a call belongs to) and a DSL circuit that takes over at some hours. Three
  events of the kernel let a connection begin, end and be replaced within one
  reading. `Budgets` lists which steps of the kernel, of clients and of the
  measurement go together; all at once would be too many states.
- *ImondClients.* Two slots and two passwords, with every configuration of the
  two, and no bound on the connections.
- *Calendar.* All years from 1970 to 2199, each after each other: the two
  exceptional cases of the rule for easter occur in 1981 and 2049.
- *HashMap.* Three keys in one bucket, two of them with two entries: several
  holes at once, filled in any order, and replacements. An entry that was
  destroyed does not come back, which bounds the model where there is a
  destructor; where there is none an array only grows without holes.
- *KernelModules.* Three modules with every dependency graph, cycles included,
  and every choice: a move of one module can make another one move that comes
  before it in the list, which causes a further round.
- *Libraries.* Seven files with an RPATH, a library in two places, a library
  that is missing unless a link stands in for it, chains of three, and up to
  three chosen files in any order and archive.

## 4. Fairness

- The kernel runs every process that can run: weak fairness of the steps of the
  libraries, of circd, of queue processes and of scripts.
- `SyncLock`: scripts end. Nothing obliges them to lock or to unlock. There is
  no fairness for signals.
- `RWLock`: strong fairness of taking the mutex, since a polling process finds
  it free again and again; scripts leave their sections (`CallReadUnlock`,
  `CallWriteUnlock`, strong because a read section may contain write sections).
  With nesting, an unlock does not end a section, so liveness is checked with
  nesting 1.
- `Mom`: a timer that is running will fire. No fairness for calling or ending.
- `Circd`: a daemon that has been told to terminate exits, and the scripts of a
  daemon that is gone report its protocols down. Nothing obliges a daemon to
  connect, to disconnect or to exit by itself.

- `Imond`: its process runs (`ReadInfo`, `ReadChannel`); select() times out
  when nothing happens (`Poll`, disabled while `/dev/isdninfo` is readable). No
  fairness for the kernel, the clock and the clients.
- `KernelModules`, `Libraries`: a program runs on. The other modules in C have
  no liveness property.

## 5. Proofs

TLC explores the instances of section 3; the theorems hold for every value of
the constants that the named assumptions of the modules allow. Those
assumptions only type the constants, with few exceptions: the sets that are
counted are finite (`Proc`, `Clients`: processes of one machine), `MaxTime` is
at least 3 (the model starts at time 2), a configuration of imond has a line,
charge intervals are positive (to the code, 0 means the same as 1), and the
null values are not
elements of the sets they stand beside. TLC evaluates the assumptions on each
instance. Where a theorem has a hypothesis of its own, it is named below.

Each proof has the same outline. The property is not inductive, because it says
nothing of the states in the middle of an operation. The module defines an
invariant that does, proves that it holds initially and that every action
keeps it, action by action, and derives the properties from it.

### 5.1 Exclusive lock

`SyncLockProofs`, for any processes, resources and nesting:

- `TypeCorrect`, `Exclusion`, `Agreement`, `Released`: the four safety
  properties the run `sync_lock` checks on its instance;
- `Implements`: every behaviour of `SyncLock` is a behaviour of `AbstractLock`.

The invariant `LockInv` says for every value of `pc` how the link, the PID file
and the list of the process differ while it is at that command (for instance,
between `WriteCount` and `AppendToList` the file counts one more than the list),
that a process that is not at work on a resource has its three records in
agreement, and that what is not one's own link is not touched. Exclusion follows
because a positive list entry implies that the link names the process, and the
link names one process only.

### 5.2 Reader/writer lock

`RWLockProofs`, for any processes and nesting. Wherever signals strike,
including the places of finding 2:

- `TypeCorrect`: no count falls below zero;
- `Exclusion`: `WriterAlone`; `Preference`: `WritersPreferred`.

If signals spare the commands that leave a file and a list apart
(`SafeSignals`, which the runs `rw_lock` and `rw_lock_live` satisfy and
`rw_lock_signal` does not):

- `Agreement`, `WaitingCounted`, `Released`: `CountsAgree`, `WaitingIsExact`,
  `NothingLeftBehind`;
- `Implements`: the refinement of `AbstractRWLock`.

The invariant `RWInv` has one part per process, the difference between its own
files and its lists at each command, and one for the two shared counts, which it
compares with the cardinalities of the sets of processes that read and that
poll. After a signal at an unsafe point these are inequalities: the files count
at least as many as there are, never fewer, and exclusion needs no more. So the
finding costs progress but never exclusion. Promotion is why the writer may
itself be counted as a reader: `Excluded` says that the readers are a subset of
the set of the writer.

### 5.3 MOM

`MomProofs`, for any number of clients and calls, with timeouts at any moment:

- `MomTypeCorrect`; `OwnReply`: `ReplyMatchesCall`; `AnsweredOnce`:
  `OneReplyPerCall`, all of them also if a timer kills the reader of a byte;
- `BytesMatchMessages`: `OneBytePerMessage`, if it does not
  (`KillWindow = FALSE`; finding 3 is what happens otherwise).

A late reply stays in the queue of its client while the next call is made; what
protects that call is the number in the message. `Known` says of every request
and reply, wherever it is, that its number has been given out, that its call has
been made, and that it carries the number the client waits for only if it is
about the present call. `Once` says that a call is in one place at a time.
`BytesAgree` counts the bytes of an endpoint in four places: in the FIFO, in the
hands of `mom_do_wakeup`, read but not yet used, and owed by a sender that has
queued its message. It is an inequality when the timer may strike, an equality
otherwise.

### 5.4 circd

`CircdProofs`, for any circuits, order, dependencies, protocols, daemons and
commands, and whatever the bounds are:

- `CircdTypeCorrect`: the stack of calls and the inbox hold only calls and
  messages their functions are written for;
- `RouterAgrees`: `RouterStateAgrees`, at every step between two calls;
- `NothingDialledWhenOff`: `NoDialWhenOff`.

`RouterStateAgrees` is inductive together with the type invariant:
`circd_change_state` is the only function that writes either side, and updates
the router state from the states it has just written. `NoDialWhenOff` is not a
consequence of the guards alone: the mode is looked at in `HandleDialup`,
`DoReact` or `DoModeChange`, and `operation` becomes "dial" only in `Dialled`,
after any number of other calls. The invariant `CircdInv` therefore says
of every call on the stack that it still fits the modes (`FitsModes`): what is
to be dialled has a mode other than off, and the mode a `mode_change` carries is
the current one. Calls leave the modes alone, and `HandleSetMode`, which changes
them, starts with an empty stack and fills it with calls that fit.

Under the hypothesis `WholeCircuits`, that circuits depend on whole circuits,
strongly or weakly, and not on single protocols of them:

- `DependenciesKept`: `DependenciesHonoured`;
- `NoneForgotten`: `NoCircuitForgotten`.

Both are about the moments at which no handler runs, and are wrong in between for
the circuits the loops on the stack have not yet reached. Scripts may fail, daemons
may die, and circuits may depend on themselves and on each other. `DepsInv`
(`DependenciesInvariance`) says what is still to come:

- `Honoured` and `Remembered` are the two properties, unless a call on the stack
  is going to look at the circuit: as the circuit of this or of a later round of
  `circd_handle_state_change`, or because its mode has become "auto" (`Attends`).
- Such a call can be in vain, if what the circuit depends on is being hung up
  when its turn comes. Then either nobody owes the circuit anything, or what it
  depends on has been decided to dial again, which ends its hangup: `MetSoon`
  counts such a dependency as met, and `LooksAgain` says that those who depend
  on it are looked at once more below that dial.
- `DialsSupported` says that what has been decided to dial keeps its
  dependencies until it is dialled, and `HeadFits` that the running call
  finds the circuit as its caller left it.
- A circuit that leaves its operation (`HungUp`, `NotDialled`) must not take a
  hangup with it that somebody has ordered in between. `PutAlone` and
  `PutsKept`: there is one such circuit at a time; if it has been dialled
  again by a call above, it is up with all it depends on and nothing
  disturbs it; if it has not, only rounds of its own loop are left, and no
  circuit that depends on it can be dialled. `HangupsEnd` says that no other
  circuit stays in a hangup once it is down.

The hypothesis is needed. For a dependency on a single protocol both are wrong:
when the last protocol goes down while the daemon runs on, circd finalises a
hangup that nobody has begun (`circd` 1533), `circd_finalize_hangup` waits for the
daemon (1616-1622), and as the state has not changed, the dependents are not
looked at.

`CircdLifeProofs`, for the same constants, under the hypothesis `NoScriptFails`:
`MaxFailures = 0`, and if any script asks for the dial mode, the mode is not off at
boot and no command switches it off. Finding 4 is what happens when scripts fail by
themselves. The run `circd` goes further in one respect: its commands do switch
the mode off while a script asks for it.

- `NeverTwoDaemons`: `OneDaemon`;
- `CircuitsLive`: every behaviour of `Circd` is a behaviour of
  `AbstractCircuit`;
- `InactiveStaysDown`: `InactiveNotDialled`, so a failing script is the only way to
  finding 4.

The invariant `LifeInv` follows a dial on its way: a call on the stack
(`Decided`), a message to the queue process (`Queued`), a running script, a
question for the dial mode and its answer, a message that asks for the daemon
(`Asked`). `Permitted` says that the answer is never "off". A circuit has at most one dial on its
way (`OneDial`), and as long as it has one, it has no session: no registered
daemon, no protocol up (`DialFirst`); a circuit that is not up has neither
(`Waiting`). What endangers this, and what the other parts are for:

- circd may know less than the daemons do. `Registrations` says that a daemon circd
  has not seen the end of is registered, `Announced` that circd will know a
  protocol to be up when it has read its messages, `Backed` that a report
  is backed by a daemon whose end is reported later. So if
  `circd_finalize_hangup` goes on, there is nothing left of the circuit.
- A hangup that overtook the dial would find no interface, and fail.
  `Interface` says that a hangup in a queue comes after the dial that finds it.
- A nested call may hang up or put back a circuit whose dial has been decided by a
  call further down the stack. `Ordered` says which calls may be above a decided
  dial: only further dials, and rounds of `circd_handle_state_change` for circuits
  that the one to be dialled does not depend on; `Chains` that what it depends on
  stays up in the meantime, and that a circuit that depends on itself is never
  up. `HeadRight` is what the running call relies on; the steps of
  `AbstractCircuit` are read off from it.

### 5.5 imond

`ImondProofs`, for any number of channels, circuits, lines of `imond.conf`, and
any events of the kernel, the clock and the clients:

- `ImondTypeCorrect`;
- `OnlineAgreed`: `OnlineAgrees`, `online_counter` is the number of connections;
- `ChargesRise`: `ChargeNeverFalls`;
- `LinksInTime`: `LinkAddedInTime`. When the loop adds a link, channel 0 was last
  measured below the limit `bandwidth_time` ago or earlier. That is less than "the
  bandwidth was exceeded throughout": nothing is measured while the channel is
  offline or transfers nothing, and `time_bandwidth_higher` is kept meanwhile.

`OnlineAgrees` compares a counter, which `NewConnection`, `HungUp` and the
commands on links change by one, with a cardinality. The lemmas `FirstIn` and
`Found` are why one new connection changes one circuit: `find_conf_data` returns
a line of a circuit that is not online. `ChargeNeverFalls` rests on the
monotonicity of the integer division by the charge interval and on `Times`: no
time the program keeps is later than now, unless the clock has been set, which
moves some of the times and not others. `Times` also gives `LinkAddedInTime`: the
rate has been high since `time_bandwidth_higher` at the latest, and low for the
last time at that moment or before.

`ProgramsProofs`, for any number of slots, any passwords and any years of our
era:

- `RightsAreEarned`: `RightsEarned`. The invariant adds that the two passwords
  differ, which `main()` sees to.
- `HolidaysAreRight`: `HolidaysRight`. The invariant says only which year the
  holidays kept are those of. The work is in the arithmetic: `FullMoonRight`
  shows that Gauss's `D`, with its two exceptions, is the full moon of the epact
  with its two exceptions; `SundayRight` that `e` leads to the sunday after it;
  `EasterIs` that no other day is easter; `DaysAdded` that `add_days` changes the
  number of a day by what it is to add, across the ends of the months, leap year
  or not; and `DatesDiffer` that no two dates of the spring have one number. The
  run goes through 230 years; the rule repeats itself only after 5,700,000.

### 5.6 mkfli4l

`MkfliProofs`, for any entries, keys and hash function, with and without a
destructor:

- `MapTypeCorrect`; `FreeListsExact`: `FreeListExact`;
- `MapImplements`: every behaviour of `HashMap` is a behaviour of
  `AbstractMap`.

The hypothesis `RealEntries` says that a null pointer is not an entry and that a
program has finitely many entries. `MapInv` adds to the free list that
an entry is in the bucket its key hashes to, that no key is there twice, and
that the count of a bucket is the number of its entries. `hashmap_size` adds up
these counts; that the sum over the buckets is the number of all entries is an
induction, which the provers cannot apply as such. The proof takes a smallest
set of buckets for which the sum were wrong (sets of numbers have a least
element) and removes one bucket from it.

`MkfliProofs`, for any files, directories, sonames, needs and choices:

- `LibrariesRight`: when the search has ended, `PlacedRight`, the safety part of
  `LibrariesPlaced`.

The hypothesis `RealFiles` says that NULL is not a file, that there are finitely
many files, that packages choose archives for them, that `Shipped` are ELF files,
and that links need nothing themselves. `LibsInv` is about a search in which
nothing has been missed so far. What makes it difficult: the code goes through
the needs of every primary file, but moves only what is in a later archive than
this file, and it looks neither at secondary files (those it has added itself)
nor again at a primary file that is moved after its turn. So a file is `Settled`
(its needs are found and lie no later than itself) unless it waits for its turn,
or is on the stack of a root in its own archive; a root in an earlier archive
moves the whole of what the file brings with it, and the calls on the stack
(`DoneFor`) remember how far that is done. At the end nothing waits and the stack
is empty: everything is settled. `PlacedFor` is the other half: nothing is ever
put where no chosen file needs it.

`ProgramsProofs`, for any number of modules with any dependencies:

- `ModulesEndRight`: at the end, `PlacedRight`, the safety part of
  `ModulesPlaced`. As long as no module has been moved in this round, the
  modules behind `i` are `Settled`; a move makes another round necessary. A
  module lies where some chosen module needs it (`PlacedFor`), and a chosen
  one no later than it was chosen (`PlacedInTime`).

The properties compare with `Needs` and `Brings`, which are the smallest sets
closed under dependency. The proofs need no induction along the dependencies:
they show that what is placed early enough is such a set (`ModulesWanted`,
`LibsPlaced`).

`ProgramsProofs` also applies the theorems of `MkfliProofs` to the composition:
`MapIsAbstract` is `MapAgrees`, `LibrariesEndRight` is `LibrariesRight`, and
`ProgramsWellFormed` is `WellFormed`. The assumption `ProgramsAssumption` says
that the values that stand for NULL are no passwords, entries or files, that
years are positive, and that a module is either listed or not.

### 5.7 What is only model-checked

Every safety property and every refinement the runs check is proved. What is left
to TLC:

- Liveness, for which the provers would have to reason about fairness and ENABLED:
  `ExitTrapEnds`, `WritersNotStarved`, `PatientAnswered`, `CallsEnd`, `HangupEnds`,
  `RouteFollowed`. Of `ModulesPlaced` and `LibrariesPlaced` this is that the search
  ends; what it has found when it ends is proved.
- `OneDaemon` of `Circd` and the refinement of `AbstractCircuit` where a script that
  asks for the dial mode is refused (run `circd`). Where scripts fail by themselves,
  both are wrong (finding 4).

## 6. Findings

1. *A lock can outlive its owner* (`sync_lock_leak`). Between `trap - ...` and
   `eval "$traps"` (`locking.inc` 67-68, 75-76, 151-152) no trap is installed. A
   SIGINT or SIGTERM there ends the script without its exit trap, and the lock
   stays; nothing detects stale locks.
2. *A dead writer locks out readers* (`rw_lock_signal`). A writer that is
   terminated while it polls (`locking.inc` 362) stays counted in
   writers-waiting.
3. *A timeout can strand a message* (`mom_timeout`). The timer's own `kill -9`
   (`mom/core` 978) can strike in the window that the comment at 983-990
   describes and closes for other signals.
4. *An inactive circuit is dialled* (`circd_redial`). If a dial script fails
   while a deactivation of its circuit is under way, circd dials once more, and
   the dial runs after the deactivation is complete. In the same way a circuit can
   be dialled twice: with `MaxFailures = 1`, TLC finds `OneDaemon` and the
   refinement of `AbstractCircuit` violated on the instance of `circd`, too, and
   on one circuit with three commands
   `HangupEnds`: the second daemon has replaced the registration of
   the first, which no hangup ends any more. So `circd` has `MaxFailures = 0`,
   and these three properties are stated for scripts that do not fail by
   themselves.
5. *A shutdown can hang* (`circd_shutdown`). `stop_service` during a dial script
   leaves the circuit ready, without a daemon and without anybody who will
   finalise its hangup; `rc495.services` gives up after 30 seconds.

## 7. Plan

Done: the locks, MOM, the core of circd, the core of imond and of the archive
construction of mkfli4l. To come, in this order:

1. `Circd`: circuits without a daemon (net, route), whose ip-up and ip-down
   scripts run in the background and may overtake each other; bundles, link
   events and forced hangups; clones and the state "deleted". A composition of
   bundles would be a module of its own (`CircuitLifecycle`: creation groups,
   clones, reference counts, removal).
2. `StateWait`: `fli4lctrl wait`, which reads the state, then registers its
   handler, then sends itself the state it has read.
3. `CircuitLocks`: several circuits and several processes with `circuit_lock`;
   the locks in the order the code takes them; freedom from deadlock.
4. `Mom`: broadcast, re-creation of an endpoint of the same name, senders that
   die in `mom_queue_message`.
5. Persistence: `circd_save_state`, `circd_restore_state`, restart.
6. The prefix database with `atd.sh`.

## 8. Not modelled

- Circuit types without a daemon, bundles, link events, clones, classes,
  aliases, creation and removal, persistence, prefixes, `wait`, broadcast: see
  the plan.
- Helpers for strings and lists, generation of firewall rules, resolver and
  radvd configuration, the netlink bridge: sequential text processing or pure
  conversion.
- imond: byte counts and rates per second, the log file, the beeper, transfer of
  files, reboot and halt, the dial mode and `enable`, `disable`, which it only
  hands on to fli4lctrl, and the listings. `delete`, `reset` of logs and the
  like only touch files. In `Calendar` the year does not change within
  `add_days`, because holidays lie between march and june.
- mkfli4l: in `Libraries` one file of a directory has a soname, adding a file
  does not fail, and libraries do not need each other in a circle (the code would
  not return). Only a symbolic link that stands in for a library is moved, not
  what it points to. Reading `modules.dep` and ELF files, options of files,
  aliases and writing the archives are left out.
- The configuration language of mkfli4l (lexers, parser, checks, many of them in
  generated files), the vendored headers and tools next to it, display clients
  such as imonc, and copies that are not built (imond-dev, fli4ld): these are
  most of the C code of the repository, and hold sequential text processing,
  input and output. The concurrent logic is in shell scripts, whose files have
  no suffix. So the mapped share of all lines of C stays small.
- Locks: two readers that promote their locks at once without the guarding
  exclusive lock, which would wait for each other (`locking.inc` 204); no run has
  that, since the guard is a precondition of `CallWriteLock`.
- MOM: the timer of `mom_do_wakeup` (section 2.3).
- imond: an `isdninfo` that stays readable for ever, so that `check_routing` is put
  off again and again: the events of the kernel are bounded, and `Tick` takes one
  check of the route in every hour for granted. `RouteFollowed` is about single
  readings.
- SIGKILL, loss of power (the locks are on a RAM disk, nothing of it survives)
  and reuse of process identifiers by unrelated processes.
- A second signal, or one during the exit trap.
