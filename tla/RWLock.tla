------------------------------- MODULE RWLock -------------------------------
(***************************************************************************)
(* The reader/writer lock of boot.d/locking.inc, for one resource r.       *)
(*                                                                         *)
(* Its state is four kinds of files in /var/lock/rwlock, all of them read  *)
(* and written under the exclusive lock "r:mutex": readers-active (how     *)
(* many processes read), readers-active.PID (how often PID has locked for  *)
(* reading), writer-active (the writer and how often it has locked) and    *)
(* writers-waiting (how many processes poll for the write lock).  Each     *)
(* process keeps two lists of what its exit trap must unlock.              *)
(*                                                                         *)
(* The exclusive locks, r:mutex and the one that guards promotions, are    *)
(* taken and released in one step: SyncLock shows that they can be.  The   *)
(* rest is one action per command that changes a file or a list, because a *)
(* signal can strike between any two of them.  pc[p] is what p does next:  *)
(*   run                              the script's own code                *)
(*   rlock  rtest rsleep rown ractive rinc rlist                           *)
(*                                    sync_lock_resource_for_reading       *)
(*   runlock rdec ractivedec rdrop    sync_unlock_resource_for_reading     *)
(*   wlock  wtake wsleep wtest wdec wlist                                  *)
(*                                    sync_lock_resource_for_writing       *)
(*   wunlock wfree wdrop              sync_unlock_resource_for_writing     *)
(*   release                          their last unlock of the mutex       *)
(*   exit dead                        the exit trap                        *)
(***************************************************************************)
EXTENDS Naturals, FiniteSets

CONSTANTS Proc,          \* shell processes
          NoProc,        \* nobody
          Writers,       \* the processes that lock for writing
          SignalPoints,  \* where a terminating signal may strike
          MaxDepth       \* bound: nesting of one kind of lock

Label == {"run", "rlock", "rtest", "rsleep", "rown", "ractive", "rinc",
          "rlist", "runlock", "rdec", "ractivedec", "rdrop", "wlock",
          "wtake", "wsleep", "wtest", "wdec", "wlist", "wunlock", "wfree",
          "wdrop", "release", "exit", "dead"}

(* A signal at one of these points leaves files and lists in disagreement  *)
(* for ever: a file is already changed and the list is not, or the process *)
(* is counted in writers-waiting, which no list records.                   *)
Vulnerable == {"ractive", "rlist", "ractivedec", "rdrop", "wsleep", "wtest",
               "wdec", "wlist", "wdrop"}

ASSUME RWLockAssumption == /\ NoProc \notin Proc
                           /\ IsFiniteSet(Proc)
                           /\ Writers \subseteq Proc
                           /\ SignalPoints \subseteq Label \ {"exit", "dead"}
                           /\ MaxDepth \in Nat

VARIABLES mutex,      \* the owner of r:mutex
          guard,      \* the owner of the exclusive lock r of circuit_lock
          readers,    \* readers-active, 0 = empty or missing
          own,        \* own[p]: readers-active.PID, 0 = missing
          writer,     \* the process named in writer-active, or NoProc
          depth,      \* the count in writer-active
          waiting,    \* writers-waiting, 0 = empty or missing
          rheld,      \* rheld[p]: occurrences in sync_read_locked_resources
          wheld,      \* wheld[p]: occurrences in sync_write_locked_resources
          pc,
          exiting     \* exiting[p]: p is running its exit trap

files == <<readers, own, writer, depth, waiting>>
lists == <<rheld, wheld>>
vars == <<mutex, guard, files, lists, pc, exiting>>

TypeOK == /\ mutex \in Proc \cup {NoProc}
          /\ guard \in Proc \cup {NoProc}
          /\ readers \in Nat
          /\ own \in [Proc -> Nat]
          /\ writer \in Proc \cup {NoProc}
          /\ depth \in Nat
          /\ waiting \in Nat
          /\ rheld \in [Proc -> Nat]
          /\ wheld \in [Proc -> Nat]
          /\ pc \in [Proc -> Label]
          /\ exiting \in [Proc -> BOOLEAN]

Init == /\ mutex = NoProc
        /\ guard = NoProc
        /\ readers = 0
        /\ own = [p \in Proc |-> 0]
        /\ writer = NoProc
        /\ depth = 0
        /\ waiting = 0
        /\ rheld = [p \in Proc |-> 0]
        /\ wheld = [p \in Proc |-> 0]
        /\ pc = [p \in Proc |-> "run"]
        /\ exiting = [p \in Proc |-> FALSE]

At(p, l) == pc[p] = l
Goto(p, l) == pc' = [pc EXCEPT ![p] = l]

(* One command that changes nothing but the files, and the next one *)
Step(p, from, to) == /\ At(p, from)
                     /\ Goto(p, to)
                     /\ UNCHANGED <<guard, exiting>>

-----------------------------------------------------------------------------
(* The calls of the script *)

CallReadLock(p) ==
  /\ rheld[p] < MaxDepth
  /\ wheld[p] > 0 => rheld[p] > 0   \* no caller reads what it only writes
  /\ Step(p, "run", "rlock")
  /\ UNCHANGED <<mutex, files, lists>>

(* A reader asks for the write lock only if it holds the exclusive lock    *)
(* that guards the resource, as the comment on promotion demands and       *)
(* circuit_lock arranges.                                                  *)
CallWriteLock(p) ==
  /\ p \in Writers
  /\ wheld[p] < MaxDepth
  /\ rheld[p] > 0 => guard = p
  /\ Step(p, "run", "wlock")
  /\ UNCHANGED <<mutex, files, lists>>

CallReadUnlock(p) ==
  /\ rheld[p] > 0
  /\ Step(p, "run", "runlock")
  /\ UNCHANGED <<mutex, files, lists>>

CallWriteUnlock(p) ==
  /\ wheld[p] > 0
  /\ Step(p, "run", "wunlock")
  /\ UNCHANGED <<mutex, files, lists>>

(* circuit_lock takes the guard first, circuit_unlock releases it last. *)
LockGuard(p) ==
  /\ At(p, "run")
  /\ p \in Writers
  /\ guard = NoProc
  /\ rheld[p] = 0 /\ wheld[p] = 0
  /\ guard' = p
  /\ UNCHANGED <<mutex, files, lists, pc, exiting>>

UnlockGuard(p) ==
  /\ At(p, "run")
  /\ guard = p
  /\ rheld[p] = 0 /\ wheld[p] = 0
  /\ guard' = NoProc
  /\ UNCHANGED <<mutex, files, lists, pc, exiting>>

-----------------------------------------------------------------------------
(* sync_lock_resource "$1:mutex", then the first test of each function *)

Entry == [rlock |-> "rtest", rsleep |-> "rtest", runlock |-> "rdec",
          wlock |-> "wtake", wsleep |-> "wtest", wunlock |-> "wfree"]

TakeMutex(p) ==
  /\ pc[p] \in DOMAIN Entry
  /\ mutex = NoProc
  /\ mutex' = p
  /\ Goto(p, Entry[pc[p]])
  /\ UNCHANGED <<guard, files, lists, exiting>>

Release(p) ==
  /\ Step(p, "release", IF exiting[p] THEN "exit" ELSE "run")
  /\ mutex' = NoProc
  /\ UNCHANGED <<files, lists>>

-----------------------------------------------------------------------------
(* sync_lock_resource_for_reading *)

(* Faulty variant, for validating the properties: waiting writers are not  *)
(* respected.                                                              *)
FaultyMustWaitToRead == writer # NoProc

MustWaitToRead == writer # NoProc \/ waiting > 0

(* A process that already reads does not wait; another one polls until     *)
(* there is neither a writer nor somebody waiting to write.                *)
TestRead(p) ==
  /\ \/ own[p] > 0 /\ Step(p, "rtest", "rinc") /\ UNCHANGED mutex
     \/ /\ own[p] = 0 /\ MustWaitToRead
        /\ Step(p, "rtest", "rsleep")
        /\ mutex' = NoProc
     \/ /\ own[p] = 0 /\ ~MustWaitToRead
        /\ Step(p, "rtest", "rown")
        /\ UNCHANGED mutex
  /\ UNCHANGED <<files, lists>>

FirstRead(p) ==
  /\ Step(p, "rown", "ractive")
  /\ own' = [own EXCEPT ![p] = 1]
  /\ UNCHANGED <<mutex, readers, writer, depth, waiting, lists>>

CountReader(p) ==
  /\ Step(p, "ractive", "rlist")
  /\ readers' = readers + 1
  /\ UNCHANGED <<mutex, own, writer, depth, waiting, lists>>

(* Faulty variant: a nested lock counts as another reader. *)
FaultyReadAgain(p) ==
  /\ Step(p, "rinc", "rlist")
  /\ own' = [own EXCEPT ![p] = @ + 1]
  /\ readers' = readers + 1
  /\ UNCHANGED <<mutex, writer, depth, waiting, lists>>

ReadAgain(p) ==
  /\ Step(p, "rinc", "rlist")
  /\ own' = [own EXCEPT ![p] = @ + 1]
  /\ UNCHANGED <<mutex, readers, writer, depth, waiting, lists>>

ListRead(p) ==
  /\ Step(p, "rlist", "release")
  /\ rheld' = [rheld EXCEPT ![p] = @ + 1]
  /\ UNCHANGED <<mutex, files, wheld>>

-----------------------------------------------------------------------------
(* sync_unlock_resource_for_reading *)

(* Faulty variant: a nested unlock makes the process no reader. *)
FaultyUncountRead(p) ==
  /\ Step(p, "rdec", IF own[p] = 0 THEN "release" ELSE "ractivedec")
  /\ own' = [own EXCEPT ![p] = IF @ = 0 THEN 0 ELSE @ - 1]
  /\ UNCHANGED <<mutex, readers, writer, depth, waiting, lists>>

(* An error, which leaves the list as it is, if p does not read *)
UncountRead(p) ==
  /\ \/ own[p] = 0 /\ Step(p, "rdec", "release") /\ UNCHANGED own
     \/ own[p] = 1 /\ Step(p, "rdec", "ractivedec") /\ own' = [own EXCEPT ![p] = 0]
     \/ own[p] > 1 /\ Step(p, "rdec", "rdrop") /\ own' = [own EXCEPT ![p] = @ - 1]
  /\ UNCHANGED <<mutex, readers, writer, depth, waiting, lists>>

UncountReader(p) ==
  /\ Step(p, "ractivedec", "rdrop")
  /\ readers' = readers - 1
  /\ UNCHANGED <<mutex, own, writer, depth, waiting, lists>>

(* Faulty variant: the list is forgotten. *)
FaultyDropRead(p) ==
  /\ Step(p, "rdrop", "release")
  /\ UNCHANGED <<mutex, files, lists>>

(* Faulty variant: every occurrence is deleted from the list. *)
FaultyDropAllReads(p) ==
  /\ Step(p, "rdrop", "release")
  /\ rheld' = [rheld EXCEPT ![p] = 0]
  /\ UNCHANGED <<mutex, files, wheld>>

DropRead(p) ==
  /\ Step(p, "rdrop", "release")
  /\ rheld' = [rheld EXCEPT ![p] = @ - 1]
  /\ UNCHANGED <<mutex, files, wheld>>

-----------------------------------------------------------------------------
(* sync_lock_resource_for_writing *)

(* Faulty variant: a single reader is never in the way. *)
FaultyCanTakeWriteLock(p) == readers <= 1

(* sync_can_take_write_lock *)
CanTakeWriteLock(p) == readers = 0 \/ (own[p] > 0 /\ readers = 1)

BecomeWriter(p) == writer' = p /\ depth' = 1

TakeOrWait(p) ==
  /\ \/ /\ writer = p
        /\ depth' = depth + 1
        /\ Step(p, "wtake", "wlist")
        /\ UNCHANGED <<writer, waiting, mutex>>
     \/ /\ writer = NoProc /\ CanTakeWriteLock(p)
        /\ BecomeWriter(p)
        /\ Step(p, "wtake", "wlist")
        /\ UNCHANGED <<waiting, mutex>>
     \/ /\ writer # p
        /\ writer # NoProc \/ ~CanTakeWriteLock(p)
        /\ waiting' = waiting + 1
        /\ Step(p, "wtake", "wsleep")
        /\ mutex' = NoProc
        /\ UNCHANGED <<writer, depth>>
  /\ UNCHANGED <<readers, own, lists>>

(* Faulty variant: the poll does not look at the other writer. *)
FaultyTestWrite(p) ==
  /\ \/ /\ CanTakeWriteLock(p)
        /\ BecomeWriter(p)
        /\ Step(p, "wtest", "wdec")
        /\ UNCHANGED mutex
     \/ /\ ~CanTakeWriteLock(p)
        /\ Step(p, "wtest", "wsleep")
        /\ mutex' = NoProc
        /\ UNCHANGED <<writer, depth>>
  /\ UNCHANGED <<readers, own, waiting, lists>>

TestWrite(p) ==
  /\ \/ /\ writer = NoProc /\ CanTakeWriteLock(p)
        /\ BecomeWriter(p)
        /\ Step(p, "wtest", "wdec")
        /\ UNCHANGED mutex
     \/ /\ writer # NoProc \/ ~CanTakeWriteLock(p)
        /\ Step(p, "wtest", "wsleep")
        /\ mutex' = NoProc
        /\ UNCHANGED <<writer, depth>>
  /\ UNCHANGED <<readers, own, waiting, lists>>

(* Faulty variant: the writer goes on being counted as waiting. *)
FaultyStopWaiting(p) ==
  /\ Step(p, "wdec", "wlist")
  /\ UNCHANGED <<mutex, files, lists>>

StopWaiting(p) ==
  /\ Step(p, "wdec", "wlist")
  /\ waiting' = waiting - 1
  /\ UNCHANGED <<mutex, readers, own, writer, depth, lists>>

ListWrite(p) ==
  /\ Step(p, "wlist", "release")
  /\ wheld' = [wheld EXCEPT ![p] = @ + 1]
  /\ UNCHANGED <<mutex, files, rheld>>

-----------------------------------------------------------------------------
(* sync_unlock_resource_for_writing *)

FreeWrite(p) ==
  /\ \/ /\ writer # p
        /\ Step(p, "wfree", "release")
        /\ UNCHANGED <<writer, depth>>
     \/ /\ writer = p
        /\ depth' = depth - 1
        /\ writer' = IF depth' = 0 THEN NoProc ELSE p
        /\ Step(p, "wfree", "wdrop")
  /\ UNCHANGED <<mutex, readers, own, waiting, lists>>

DropWrite(p) ==
  /\ Step(p, "wdrop", "release")
  /\ wheld' = [wheld EXCEPT ![p] = @ - 1]
  /\ UNCHANGED <<mutex, files, rheld>>

-----------------------------------------------------------------------------
(* The end of a script: at its last command or by a signal.  Bound: one    *)
(* signal per process, none during the exit trap.                          *)

Exit(p) ==
  /\ At(p, "run")
  /\ Goto(p, "exit")
  /\ exiting' = [exiting EXCEPT ![p] = TRUE]
  /\ UNCHANGED <<mutex, guard, files, lists>>

Signal(p) ==
  /\ pc[p] \in SignalPoints
  /\ ~exiting[p]
  /\ Goto(p, "exit")
  /\ exiting' = [exiting EXCEPT ![p] = TRUE]
  /\ UNCHANGED <<mutex, guard, files, lists>>

(* sync_unlock_all_resources: first the exclusive locks, then all write    *)
(* locks, then all read locks, each loop until its list is empty.          *)
UnlockAll(p) ==
  /\ At(p, "exit")
  /\ IF p \in {mutex, guard}
     THEN /\ mutex' = IF mutex = p THEN NoProc ELSE mutex
          /\ guard' = IF guard = p THEN NoProc ELSE guard
          /\ UNCHANGED pc
     ELSE /\ Goto(p, IF wheld[p] > 0 THEN "wunlock"
                     ELSE IF rheld[p] > 0 THEN "runlock" ELSE "dead")
          /\ UNCHANGED <<mutex, guard>>
  /\ UNCHANGED <<files, lists, exiting>>

-----------------------------------------------------------------------------

Library(p) ==
  \/ TakeMutex(p) \/ Release(p)
  \/ TestRead(p) \/ FirstRead(p) \/ CountReader(p) \/ ReadAgain(p) \/ ListRead(p)
  \/ UncountRead(p) \/ UncountReader(p) \/ DropRead(p)
  \/ TakeOrWait(p) \/ TestWrite(p) \/ StopWaiting(p) \/ ListWrite(p)
  \/ FreeWrite(p) \/ DropWrite(p)
  \/ UnlockAll(p)

Script(p) ==
  \/ CallReadLock(p) \/ CallWriteLock(p) \/ CallReadUnlock(p)
  \/ CallWriteUnlock(p) \/ LockGuard(p) \/ UnlockGuard(p)
  \/ Exit(p)

Next == \E p \in Proc : Library(p) \/ Script(p) \/ Signal(p)

Spec == Init /\ [][Next]_vars

(* The kernel schedules every process; a process that polls for the mutex, *)
(* which is never kept for long, finds it free one day; scripts leave      *)
(* their read and write sections and release the guard.  With MaxDepth = 1 *)
(* an unlock ends a section; with nested locks it need not, which is why   *)
(* liveness is checked for MaxDepth = 1 only.                              *)
FairSpec ==
  /\ Spec
  /\ \A p \in Proc :
       /\ WF_vars(Library(p))
       /\ SF_vars(TakeMutex(p))
       /\ SF_vars(CallReadUnlock(p))
       /\ SF_vars(CallWriteUnlock(p))
       /\ WF_vars(UnlockGuard(p))

-----------------------------------------------------------------------------

InRead(p) == At(p, "run") /\ rheld[p] > 0
InWrite(p) == At(p, "run") /\ wheld[p] > 0

(* While a script is in a write section, no other one is in a read or a    *)
(* write section.                                                          *)
WriterAlone ==
  \A p, q \in Proc : InWrite(p) /\ (InRead(q) \/ InWrite(q)) => p = q

(* Whenever nobody is changing them, readers-active is the number of       *)
(* processes that have a readers-active.PID file, and those files and      *)
(* writer-active count what the processes' lists hold.                     *)
CountsAgree ==
  mutex = NoProc =>
    /\ readers = Cardinality({p \in Proc : own[p] > 0})
    /\ \A p \in Proc : own[p] = rheld[p]
    /\ \A p \in Proc : wheld[p] = IF writer = p THEN depth ELSE 0

(* writers-waiting counts the processes that are polling for the write     *)
(* lock.  New readers wait until it is 0, so a count that is too high      *)
(* locks them out for good: "subsequent readers are forced to wait until   *)
(* the writer has acquired (and later released) the lock".                 *)
WaitingIsExact ==
  waiting = Cardinality({p \in Proc : pc[p] \in {"wsleep", "wtest", "wdec"}})

(* A process that wants to read is held up only by a process that has the  *)
(* write lock, polls for it or is just ending.  Refuted if a signal may    *)
(* end the poll: the comment says that readers wait "until the writer has  *)
(* acquired (and later released) the lock", which a dead one never does.   *)
OnlyWritersHoldUpReaders ==
  MustWaitToRead => \E p \in Proc :
                      /\ ~At(p, "dead")
                      /\ \/ writer = p
                         \/ pc[p] \in {"wsleep", "wtest", "wdec"}
                         \/ exiting[p]

(* "Writers are preferred": while a writer waits, nobody becomes a reader  *)
(* who is not one yet.                                                     *)
WritersPreferred ==
  [][\A p \in Proc : own[p] = 0 /\ own'[p] > 0 => waiting = 0 /\ writer = NoProc]_vars

(* Nothing is left behind by a process that is gone. *)
NothingLeftBehind ==
  \A p \in Proc : pc[p] = "dead" => own[p] = 0 /\ writer # p /\ mutex # p /\ guard # p

(* "This avoids writer starvation": if somebody waits to write, somebody   *)
(* gets to write, or gives up.                                             *)
WritersNotStarved ==
  (waiting > 0) ~> (writer # NoProc \/ waiting = 0)

(* The loops of the exit trap end. *)
ExitTrapEnds == \A p \in Proc : exiting[p] ~> At(p, "dead")

(* The promise to the callers. *)
Abs == INSTANCE AbstractRWLock
         WITH rd <- own, wr <- [p \in Proc |-> IF writer = p THEN depth ELSE 0]

AbsSpec == Abs!Spec

=============================================================================
