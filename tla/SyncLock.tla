------------------------------ MODULE SyncLock ------------------------------
(***************************************************************************)
(* The exclusive, recursive lock of boot.d/locking.inc.                    *)
(*                                                                         *)
(* A resource r is locked by the symbolic link fli4l-r.lock, created with  *)
(* "ln -s", which fails when the link exists.  The link points to the      *)
(* owner's PID file, which holds how often the owner has locked r.  Each   *)
(* process also keeps the list sync_locked_resources, from which its exit  *)
(* trap releases whatever it still holds.                                  *)
(*                                                                         *)
(* One action per shell command that touches shared files or the signal    *)
(* dispositions; commands that only touch the process's own variables are  *)
(* merged with the next one.  pc[p] is the next command of p:              *)
(*   run      the script's own code, outside the library                   *)
(*   ln who write append       sync_try_lock_resource                      *)
(*   refuse sleep              its failure path, and the usleep between    *)
(*                             two tries of sync_lock_resource             *)
(*   get read dec rmlink rmpid drop    sync_unlock_resource                *)
(*   restore  after "trap -", before the saved traps are installed again   *)
(*   exit dead                 sync_unlock_all_resources in the exit trap  *)
(*   killed   gone without running the exit trap                           *)
(***************************************************************************)
EXTENDS Naturals

CONSTANTS Proc,       \* shell processes, named by their PID
          Res,        \* lockable resources
          NoProc,     \* "the link does not exist"
          Signalled,  \* the processes that may receive a terminating signal
          MaxDepth    \* bound: how often a script locks one resource

ASSUME SyncLockAssumption == /\ NoProc \notin Proc
                             /\ Signalled \subseteq Proc
                             /\ MaxDepth \in Nat

VARIABLES link,     \* link[r]: whose PID file the link of r points to
          pidfile,  \* pidfile[r][p]: the count in p's PID file, 0 = no file
          held,     \* held[p][r]: occurrences of r in sync_locked_resources
          pc,       \* pc[p]: the next command of p
          res,      \* res[p]: the resource p is working on ($1)
          count,    \* count[p]: the shell variable count
          exiting   \* exiting[p]: p is running its exit trap

vars == <<link, pidfile, held, pc, res, count, exiting>>

Label == {"run", "ln", "who", "write", "append", "refuse", "sleep",
          "get", "read", "dec", "rmlink", "rmpid", "drop", "restore",
          "exit", "dead", "killed"}

TypeOK == /\ link \in [Res -> Proc \cup {NoProc}]
          /\ pidfile \in [Res -> [Proc -> Nat]]
          /\ held \in [Proc -> [Res -> Nat]]
          /\ pc \in [Proc -> Label]
          /\ res \in [Proc -> Res]
          /\ count \in [Proc -> Nat]
          /\ exiting \in [Proc -> BOOLEAN]

Init == /\ link = [r \in Res |-> NoProc]
        /\ pidfile = [r \in Res |-> [p \in Proc |-> 0]]
        /\ held = [p \in Proc |-> [r \in Res |-> 0]]
        /\ pc = [p \in Proc |-> "run"]
        /\ res \in [Proc -> Res]
        /\ count = [p \in Proc |-> 0]
        /\ exiting = [p \in Proc |-> FALSE]

Goto(p, l) == pc' = [pc EXCEPT ![p] = l]

At(p, l) == pc[p] = l

(* sync_get_locker finds p: the link exists, what it points to exists      *)
(* ("-f" follows the link) and what it points to is p's PID file.  Only p  *)
(* makes or unmakes this true, so the two commands need not be separated.  *)
LockedBy(p, r) == link[r] = p /\ pidfile[r][p] > 0

-----------------------------------------------------------------------------
(* sync_try_lock_resource, called in a loop by sync_lock_resource *)

Lock(p, r) ==
  /\ At(p, "run")
  /\ held[p][r] < MaxDepth
  /\ res' = [res EXCEPT ![p] = r]
  /\ Goto(p, "ln")
  /\ UNCHANGED <<link, pidfile, held, count, exiting>>

Retry(p) ==
  /\ At(p, "sleep")
  /\ Goto(p, "ln")
  /\ UNCHANGED <<link, pidfile, held, res, count, exiting>>

(* Faulty variant, for validating the properties: a link whose PID file is *)
(* missing is taken for stale.                                             *)
FaultyLinkIsFree(r) == link[r] = NoProc \/ pidfile[r][link[r]] = 0

LinkIsFree(r) == link[r] = NoProc

Symlink(p) ==
  /\ At(p, "ln")
  /\ IF LinkIsFree(res[p])
     THEN /\ link' = [link EXCEPT ![res[p]] = p]
          /\ count' = [count EXCEPT ![p] = 0]
          /\ Goto(p, "write")
     ELSE /\ Goto(p, "who")
          /\ UNCHANGED <<link, count>>
  /\ UNCHANGED <<pidfile, held, res, exiting>>

(* Faulty variant: the old count is not read. *)
FaultyCheckLocker(p) ==
  /\ At(p, "who")
  /\ count' = [count EXCEPT ![p] = 0]
  /\ Goto(p, IF LockedBy(p, res[p]) THEN "write" ELSE "refuse")
  /\ UNCHANGED <<link, pidfile, held, res, exiting>>

CheckLocker(p) ==
  /\ At(p, "who")
  /\ IF LockedBy(p, res[p])
     THEN /\ count' = [count EXCEPT ![p] = pidfile[res[p]][p]]
          /\ Goto(p, "write")
     ELSE /\ Goto(p, "refuse")
          /\ UNCHANGED count
  /\ UNCHANGED <<link, pidfile, held, res, exiting>>

WriteCount(p) ==
  /\ At(p, "write")
  /\ pidfile' = [pidfile EXCEPT ![res[p]][p] = count[p] + 1]
  /\ Goto(p, "append")
  /\ UNCHANGED <<link, held, res, count, exiting>>

(* Faulty variant: the list is not updated. *)
FaultyAppendToList(p) ==
  /\ At(p, "append")
  /\ Goto(p, "restore")
  /\ UNCHANGED <<link, pidfile, held, res, count, exiting>>

AppendToList(p) ==
  /\ At(p, "append")
  /\ held' = [held EXCEPT ![p][res[p]] = @ + 1]
  /\ Goto(p, "restore")
  /\ UNCHANGED <<link, pidfile, res, count, exiting>>

(* The caller's traps are installed again and the call returns, to the     *)
(* retry loop, to the script or to the loop of the exit trap.              *)
Refuse(p) ==
  /\ At(p, "refuse")
  /\ Goto(p, "sleep")
  /\ UNCHANGED <<link, pidfile, held, res, count, exiting>>

RestoreTraps(p) ==
  /\ At(p, "restore")
  /\ Goto(p, IF exiting[p] THEN "exit" ELSE "run")
  /\ UNCHANGED <<link, pidfile, held, res, count, exiting>>

-----------------------------------------------------------------------------
(* sync_unlock_resource *)

Unlock(p, r) ==
  /\ At(p, "run")
  /\ res' = [res EXCEPT ![p] = r]
  /\ Goto(p, "get")
  /\ UNCHANGED <<link, pidfile, held, count, exiting>>

(* Faulty variant: any locked resource may be unlocked. *)
FaultyMayUnlock(p, r) == link[r] # NoProc

(* A process that does not hold the resource gets an error and changes     *)
(* nothing.                                                                *)
MayUnlock(p, r) == LockedBy(p, r)

GetLocker(p) ==
  /\ At(p, "get")
  /\ Goto(p, IF MayUnlock(p, res[p]) THEN "read" ELSE "restore")
  /\ UNCHANGED <<link, pidfile, held, res, count, exiting>>

(* Faulty variant: off by one. *)
FaultyLastUnlock(n) == n <= 1

LastUnlock(n) == n = 0

ReadCount(p) ==
  /\ At(p, "read")
  /\ count' = [count EXCEPT ![p] = pidfile[res[p]][p] - 1]
  /\ Goto(p, IF LastUnlock(count'[p]) THEN "rmlink" ELSE "dec")
  /\ UNCHANGED <<link, pidfile, held, res, exiting>>

WriteDecremented(p) ==
  /\ At(p, "dec")
  /\ pidfile' = [pidfile EXCEPT ![res[p]][p] = count[p]]
  /\ Goto(p, "drop")
  /\ UNCHANGED <<link, held, res, count, exiting>>

(* "rm -f lock pidfile" unlinks its arguments one after the other *)
RemoveLink(p) ==
  /\ At(p, "rmlink")
  /\ link' = [link EXCEPT ![res[p]] = NoProc]
  /\ Goto(p, "rmpid")
  /\ UNCHANGED <<pidfile, held, res, count, exiting>>

RemovePidfile(p) ==
  /\ At(p, "rmpid")
  /\ pidfile' = [pidfile EXCEPT ![res[p]][p] = 0]
  /\ Goto(p, "drop")
  /\ UNCHANGED <<link, held, res, count, exiting>>

(* Faulty variant: the list is not updated. *)
FaultyOneOccurrenceLess(n) == n

(* ${sync_locked_resources/ $1 / } deletes one occurrence *)
OneOccurrenceLess(n) == IF n > 0 THEN n - 1 ELSE 0

DropFromList(p) ==
  /\ At(p, "drop")
  /\ held' = [held EXCEPT ![p][res[p]] = OneOccurrenceLess(@)]
  /\ Goto(p, "restore")
  /\ UNCHANGED <<link, pidfile, res, count, exiting>>

-----------------------------------------------------------------------------
(* The end of a script *)

(* The EXIT trap runs at a normal end of the script ... *)
Exit(p) ==
  /\ At(p, "run")
  /\ exiting' = [exiting EXCEPT ![p] = TRUE]
  /\ Goto(p, "exit")
  /\ UNCHANGED <<link, pidfile, held, res, count>>

(* ... and after a terminating signal, if the signal's trap is installed.  *)
(* Inside the library the signals are ignored and a signal is lost; while  *)
(* pc is "restore" or "refuse" the default actions are in force and there  *)
(* is no EXIT trap.  Bound: at most one such signal reaches a process, and *)
(* none while it runs its exit trap.                                       *)
Trapped(p) == pc[p] \in {"run", "sleep"}
Untrapped(p) == pc[p] \in {"restore", "refuse"}

Signal(p) ==
  /\ p \in Signalled
  /\ ~exiting[p]
  /\ \/ Trapped(p) /\ Goto(p, "exit")
        /\ exiting' = [exiting EXCEPT ![p] = TRUE]
     \/ Untrapped(p) /\ Goto(p, "killed") /\ UNCHANGED exiting
  /\ UNCHANGED <<link, pidfile, held, res, count>>

(* sync_unlock_all_resources: until the list is empty, unlock its members *)
UnlockAll(p) ==
  /\ At(p, "exit")
  /\ \/ /\ \A r \in Res : held[p][r] = 0
        /\ Goto(p, "dead")
        /\ UNCHANGED res
     \/ \E r \in Res :
          /\ held[p][r] > 0
          /\ res' = [res EXCEPT ![p] = r]
          /\ Goto(p, "get")
  /\ UNCHANGED <<link, pidfile, held, count, exiting>>

-----------------------------------------------------------------------------

(* The commands of the library itself: once called, they are executed *)
Library(p) ==
  \/ Retry(p) \/ Symlink(p) \/ CheckLocker(p) \/ WriteCount(p)
  \/ AppendToList(p) \/ Refuse(p) \/ RestoreTraps(p)
  \/ GetLocker(p) \/ ReadCount(p) \/ WriteDecremented(p) \/ RemoveLink(p)
  \/ RemovePidfile(p) \/ DropFromList(p)
  \/ UnlockAll(p)

Script(p) == \/ \E r \in Res : Lock(p, r) \/ Unlock(p, r)
             \/ Exit(p)

Next == \E p \in Proc : Library(p) \/ Script(p) \/ Signal(p)

Spec == Init /\ [][Next]_vars

(* The kernel schedules every runnable process; scripts end.  Nothing      *)
(* obliges a script to lock or unlock, and no signal has to come.          *)
FairSpec == /\ Spec
            /\ \A p \in Proc : WF_vars(Library(p))
            /\ \A p \in Proc : WF_vars(Exit(p))

-----------------------------------------------------------------------------

(* p executes script code having locked r more often than unlocked it *)
Holds(p, r) == pc[p] \in {"run", "sleep"} /\ held[p][r] > 0

(* No two scripts are between a lock and the matching unlock of the same   *)
(* resource, whatever the interleaving of their file operations.           *)
MutualExclusion ==
  \A p, q \in Proc, r \in Res : Holds(p, r) /\ Holds(q, r) => p = q

(* Between calls, the three records of a lock agree: the link names the    *)
(* process, and its PID file counts what its own list holds.  Therefore    *)
(* the n-th unlock frees the resource and no earlier one does, and the     *)
(* exit trap knows of every lock the process has.                          *)
RecordsAgree ==
  \A p \in Proc, r \in Res : pc[p] \in {"run", "sleep", "exit"} =>
      /\ pidfile[r][p] = held[p][r]
      /\ link[r] = p <=> held[p][r] > 0

(* A process that has run its exit trap holds no lock, whether the script  *)
(* ended by itself or by a signal, and whatever it held then.              *)
ExitTrapReleasesAll ==
  \A p \in Proc, r \in Res : pc[p] = "dead" => link[r] # p

(* "Be nice and release all locks at shell exit": no lock outlives its     *)
(* owner.  This is what the comment in sync_init says of scripts "that are *)
(* terminated in an unexpected way (e.g. by Ctrl+C)"; a signal that hits   *)
(* the Untrapped window refutes it.                                        *)
NoLockOutlivesItsOwner ==
  \A p \in Proc, r \in Res : pc[p] \in {"dead", "killed"} => link[r] # p

(* The loop of the exit trap ends: each round shrinks the list. *)
ExitTrapEnds == \A p \in Proc : exiting[p] ~> pc[p] = "dead"

(* What the callers are promised: see AbstractLock.  The owner has the     *)
(* lock from the creation of the link to its removal.                      *)
Depth == [r \in Res |->
            IF link[r] = NoProc THEN 0
            ELSE IF pidfile[r][link[r]] = 0 THEN 1 ELSE pidfile[r][link[r]]]

Abs == INSTANCE AbstractLock WITH owner <- link, depth <- Depth

AbsSpec == Abs!Spec

=============================================================================
