--------------------------- MODULE SyncLockProofs ---------------------------
(***************************************************************************)
(* For any set of processes and resources, any bound on the depth and any  *)
(* set of processes that may be signalled: SyncLock is type correct, its   *)
(* locks exclude each other, the three records of a lock agree between     *)
(* calls, the exit trap releases everything, and the whole implements      *)
(* AbstractLock.                                                           *)
(*                                                                         *)
(* None of the properties is inductive: in the middle of a call the PID    *)
(* file and the list differ by one, and the link comes and goes one        *)
(* command before or after them.  LockInv says by how much, and at which   *)
(* command.                                                                *)
(***************************************************************************)
EXTENDS SyncLock, TLAPS

Working(p, r, labels) == res[p] = r /\ pc[p] \in labels

(* The PID file is ahead of the list while p is inside a call. *)
PidfileLag(p, r) ==
  pidfile[r][p] = IF Working(p, r, {"append"}) THEN held[p][r] + 1
                  ELSE IF Working(p, r, {"drop"}) THEN held[p][r] - 1
                  ELSE held[p][r]

(* The link exists from "write" on, and until "rmpid". *)
LinkOwned(p, r) ==
  (link[r] = p) <=> \/ Working(p, r, {"write", "append"})
                    \/ Working(p, r, {"drop"}) /\ held[p][r] > 1
                    \/ ~Working(p, r, {"rmpid", "drop"}) /\ held[p][r] > 0

(* What the shell variable count stands for. *)
CountKnown(p, r) ==
  /\ Working(p, r, {"write"}) => count[p] = held[p][r]
  /\ Working(p, r, {"read", "dec", "rmlink", "rmpid", "drop"}) => held[p][r] > 0
  /\ Working(p, r, {"dec"}) => count[p] > 0 /\ count[p] = held[p][r] - 1
  /\ Working(p, r, {"rmlink", "rmpid"}) => held[p][r] = 1

(* A process that has left the exit trap's loop has an empty list. *)
ListEmptied(p, r) == pc[p] = "dead" => held[p][r] = 0

LockInv == /\ TypeOK
           /\ \A p \in Proc, r \in Res : /\ PidfileLag(p, r)
                                         /\ LinkOwned(p, r)
                                         /\ CountKnown(p, r)
                                         /\ ListEmptied(p, r)

-----------------------------------------------------------------------------

(* Initially no file exists and every list is empty. *)
LEMMA InitLockInv == Init => LockInv
BY SyncLockAssumption
   DEF Init, LockInv, TypeOK, Label, PidfileLag, LinkOwned, CountKnown,
       ListEmptied, Working

(* Every command of every process preserves the invariant. *)
LEMMA NextLockInv == LockInv /\ [Next]_vars => LockInv'
<1> SUFFICES ASSUME LockInv, [Next]_vars
             PROVE  LockInv'
  OBVIOUS
<1> USE SyncLockAssumption
<1> USE DEF LockInv, TypeOK, Label, PidfileLag, LinkOwned, CountKnown,
            ListEmptied, Working, At, Goto
<1>1. CASE UNCHANGED vars
  BY <1>1 DEF vars
<1>2. ASSUME NEW p \in Proc, NEW r \in Res, Lock(p, r)
      PROVE  LockInv'
  BY <1>2 DEF Lock
<1>3. ASSUME NEW p \in Proc, Retry(p)
      PROVE  LockInv'
  BY <1>3 DEF Retry
<1>4. ASSUME NEW p \in Proc, Symlink(p)
      PROVE  LockInv'
  <2>1. CASE link[res[p]] = NoProc
    <3>1. held[p][res[p]] = 0 /\ \A q \in Proc : link[res[p]] # q
      BY <1>4, <2>1 DEF Symlink
    <3>2. /\ link' = [link EXCEPT ![res[p]] = p]
          /\ count' = [count EXCEPT ![p] = 0]
          /\ pc' = [pc EXCEPT ![p] = "write"]
          /\ UNCHANGED <<pidfile, held, res, exiting>>
      BY <1>4, <2>1 DEF Symlink, LinkIsFree
    <3>3. TypeOK'
      BY <3>2
    <3>4. ASSUME NEW q \in Proc, NEW s \in Res
          PROVE  /\ PidfileLag(q, s)'
                 /\ LinkOwned(q, s)'
                 /\ CountKnown(q, s)'
                 /\ ListEmptied(q, s)'
      <4>1. CASE s = res[p]
        BY <1>4, <3>1, <3>2, <4>1 DEF Symlink
      <4>2. CASE s # res[p]
        BY <1>4, <3>2, <4>2 DEF Symlink
      <4>3. QED
        BY <4>1, <4>2
    <3>5. QED
      BY <3>3, <3>4
  <2>2. CASE link[res[p]] # NoProc
    BY <1>4, <2>2 DEF Symlink, LinkIsFree
  <2>3. QED
    BY <2>1, <2>2
<1>5. ASSUME NEW p \in Proc, CheckLocker(p)
      PROVE  LockInv'
  <2>1. CASE LockedBy(p, res[p])
    <3>1. pidfile[res[p]][p] = held[p][res[p]] /\ held[p][res[p]] > 0
      BY <1>5, <2>1 DEF CheckLocker, LockedBy
    <3>2. /\ count' = [count EXCEPT ![p] = held[p][res[p]]]
          /\ pc' = [pc EXCEPT ![p] = "write"]
          /\ UNCHANGED <<link, pidfile, held, res, exiting>>
      BY <1>5, <2>1, <3>1 DEF CheckLocker
    <3>3. QED
      BY <1>5, <3>1, <3>2 DEF CheckLocker
  <2>2. CASE ~LockedBy(p, res[p])
    BY <1>5, <2>2 DEF CheckLocker
  <2>3. QED
    BY <2>1, <2>2
<1>6. ASSUME NEW p \in Proc, WriteCount(p)
      PROVE  LockInv'
  BY <1>6 DEF WriteCount
<1>7. ASSUME NEW p \in Proc, AppendToList(p)
      PROVE  LockInv'
  BY <1>7 DEF AppendToList
<1>8. ASSUME NEW p \in Proc, Refuse(p)
      PROVE  LockInv'
  BY <1>8 DEF Refuse
<1>9. ASSUME NEW p \in Proc, RestoreTraps(p)
      PROVE  LockInv'
  BY <1>9 DEF RestoreTraps
<1>10. ASSUME NEW p \in Proc, NEW r \in Res, Unlock(p, r)
       PROVE  LockInv'
  BY <1>10 DEF Unlock
<1>11. ASSUME NEW p \in Proc, GetLocker(p)
       PROVE  LockInv'
  BY <1>11 DEF GetLocker, MayUnlock, LockedBy
<1>12. ASSUME NEW p \in Proc, ReadCount(p)
       PROVE  LockInv'
  <2>1. /\ pidfile[res[p]][p] = held[p][res[p]]
        /\ held[p][res[p]] > 0
    BY <1>12 DEF ReadCount
  <2>2. /\ count' = [count EXCEPT ![p] = held[p][res[p]] - 1]
        /\ pc' = [pc EXCEPT ![p] = IF held[p][res[p]] = 1
                                  THEN "rmlink" ELSE "dec"]
        /\ UNCHANGED <<link, pidfile, held, res, exiting>>
    BY <1>12, <2>1 DEF ReadCount, LastUnlock
  <2>3. CASE held[p][res[p]] = 1
    BY <1>12, <2>2, <2>3 DEF ReadCount
  <2>4. CASE held[p][res[p]] > 1
    BY <1>12, <2>2, <2>4 DEF ReadCount
  <2>5. QED
    BY <2>1, <2>3, <2>4
<1>13. ASSUME NEW p \in Proc, WriteDecremented(p)
       PROVE  LockInv'
  BY <1>13 DEF WriteDecremented
<1>14. ASSUME NEW p \in Proc, RemoveLink(p)
       PROVE  LockInv'
  BY <1>14 DEF RemoveLink
<1>15. ASSUME NEW p \in Proc, RemovePidfile(p)
       PROVE  LockInv'
  BY <1>15 DEF RemovePidfile
<1>16. ASSUME NEW p \in Proc, DropFromList(p)
       PROVE  LockInv'
  BY <1>16 DEF DropFromList, OneOccurrenceLess
<1>17. ASSUME NEW p \in Proc, Exit(p)
       PROVE  LockInv'
  BY <1>17 DEF Exit
<1>18. ASSUME NEW p \in Proc, Signal(p)
       PROVE  LockInv'
  <2>1. CASE Trapped(p)
    <3>1. /\ pc[p] \in {"run", "sleep"}
          /\ pc' = [pc EXCEPT ![p] = "exit"]
          /\ exiting' = [exiting EXCEPT ![p] = TRUE]
          /\ UNCHANGED <<link, pidfile, held, res, count>>
      BY <1>18, <2>1 DEF Signal, Trapped, Untrapped
    <3>2. QED
      BY <3>1
  <2>2. CASE Untrapped(p)
    <3>1. /\ pc[p] \in {"restore", "refuse"}
          /\ pc' = [pc EXCEPT ![p] = "killed"]
          /\ UNCHANGED <<link, pidfile, held, res, count, exiting>>
      BY <1>18, <2>2 DEF Signal, Trapped, Untrapped
    <3>2. QED
      BY <3>1
  <2>3. QED
    BY <1>18, <2>1, <2>2 DEF Signal
<1>19. ASSUME NEW p \in Proc, UnlockAll(p)
       PROVE  LockInv'
  <2>1. CASE /\ \A r \in Res : held[p][r] = 0
             /\ pc' = [pc EXCEPT ![p] = "dead"]
             /\ UNCHANGED res
    BY <1>19, <2>1 DEF UnlockAll
  <2>2. ASSUME NEW r \in Res, held[p][r] > 0,
               res' = [res EXCEPT ![p] = r], pc' = [pc EXCEPT ![p] = "get"]
        PROVE  LockInv'
    BY <1>19, <2>2 DEF UnlockAll
  <2>3. QED
    BY <1>19, <2>1, <2>2 DEF UnlockAll
<1>20. QED
  BY <1>1, <1>2, <1>3, <1>4, <1>5, <1>6, <1>7, <1>8, <1>9, <1>10, <1>11,
     <1>12, <1>13, <1>14, <1>15, <1>16, <1>17, <1>18, <1>19
     DEF Next, Library, Script

(* LockInv holds in every reachable state. *)
THEOREM Invariance == Spec => []LockInv
BY InitLockInv, NextLockInv, PTL DEF Spec

(* Every variable keeps its type, so no count ever becomes negative. *)
THEOREM TypeCorrect == Spec => []TypeOK
BY Invariance, PTL DEF LockInv

(* Two scripts never hold the same resource. *)
THEOREM Exclusion == Spec => []MutualExclusion
<1>1. LockInv => MutualExclusion
  BY DEF LockInv, MutualExclusion, Holds, LinkOwned, Working
<1>2. QED
  BY <1>1, Invariance, PTL

(* Between calls link, PID file and list agree. *)
THEOREM Agreement == Spec => []RecordsAgree
<1>1. LockInv => RecordsAgree
  BY DEF LockInv, RecordsAgree, PidfileLag, LinkOwned, Working
<1>2. QED
  BY <1>1, Invariance, PTL

(* A process that has run its exit trap holds nothing. *)
THEOREM Released == Spec => []ExitTrapReleasesAll
<1>1. LockInv => ExitTrapReleasesAll
  BY DEF LockInv, ExitTrapReleasesAll, ListEmptied, LinkOwned, Working
<1>2. QED
  BY <1>1, Invariance, PTL

-----------------------------------------------------------------------------
(* SyncLock implements AbstractLock *)

(* The invariant for the resource a process is working on. *)
LEMMA WorkingOn ==
  ASSUME LockInv, NEW p \in Proc
  PROVE  /\ res[p] \in Res
         /\ PidfileLag(p, res[p])
         /\ LinkOwned(p, res[p])
         /\ CountKnown(p, res[p])
         /\ held[p][res[p]] \in Nat
         /\ count[p] \in Nat
BY DEF LockInv, TypeOK

(* What the abstract depth is, from the owner's side. *)
LEMMA DepthOfOwner ==
  ASSUME LockInv, NEW r \in Res, NEW p \in Proc, link[r] = p
  PROVE  /\ Depth[r] = IF pidfile[r][p] = 0 THEN 1 ELSE pidfile[r][p]
         /\ Depth[r] \in Nat \ {0}
BY SyncLockAssumption DEF Depth, LockInv, TypeOK

(* Initially nothing is locked, in either module. *)
LEMMA InitAbs == Init => Abs!Init
BY DEF Init, Abs!Init, Depth

(* A change of r's files changes r's abstract depth only. *)
LEMMA DepthUpdate ==
  ASSUME LockInv, NEW r \in Res, NEW d,
         \A q \in Res \ {r} : link'[q] = link[q] /\ pidfile'[q] = pidfile[q],
         d = IF link'[r] = NoProc THEN 0
             ELSE IF pidfile'[r][link'[r]] = 0 THEN 1 ELSE pidfile'[r][link'[r]]
  PROVE  Depth' = [Depth EXCEPT ![r] = d]
BY DEF Depth

(* A step of the model locks, re-enters, leaves or releases, or it changes *)
(* nothing the caller can see.                                             *)
LEMMA NextAbs == LockInv /\ [Next]_vars => [Abs!Next]_(Abs!vars)
<1> SUFFICES ASSUME LockInv, [Next]_vars
             PROVE  [Abs!Next]_(Abs!vars)
  OBVIOUS
<1> USE SyncLockAssumption DEF At, Goto, Abs!vars
<1>1. CASE UNCHANGED <<link, pidfile>>
  BY <1>1 DEF Depth
<1>2. ASSUME NEW p \in Proc, Symlink(p), LinkIsFree(res[p])
      PROVE  Abs!Acquire(p, res[p])
  <2>1. res[p] \in Res /\ pidfile[res[p]][p] = 0
    BY <1>2, WorkingOn DEF Symlink, LinkIsFree, PidfileLag, LinkOwned, Working
  <2>2. link' = [link EXCEPT ![res[p]] = p] /\ UNCHANGED pidfile
    BY <1>2 DEF Symlink
  <2>3. Depth' = [Depth EXCEPT ![res[p]] = 1]
    BY <2>1, <2>2, DepthUpdate DEF LockInv, TypeOK
  <2>4. QED
    BY <1>2, <2>2, <2>3 DEF Abs!Acquire, LinkIsFree
<1>3. ASSUME NEW p \in Proc, WriteCount(p)
      PROVE  Abs!Reenter(p, res[p]) \/ UNCHANGED <<link, Depth>>
  <2>1. /\ res[p] \in Res
        /\ link[res[p]] = p
        /\ pidfile[res[p]][p] \in Nat
        /\ count[p] = pidfile[res[p]][p]
    BY <1>3, WorkingOn DEF WriteCount, PidfileLag, LinkOwned, CountKnown, Working
  <2>2. /\ pidfile' = [pidfile EXCEPT ![res[p]][p] = pidfile[res[p]][p] + 1]
        /\ UNCHANGED link
    BY <1>3, <2>1 DEF WriteCount
  <2>3. Depth' = [Depth EXCEPT ![res[p]] = pidfile[res[p]][p] + 1]
    BY <2>1, <2>2, DepthUpdate DEF LockInv, TypeOK
  <2>4. CASE pidfile[res[p]][p] = 0
    <3>1. Depth[res[p]] = 1
      BY <2>1, <2>4, DepthOfOwner
    <3>2. Depth' = Depth
      BY <2>1, <2>3, <2>4, <3>1 DEF Depth
    <3>3. QED
      BY <2>2, <3>2
  <2>5. CASE pidfile[res[p]][p] # 0
    <3>1. Depth[res[p]] = pidfile[res[p]][p]
      BY <2>1, <2>5, DepthOfOwner
    <3>2. QED
      BY <2>1, <2>2, <2>3, <3>1 DEF Abs!Reenter
  <2>6. QED
    BY <2>4, <2>5
<1>4. ASSUME NEW p \in Proc, WriteDecremented(p)
      PROVE  Abs!Leave(p, res[p])
  <2>1. /\ res[p] \in Res
        /\ link[res[p]] = p
        /\ pidfile[res[p]][p] = count[p] + 1
        /\ count[p] \in Nat /\ count[p] > 0
    BY <1>4, WorkingOn DEF WriteDecremented, PidfileLag, LinkOwned, CountKnown, Working
  <2>2. pidfile' = [pidfile EXCEPT ![res[p]][p] = count[p]] /\ UNCHANGED link
    BY <1>4 DEF WriteDecremented
  <2>3. Depth' = [Depth EXCEPT ![res[p]] = count[p]]
    <3>1. pidfile'[res[p]][p] = count[p] /\ link'[res[p]] = p /\ p # NoProc
      BY <2>1, <2>2 DEF LockInv, TypeOK
    <3>2. \A q \in Res \ {res[p]} : link'[q] = link[q] /\ pidfile'[q] = pidfile[q]
      BY <2>2 DEF LockInv, TypeOK
    <3>3. count[p] # 0
      BY <2>1
    <3>4. QED
      BY <2>1, <3>1, <3>2, <3>3, DepthUpdate
  <2>4. /\ Depth[res[p]] > 1
        /\ count[p] = Depth[res[p]] - 1
    BY <2>1, DepthOfOwner
  <2>5. QED
    BY <2>1, <2>2, <2>3, <2>4 DEF Abs!Leave
<1>5. ASSUME NEW p \in Proc, RemoveLink(p)
      PROVE  Abs!Release(p, res[p])
  <2>1. /\ res[p] \in Res
        /\ link[res[p]] = p
        /\ pidfile[res[p]][p] = 1
    BY <1>5, WorkingOn DEF RemoveLink, PidfileLag, LinkOwned, CountKnown, Working
  <2>2. link' = [link EXCEPT ![res[p]] = NoProc] /\ UNCHANGED pidfile
    BY <1>5 DEF RemoveLink
  <2>3. Depth' = [Depth EXCEPT ![res[p]] = 0]
    BY <2>1, <2>2, DepthUpdate DEF LockInv, TypeOK
  <2>4. Depth[res[p]] = 1
    BY <2>1, DepthOfOwner
  <2>5. QED
    BY <2>1, <2>2, <2>3, <2>4 DEF Abs!Release
<1>6. ASSUME NEW p \in Proc, RemovePidfile(p)
      PROVE  UNCHANGED <<link, Depth>>
  <2>1. res[p] \in Res /\ link[res[p]] # p
    BY <1>6, WorkingOn DEF RemovePidfile, LinkOwned, Working
  <2>2. pidfile' = [pidfile EXCEPT ![res[p]][p] = 0] /\ UNCHANGED link
    BY <1>6 DEF RemovePidfile
  <2>3. \A r \in Res, q \in Proc : link[r] = q => pidfile'[r][q] = pidfile[r][q]
    BY <2>1, <2>2 DEF LockInv, TypeOK
  <2>4. \A r \in Res : link[r] = NoProc \/ link[r] \in Proc
    BY DEF LockInv, TypeOK
  <2>5. QED
    BY <2>2, <2>3, <2>4 DEF Depth
<1>7. ASSUME NEW p \in Proc
      PROVE  res[p] \in Res
  BY DEF LockInv, TypeOK
<1>8. CASE Next
  <2>1. PICK p \in Proc : Library(p) \/ Script(p) \/ Signal(p)
    BY <1>8 DEF Next
  <2>2. \/ UNCHANGED <<link, pidfile>>
        \/ Symlink(p) /\ LinkIsFree(res[p])
        \/ WriteCount(p) \/ WriteDecremented(p)
        \/ RemoveLink(p) \/ RemovePidfile(p)
    BY <2>1 DEF Library, Script, Signal, Lock, Retry, Symlink, CheckLocker,
                AppendToList, Refuse, RestoreTraps, Unlock, GetLocker,
                ReadCount, DropFromList, Exit, UnlockAll
  <2>3. QED
    BY <1>1, <1>2, <1>3, <1>4, <1>5, <1>6, <1>7, <2>2 DEF Abs!Next
<1>9. QED
  BY <1>1, <1>8 DEF vars

(* The files and commands of locking.inc keep the promise of AbstractLock. *)
THEOREM Implements == Spec => AbsSpec
BY Invariance, InitAbs, NextAbs, PTL DEF Spec, AbsSpec, Abs!Spec

=============================================================================
