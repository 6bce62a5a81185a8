---------------------------- MODULE AbstractLock ----------------------------
(***************************************************************************)
(* What boot.d/locking.inc promises of its exclusive locks: a resource has *)
(* at most one owner, the owner may lock it again, and it becomes free     *)
(* when the owner has unlocked it as often as it has locked it.  SyncLock, *)
(* the file-by-file model of the implementation, refines this module.      *)
(***************************************************************************)
EXTENDS Naturals

CONSTANTS Proc,    \* shell processes, named by their PID
          Res,     \* resources
          NoProc   \* the owner of a resource nobody has locked

VARIABLES owner,   \* owner[r]: the process holding r, or NoProc
          depth    \* depth[r]: how often its owner has locked r

vars == <<owner, depth>>

Init == /\ owner = [r \in Res |-> NoProc]
        /\ depth = [r \in Res |-> 0]

Acquire(p, r) == /\ owner[r] = NoProc
                 /\ owner' = [owner EXCEPT ![r] = p]
                 /\ depth' = [depth EXCEPT ![r] = 1]

Reenter(p, r) == /\ owner[r] = p
                 /\ depth' = [depth EXCEPT ![r] = @ + 1]
                 /\ UNCHANGED owner

Leave(p, r) == /\ owner[r] = p
               /\ depth[r] > 1
               /\ depth' = [depth EXCEPT ![r] = @ - 1]
               /\ UNCHANGED owner

Release(p, r) == /\ owner[r] = p
                 /\ depth[r] = 1
                 /\ owner' = [owner EXCEPT ![r] = NoProc]
                 /\ depth' = [depth EXCEPT ![r] = 0]

Next == \E p \in Proc, r \in Res :
          Acquire(p, r) \/ Reenter(p, r) \/ Leave(p, r) \/ Release(p, r)

Spec == Init /\ [][Next]_vars

=============================================================================
