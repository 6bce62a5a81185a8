--------------------------- MODULE AbstractRWLock ---------------------------
(***************************************************************************)
(* What boot.d/locking.inc promises of its reader/writer locks: readers    *)
(* share, a writer is alone, except that it may itself be a reader (lock   *)
(* promotion), and both kinds of lock are recursive.  RWLock refines this. *)
(***************************************************************************)
EXTENDS Naturals

CONSTANT Proc

VARIABLES rd,   \* rd[p]: how often p has locked the resource for reading
          wr    \* wr[p]: how often p has locked the resource for writing

vars == <<rd, wr>>

Init == /\ rd = [p \in Proc |-> 0]
        /\ wr = [p \in Proc |-> 0]

Reads(p) == rd[p] > 0
Writes(p) == wr[p] > 0

LockForReading(p) ==
  /\ Reads(p) \/ \A q \in Proc : ~Writes(q)
  /\ rd' = [rd EXCEPT ![p] = @ + 1]
  /\ UNCHANGED wr

LockForWriting(p) ==
  /\ \/ Writes(p)
     \/ \A q \in Proc : ~Writes(q) /\ (q # p => ~Reads(q))
  /\ wr' = [wr EXCEPT ![p] = @ + 1]
  /\ UNCHANGED rd

UnlockForReading(p) ==
  /\ Reads(p)
  /\ rd' = [rd EXCEPT ![p] = @ - 1]
  /\ UNCHANGED wr

UnlockForWriting(p) ==
  /\ Writes(p)
  /\ wr' = [wr EXCEPT ![p] = @ - 1]
  /\ UNCHANGED rd

Next == \E p \in Proc :
          \/ LockForReading(p) \/ LockForWriting(p)
          \/ UnlockForReading(p) \/ UnlockForWriting(p)

Spec == Init /\ [][Next]_vars

=============================================================================
