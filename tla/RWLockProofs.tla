---------------------------- MODULE RWLockProofs ----------------------------
(***************************************************************************)
(* For any set of processes, any nesting and any choice of the points      *)
(* where a signal may strike: the counts of RWLock never become negative,  *)
(* a writer is alone and writers are preferred.  If no signal strikes at a *)
(* vulnerable point, the files also agree with the processes' lists, every *)
(* lock of a process that ended is released, and the whole implements      *)
(* AbstractRWLock.                                                         *)
(*                                                                         *)
(* RWInv says for each command by how much a file is ahead of the list it  *)
(* belongs to, as long as no signal has struck between the two (Exact).    *)
(* After such a signal the files may only count too much: too many readers *)
(* and too many waiting writers, never too few, and that is all that       *)
(* exclusion needs.                                                        *)
(***************************************************************************)
EXTENDS RWLock, FiniteSetTheorems, TLAPS

SafeSignals == SignalPoints \cap Vulnerable = {}

(* The commands between taking the mutex and releasing it *)
Critical == {"rtest", "rown", "ractive", "rinc", "rlist", "rdec", "ractivedec",
             "rdrop", "wtake", "wtest", "wdec", "wlist", "wfree", "wdrop",
             "release"}

(* The commands the exit trap never runs *)
Acquiring == {"run", "rlock", "rtest", "rsleep", "rown", "ractive", "rinc",
              "rlist", "wlock", "wtake", "wsleep", "wtest", "wdec", "wlist"}

(* Who has the mutex, and that the exit trap has unlocked everything when  *)
(* it is done.                                                             *)
Placed(p) ==
  /\ pc[p] \in Critical => mutex = p
  /\ pc[p] \in Acquiring => ~exiting[p]
  /\ pc[p] = "exit" => exiting[p]
  /\ pc[p] = "dead" => /\ exiting[p] /\ mutex # p /\ guard # p
                       /\ rheld[p] = 0 /\ wheld[p] = 0

(* No signal has torn p's files and lists apart. *)
Exact(p) == SafeSignals \/ ~exiting[p]

ReadLag(p) ==
  /\ Exact(p) => own[p] = IF pc[p] \in {"ractive", "rlist"} THEN rheld[p] + 1
                          ELSE IF pc[p] \in {"ractivedec", "rdrop"} THEN rheld[p] - 1
                          ELSE rheld[p]
  /\ pc[p] \in {"runlock", "rdec", "ractivedec", "rdrop"} => rheld[p] > 0
  /\ pc[p] = "ractivedec" => own[p] = 0
  /\ pc[p] \in {"ractive", "rinc"} => own[p] > 0
  /\ pc[p] \in {"rown", "ractive"} => rheld[p] = 0 /\ writer = NoProc /\ waiting = 0
  /\ pc[p] = "rown" => own[p] = 0

WriteCount(p) == IF writer = p THEN depth ELSE 0

WriteLag(p) ==
  /\ Exact(p) => WriteCount(p) = IF pc[p] \in {"wdec", "wlist"} THEN wheld[p] + 1
                                 ELSE IF pc[p] = "wdrop" THEN wheld[p] - 1
                                 ELSE wheld[p]
  /\ pc[p] \in {"wunlock", "wfree", "wdrop"} => wheld[p] > 0

(* p is counted in readers-active. *)
Counted(p) == \/ own[p] > 0 /\ (rheld[p] > 0 \/ pc[p] = "rlist")
              \/ pc[p] = "ractivedec"

Readers == {p \in Proc : Counted(p)}
Polling == {p \in Proc : pc[p] \in {"wsleep", "wtest", "wdec"}}

(* readers-active and writers-waiting count at least those they should. *)
ReadersCounted == /\ readers >= Cardinality(Readers)
                  /\ SafeSignals => readers = Cardinality(Readers)

PollingCounted == /\ waiting >= Cardinality(Polling)
                  /\ SafeSignals => waiting = Cardinality(Polling)

(* A writer shares the resource with nobody but itself. *)
Excluded == /\ writer = NoProc <=> depth = 0
            /\ writer # NoProc => Readers \subseteq {writer}

Local(p) == Placed(p) /\ ReadLag(p) /\ WriteLag(p)

RWInv == /\ TypeOK
         /\ \A p \in Proc : Local(p)
         /\ ReadersCounted
         /\ PollingCounted
         /\ Excluded

-----------------------------------------------------------------------------
(* Counting *)

(* Every set of processes is finite, and a part of it is not larger. *)
LEMMA Finite ==
  ASSUME NEW S \in SUBSET Proc
  PROVE  /\ IsFiniteSet(S)
         /\ Cardinality(S) \in Nat
         /\ \A T \in SUBSET S : Cardinality(T) <= Cardinality(S)
<1>1. IsFiniteSet(S)
  BY FS_Subset, RWLockAssumption
<1> QED BY <1>1, FS_Subset, FS_CardinalityType

(* One process more, or one less *)
LEMMA OneMore ==
  ASSUME NEW S \in SUBSET Proc, NEW p \in Proc \ S
  PROVE  Cardinality(S \cup {p}) = Cardinality(S) + 1
BY FS_AddElement, Finite

LEMMA OneLess ==
  ASSUME NEW S \in SUBSET Proc, NEW p \in S
  PROVE  Cardinality(S \ {p}) = Cardinality(S) - 1
BY FS_RemoveElement, Finite

(* A process that is alone in a set of at most one *)
LEMMA Alone ==
  ASSUME NEW S \in SUBSET Proc, NEW p \in S, Cardinality(S) <= 1
  PROVE  S = {p}
<1>1. Cardinality({p}) = 1 /\ {p} \in SUBSET S
  BY FS_Singleton
<1> QED BY <1>1, Finite, FS_Subset

(* The sets that are counted, and that the counts can be decremented *)
LEMMA CountsPositive ==
  ASSUME RWInv
  PROVE  /\ Readers \in SUBSET Proc /\ Polling \in SUBSET Proc
         /\ Cardinality(Readers) \in Nat /\ Cardinality(Polling) \in Nat
         /\ Readers # {} => readers > 0
         /\ Polling # {} => waiting > 0
<1>1. Readers \in SUBSET Proc /\ Polling \in SUBSET Proc
  BY DEF Readers, Polling
<1>2. Readers # {} => Cardinality(Readers) # 0
  BY <1>1, Finite, FS_EmptySet
<1>3. Polling # {} => Cardinality(Polling) # 0
  BY <1>1, Finite, FS_EmptySet
<1> QED BY <1>1, <1>2, <1>3, Finite DEF RWInv, TypeOK, ReadersCounted, PollingCounted

-----------------------------------------------------------------------------
(* RWInv is inductive *)

(* No count is decremented below zero. *)
LEMMA TypeStep == RWInv /\ [Next]_vars => TypeOK'
<1> SUFFICES ASSUME RWInv, [Next]_vars
             PROVE  TypeOK'
  OBVIOUS
<1> USE RWLockAssumption DEF vars, files, lists, At, Goto, Step
<1> USE DEF RWInv, TypeOK, Excluded, Local, ReadLag, WriteLag, Label
<1>1. CASE UNCHANGED vars
  BY <1>1
<1>2. ASSUME NEW p \in Proc, CallReadLock(p)
      PROVE  TypeOK'
  BY <1>2 DEF CallReadLock
<1>3. ASSUME NEW p \in Proc, CallWriteLock(p)
      PROVE  TypeOK'
  BY <1>3 DEF CallWriteLock
<1>4. ASSUME NEW p \in Proc, CallReadUnlock(p)
      PROVE  TypeOK'
  BY <1>4 DEF CallReadUnlock
<1>5. ASSUME NEW p \in Proc, CallWriteUnlock(p)
      PROVE  TypeOK'
  BY <1>5 DEF CallWriteUnlock
<1>6. ASSUME NEW p \in Proc, LockGuard(p)
      PROVE  TypeOK'
  BY <1>6 DEF LockGuard
<1>7. ASSUME NEW p \in Proc, UnlockGuard(p)
      PROVE  TypeOK'
  BY <1>7 DEF UnlockGuard
<1>8. ASSUME NEW p \in Proc, TakeMutex(p)
      PROVE  TypeOK'
  BY <1>8 DEF TakeMutex, Entry
<1>9. ASSUME NEW p \in Proc, Release(p)
      PROVE  TypeOK'
  BY <1>9 DEF Release
<1>10. ASSUME NEW p \in Proc, TestRead(p)
      PROVE  TypeOK'
  BY <1>10 DEF TestRead, MustWaitToRead
<1>11. ASSUME NEW p \in Proc, FirstRead(p)
      PROVE  TypeOK'
  BY <1>11 DEF FirstRead
<1>12. ASSUME NEW p \in Proc, CountReader(p)
      PROVE  TypeOK'
  BY <1>12 DEF CountReader
<1>13. ASSUME NEW p \in Proc, ReadAgain(p)
      PROVE  TypeOK'
  BY <1>13 DEF ReadAgain
<1>14. ASSUME NEW p \in Proc, ListRead(p)
      PROVE  TypeOK'
  BY <1>14 DEF ListRead
<1>15. ASSUME NEW p \in Proc, UncountRead(p)
      PROVE  TypeOK'
  BY <1>15 DEF UncountRead
<1>16. ASSUME NEW p \in Proc, UncountReader(p)
      PROVE  TypeOK'
  <2>1. p \in Readers
    BY <1>16 DEF UncountReader, Readers, Counted
  <2> QED BY <1>16, <2>1, CountsPositive DEF UncountReader
<1>17. ASSUME NEW p \in Proc, DropRead(p)
      PROVE  TypeOK'
  BY <1>17 DEF DropRead
<1>18. ASSUME NEW p \in Proc, TakeOrWait(p)
      PROVE  TypeOK'
  BY <1>18 DEF TakeOrWait, BecomeWriter
<1>19. ASSUME NEW p \in Proc, TestWrite(p)
      PROVE  TypeOK'
  BY <1>19 DEF TestWrite, BecomeWriter
<1>20. ASSUME NEW p \in Proc, StopWaiting(p)
      PROVE  TypeOK'
  <2>1. p \in Polling
    BY <1>20 DEF StopWaiting, Polling
  <2> QED BY <1>20, <2>1, CountsPositive DEF StopWaiting
<1>21. ASSUME NEW p \in Proc, ListWrite(p)
      PROVE  TypeOK'
  BY <1>21 DEF ListWrite
<1>22. ASSUME NEW p \in Proc, FreeWrite(p)
      PROVE  TypeOK'
  BY <1>22 DEF FreeWrite
<1>23. ASSUME NEW p \in Proc, DropWrite(p)
      PROVE  TypeOK'
  BY <1>23 DEF DropWrite
<1>24. ASSUME NEW p \in Proc, Exit(p)
      PROVE  TypeOK'
  BY <1>24 DEF Exit
<1>25. ASSUME NEW p \in Proc, Signal(p)
      PROVE  TypeOK'
  BY <1>25 DEF Signal
<1>26. ASSUME NEW p \in Proc, UnlockAll(p)
      PROVE  TypeOK'
  BY <1>26 DEF UnlockAll
<1> QED
  BY <1>1, <1>2, <1>3, <1>4, <1>5, <1>6, <1>7, <1>8, <1>9, <1>10, <1>11, <1>12, <1>13, <1>14, <1>15, <1>16, <1>17, <1>18, <1>19, <1>20, <1>21, <1>22, <1>23, <1>24, <1>25, <1>26
     DEF Next, Library, Script

(* Each command moves a file ahead of its list, or the list after it. *)
LEMMA LocalStep == RWInv /\ [Next]_vars => \A q \in Proc : Local(q)'
<1> SUFFICES ASSUME RWInv, [Next]_vars
             PROVE  \A q \in Proc : Local(q)'
  OBVIOUS
<1> USE RWLockAssumption DEF vars, files, lists, At, Goto, Step
<1> USE DEF RWInv, TypeOK, Label, Local, Placed, ReadLag, WriteLag, Exact,
           WriteCount, SafeSignals, Vulnerable, Critical, Acquiring, Excluded
<1>1. CASE UNCHANGED vars
  BY <1>1
<1>2. ASSUME NEW p \in Proc, CallReadLock(p)
      PROVE  \A q \in Proc : Local(q)'
  BY <1>2 DEF CallReadLock
<1>3. ASSUME NEW p \in Proc, CallWriteLock(p)
      PROVE  \A q \in Proc : Local(q)'
  BY <1>3 DEF CallWriteLock
<1>4. ASSUME NEW p \in Proc, CallReadUnlock(p)
      PROVE  \A q \in Proc : Local(q)'
  BY <1>4 DEF CallReadUnlock
<1>5. ASSUME NEW p \in Proc, CallWriteUnlock(p)
      PROVE  \A q \in Proc : Local(q)'
  BY <1>5 DEF CallWriteUnlock
<1>6. ASSUME NEW p \in Proc, LockGuard(p)
      PROVE  \A q \in Proc : Local(q)'
  BY <1>6 DEF LockGuard
<1>7. ASSUME NEW p \in Proc, UnlockGuard(p)
      PROVE  \A q \in Proc : Local(q)'
  BY <1>7 DEF UnlockGuard
<1>8. ASSUME NEW p \in Proc, TakeMutex(p)
      PROVE  \A q \in Proc : Local(q)'
  BY <1>8 DEF TakeMutex, Entry
<1>9. ASSUME NEW p \in Proc, Release(p)
      PROVE  \A q \in Proc : Local(q)'
  BY <1>9 DEF Release
<1>10. ASSUME NEW p \in Proc, TestRead(p)
      PROVE  \A q \in Proc : Local(q)'
  BY <1>10 DEF TestRead, MustWaitToRead
<1>11. ASSUME NEW p \in Proc, FirstRead(p)
      PROVE  \A q \in Proc : Local(q)'
  BY <1>11 DEF FirstRead
<1>12. ASSUME NEW p \in Proc, CountReader(p)
      PROVE  \A q \in Proc : Local(q)'
  BY <1>12 DEF CountReader
<1>13. ASSUME NEW p \in Proc, ReadAgain(p)
      PROVE  \A q \in Proc : Local(q)'
  BY <1>13 DEF ReadAgain
<1>14. ASSUME NEW p \in Proc, ListRead(p)
      PROVE  \A q \in Proc : Local(q)'
  BY <1>14 DEF ListRead
<1>15. ASSUME NEW p \in Proc, UncountRead(p)
      PROVE  \A q \in Proc : Local(q)'
  BY <1>15 DEF UncountRead
<1>16. ASSUME NEW p \in Proc, UncountReader(p)
      PROVE  \A q \in Proc : Local(q)'
  BY <1>16 DEF UncountReader
<1>17. ASSUME NEW p \in Proc, DropRead(p)
      PROVE  \A q \in Proc : Local(q)'
  BY <1>17 DEF DropRead
<1>18. ASSUME NEW p \in Proc, TakeOrWait(p)
      PROVE  \A q \in Proc : Local(q)'
  BY <1>18 DEF TakeOrWait, BecomeWriter
<1>19. ASSUME NEW p \in Proc, TestWrite(p)
      PROVE  \A q \in Proc : Local(q)'
  BY <1>19 DEF TestWrite, BecomeWriter
<1>20. ASSUME NEW p \in Proc, StopWaiting(p)
      PROVE  \A q \in Proc : Local(q)'
  BY <1>20 DEF StopWaiting
<1>21. ASSUME NEW p \in Proc, ListWrite(p)
      PROVE  \A q \in Proc : Local(q)'
  BY <1>21 DEF ListWrite
<1>22. ASSUME NEW p \in Proc, FreeWrite(p)
      PROVE  \A q \in Proc : Local(q)'
  BY <1>22 DEF FreeWrite
<1>23. ASSUME NEW p \in Proc, DropWrite(p)
      PROVE  \A q \in Proc : Local(q)'
  BY <1>23 DEF DropWrite
<1>24. ASSUME NEW p \in Proc, Exit(p)
      PROVE  \A q \in Proc : Local(q)'
  BY <1>24 DEF Exit
<1>25. ASSUME NEW p \in Proc, Signal(p)
      PROVE  \A q \in Proc : Local(q)'
  BY <1>25 DEF Signal
<1>26. ASSUME NEW p \in Proc, UnlockAll(p)
      PROVE  \A q \in Proc : Local(q)'
  BY <1>26 DEF UnlockAll
<1> QED
  BY <1>1, <1>2, <1>3, <1>4, <1>5, <1>6, <1>7, <1>8, <1>9, <1>10, <1>11, <1>12, <1>13, <1>14, <1>15, <1>16, <1>17, <1>18, <1>19, <1>20, <1>21, <1>22, <1>23, <1>24, <1>25, <1>26
     DEF Next, Library, Script

(* A count that stays while the set does not grow goes on to suffice. *)
LEMMA ReadersKept ==
  ASSUME RWInv, UNCHANGED readers, Readers' \subseteq Readers,
         SafeSignals => Readers' = Readers
  PROVE  ReadersCounted'
<1>1. Cardinality(Readers') <= Cardinality(Readers) /\ Cardinality(Readers') \in Nat
  BY CountsPositive, Finite
<1> QED BY <1>1, CountsPositive DEF RWInv, TypeOK, ReadersCounted, SafeSignals

LEMMA PollingKept ==
  ASSUME RWInv, UNCHANGED waiting, Polling' \subseteq Polling,
         SafeSignals => Polling' = Polling
  PROVE  PollingCounted'
<1>1. Cardinality(Polling') <= Cardinality(Polling) /\ Cardinality(Polling') \in Nat
  BY CountsPositive, Finite
<1> QED BY <1>1, CountsPositive DEF RWInv, TypeOK, PollingCounted, SafeSignals

(* Who is a reader is counted, and uncounted. *)
LEMMA ReadersStep == RWInv /\ [Next]_vars => ReadersCounted'
<1> SUFFICES ASSUME RWInv, [Next]_vars
             PROVE  ReadersCounted'
  OBVIOUS
<1> USE RWLockAssumption DEF vars, files, lists, At, Goto, Step
<1> USE DEF RWInv, TypeOK, Label, Local, Placed, ReadLag, Exact, Readers, Counted,
           SafeSignals, Vulnerable, Acquiring
<1>1. CASE UNCHANGED vars
  BY <1>1, ReadersKept
<1>2. ASSUME NEW p \in Proc, CallReadLock(p)
      PROVE  ReadersCounted'
  BY <1>2, ReadersKept DEF CallReadLock
<1>3. ASSUME NEW p \in Proc, CallWriteLock(p)
      PROVE  ReadersCounted'
  BY <1>3, ReadersKept DEF CallWriteLock
<1>4. ASSUME NEW p \in Proc, CallReadUnlock(p)
      PROVE  ReadersCounted'
  BY <1>4, ReadersKept DEF CallReadUnlock
<1>5. ASSUME NEW p \in Proc, CallWriteUnlock(p)
      PROVE  ReadersCounted'
  BY <1>5, ReadersKept DEF CallWriteUnlock
<1>6. ASSUME NEW p \in Proc, LockGuard(p)
      PROVE  ReadersCounted'
  BY <1>6, ReadersKept DEF LockGuard
<1>7. ASSUME NEW p \in Proc, UnlockGuard(p)
      PROVE  ReadersCounted'
  BY <1>7, ReadersKept DEF UnlockGuard
<1>8. ASSUME NEW p \in Proc, TakeMutex(p)
      PROVE  ReadersCounted'
  BY <1>8, ReadersKept DEF TakeMutex, Entry
<1>9. ASSUME NEW p \in Proc, Release(p)
      PROVE  ReadersCounted'
  BY <1>9, ReadersKept DEF Release
<1>10. ASSUME NEW p \in Proc, TestRead(p)
      PROVE  ReadersCounted'
  BY <1>10, ReadersKept DEF TestRead, MustWaitToRead
<1>11. ASSUME NEW p \in Proc, FirstRead(p)
      PROVE  ReadersCounted'
  BY <1>11, ReadersKept DEF FirstRead
<1>12. ASSUME NEW p \in Proc, CountReader(p)
      PROVE  ReadersCounted'
  <2>1. Readers' = Readers \cup {p} /\ p \notin Readers /\ readers' = readers + 1
    BY <1>12 DEF CountReader
  <2>2. Cardinality(Readers') = Cardinality(Readers) + 1
    BY <2>1, CountsPositive, OneMore
  <2> QED BY <2>1, <2>2, CountsPositive DEF ReadersCounted
<1>13. ASSUME NEW p \in Proc, ReadAgain(p)
      PROVE  ReadersCounted'
  BY <1>13, ReadersKept DEF ReadAgain
<1>14. ASSUME NEW p \in Proc, ListRead(p)
      PROVE  ReadersCounted'
  BY <1>14, ReadersKept DEF ListRead
<1>15. ASSUME NEW p \in Proc, UncountRead(p)
      PROVE  ReadersCounted'
  BY <1>15, ReadersKept DEF UncountRead
<1>16. ASSUME NEW p \in Proc, UncountReader(p)
      PROVE  ReadersCounted'
  <2>1. Readers' = Readers \ {p} /\ p \in Readers /\ readers' = readers - 1
    BY <1>16 DEF UncountReader
  <2>2. Cardinality(Readers') = Cardinality(Readers) - 1
    BY <2>1, CountsPositive, OneLess
  <2> QED BY <2>1, <2>2, CountsPositive DEF ReadersCounted
<1>17. ASSUME NEW p \in Proc, DropRead(p)
      PROVE  ReadersCounted'
  BY <1>17, ReadersKept DEF DropRead
<1>18. ASSUME NEW p \in Proc, TakeOrWait(p)
      PROVE  ReadersCounted'
  BY <1>18, ReadersKept DEF TakeOrWait, BecomeWriter
<1>19. ASSUME NEW p \in Proc, TestWrite(p)
      PROVE  ReadersCounted'
  BY <1>19, ReadersKept DEF TestWrite, BecomeWriter
<1>20. ASSUME NEW p \in Proc, StopWaiting(p)
      PROVE  ReadersCounted'
  BY <1>20, ReadersKept DEF StopWaiting
<1>21. ASSUME NEW p \in Proc, ListWrite(p)
      PROVE  ReadersCounted'
  BY <1>21, ReadersKept DEF ListWrite
<1>22. ASSUME NEW p \in Proc, FreeWrite(p)
      PROVE  ReadersCounted'
  BY <1>22, ReadersKept DEF FreeWrite
<1>23. ASSUME NEW p \in Proc, DropWrite(p)
      PROVE  ReadersCounted'
  BY <1>23, ReadersKept DEF DropWrite
<1>24. ASSUME NEW p \in Proc, Exit(p)
      PROVE  ReadersCounted'
  BY <1>24, ReadersKept DEF Exit
<1>25. ASSUME NEW p \in Proc, Signal(p)
      PROVE  ReadersCounted'
  BY <1>25, ReadersKept DEF Signal
<1>26. ASSUME NEW p \in Proc, UnlockAll(p)
      PROVE  ReadersCounted'
  BY <1>26, ReadersKept DEF UnlockAll
<1> QED
  BY <1>1, <1>2, <1>3, <1>4, <1>5, <1>6, <1>7, <1>8, <1>9, <1>10, <1>11, <1>12, <1>13, <1>14, <1>15, <1>16, <1>17, <1>18, <1>19, <1>20, <1>21, <1>22, <1>23, <1>24, <1>25, <1>26
     DEF Next, Library, Script

(* Who polls for the write lock is counted, and uncounted. *)
LEMMA PollingStep == RWInv /\ [Next]_vars => PollingCounted'
<1> SUFFICES ASSUME RWInv, [Next]_vars
             PROVE  PollingCounted'
  OBVIOUS
<1> USE RWLockAssumption DEF vars, files, lists, At, Goto, Step
<1> USE DEF RWInv, TypeOK, Label, Polling, SafeSignals, Vulnerable
<1>1. CASE UNCHANGED vars
  BY <1>1, PollingKept
<1>2. ASSUME NEW p \in Proc, CallReadLock(p)
      PROVE  PollingCounted'
  BY <1>2, PollingKept DEF CallReadLock
<1>3. ASSUME NEW p \in Proc, CallWriteLock(p)
      PROVE  PollingCounted'
  BY <1>3, PollingKept DEF CallWriteLock
<1>4. ASSUME NEW p \in Proc, CallReadUnlock(p)
      PROVE  PollingCounted'
  BY <1>4, PollingKept DEF CallReadUnlock
<1>5. ASSUME NEW p \in Proc, CallWriteUnlock(p)
      PROVE  PollingCounted'
  BY <1>5, PollingKept DEF CallWriteUnlock
<1>6. ASSUME NEW p \in Proc, LockGuard(p)
      PROVE  PollingCounted'
  BY <1>6, PollingKept DEF LockGuard
<1>7. ASSUME NEW p \in Proc, UnlockGuard(p)
      PROVE  PollingCounted'
  BY <1>7, PollingKept DEF UnlockGuard
<1>8. ASSUME NEW p \in Proc, TakeMutex(p)
      PROVE  PollingCounted'
  BY <1>8, PollingKept DEF TakeMutex, Entry
<1>9. ASSUME NEW p \in Proc, Release(p)
      PROVE  PollingCounted'
  BY <1>9, PollingKept DEF Release
<1>10. ASSUME NEW p \in Proc, TestRead(p)
      PROVE  PollingCounted'
  BY <1>10, PollingKept DEF TestRead, MustWaitToRead
<1>11. ASSUME NEW p \in Proc, FirstRead(p)
      PROVE  PollingCounted'
  BY <1>11, PollingKept DEF FirstRead
<1>12. ASSUME NEW p \in Proc, CountReader(p)
      PROVE  PollingCounted'
  BY <1>12, PollingKept DEF CountReader
<1>13. ASSUME NEW p \in Proc, ReadAgain(p)
      PROVE  PollingCounted'
  BY <1>13, PollingKept DEF ReadAgain
<1>14. ASSUME NEW p \in Proc, ListRead(p)
      PROVE  PollingCounted'
  BY <1>14, PollingKept DEF ListRead
<1>15. ASSUME NEW p \in Proc, UncountRead(p)
      PROVE  PollingCounted'
  BY <1>15, PollingKept DEF UncountRead
<1>16. ASSUME NEW p \in Proc, UncountReader(p)
      PROVE  PollingCounted'
  BY <1>16, PollingKept DEF UncountReader
<1>17. ASSUME NEW p \in Proc, DropRead(p)
      PROVE  PollingCounted'
  BY <1>17, PollingKept DEF DropRead
<1>18. ASSUME NEW p \in Proc, TakeOrWait(p)
      PROVE  PollingCounted'
  <2>1. CASE At(p, "wtake") /\ Goto(p, "wlist") /\ UNCHANGED waiting
    BY <2>1, PollingKept
  <2>2. CASE At(p, "wtake") /\ Goto(p, "wsleep") /\ waiting' = waiting + 1
    <3>1. Polling' = Polling \cup {p} /\ p \notin Polling
      BY <2>2
    <3>2. Cardinality(Polling') = Cardinality(Polling) + 1
      BY <3>1, CountsPositive, OneMore
    <3> QED BY <2>2, <3>2, CountsPositive DEF PollingCounted
  <2> QED BY <1>18, <2>1, <2>2 DEF TakeOrWait
<1>19. ASSUME NEW p \in Proc, TestWrite(p)
      PROVE  PollingCounted'
  BY <1>19, PollingKept DEF TestWrite, BecomeWriter
<1>20. ASSUME NEW p \in Proc, StopWaiting(p)
      PROVE  PollingCounted'
  <2>1. Polling' = Polling \ {p} /\ p \in Polling /\ waiting' = waiting - 1
    BY <1>20 DEF StopWaiting
  <2>2. Cardinality(Polling') = Cardinality(Polling) - 1
    BY <2>1, CountsPositive, OneLess
  <2> QED BY <2>1, <2>2, CountsPositive DEF PollingCounted
<1>21. ASSUME NEW p \in Proc, ListWrite(p)
      PROVE  PollingCounted'
  BY <1>21, PollingKept DEF ListWrite
<1>22. ASSUME NEW p \in Proc, FreeWrite(p)
      PROVE  PollingCounted'
  BY <1>22, PollingKept DEF FreeWrite
<1>23. ASSUME NEW p \in Proc, DropWrite(p)
      PROVE  PollingCounted'
  BY <1>23, PollingKept DEF DropWrite
<1>24. ASSUME NEW p \in Proc, Exit(p)
      PROVE  PollingCounted'
  BY <1>24, PollingKept DEF Exit
<1>25. ASSUME NEW p \in Proc, Signal(p)
      PROVE  PollingCounted'
  BY <1>25, PollingKept DEF Signal
<1>26. ASSUME NEW p \in Proc, UnlockAll(p)
      PROVE  PollingCounted'
  BY <1>26, PollingKept DEF UnlockAll
<1> QED
  BY <1>1, <1>2, <1>3, <1>4, <1>5, <1>6, <1>7, <1>8, <1>9, <1>10, <1>11, <1>12, <1>13, <1>14, <1>15, <1>16, <1>17, <1>18, <1>19, <1>20, <1>21, <1>22, <1>23, <1>24, <1>25, <1>26
     DEF Next, Library, Script

(* What sync_can_take_write_lock finds out: nobody but p is a reader. *)
LEMMA NobodyElseReads ==
  ASSUME RWInv, NEW p \in Proc, pc[p] \in {"wtake", "wtest"}, CanTakeWriteLock(p)
  PROVE  Readers \subseteq {p}
<1>1. CASE readers = 0
  BY <1>1, CountsPositive
<1>2. CASE own[p] > 0 /\ readers = 1
  <2>1. p \in Readers
    BY <1>2 DEF RWInv, Local, Placed, ReadLag, Exact, Acquiring, Readers, Counted, TypeOK
  <2>2. Cardinality(Readers) <= 1
    BY <1>2 DEF RWInv, ReadersCounted
  <2> QED BY <2>1, <2>2, CountsPositive, Alone
<1> QED BY <1>1, <1>2 DEF CanTakeWriteLock

(* Nobody becomes a reader beside a writer, or a writer beside a reader. *)
LEMMA ExcludedStep == RWInv /\ [Next]_vars => Excluded'
<1> SUFFICES ASSUME RWInv, [Next]_vars
             PROVE  Excluded'
  OBVIOUS
<1> USE RWLockAssumption DEF vars, files, lists, At, Goto, Step
<1> USE DEF RWInv, TypeOK, Label, Local, Placed, ReadLag, Exact, Readers, Counted, Excluded, Acquiring
<1>1. CASE UNCHANGED vars
  BY <1>1
<1>2. ASSUME NEW p \in Proc, CallReadLock(p)
      PROVE  Excluded'
  BY <1>2 DEF CallReadLock
<1>3. ASSUME NEW p \in Proc, CallWriteLock(p)
      PROVE  Excluded'
  BY <1>3 DEF CallWriteLock
<1>4. ASSUME NEW p \in Proc, CallReadUnlock(p)
      PROVE  Excluded'
  BY <1>4 DEF CallReadUnlock
<1>5. ASSUME NEW p \in Proc, CallWriteUnlock(p)
      PROVE  Excluded'
  BY <1>5 DEF CallWriteUnlock
<1>6. ASSUME NEW p \in Proc, LockGuard(p)
      PROVE  Excluded'
  BY <1>6 DEF LockGuard
<1>7. ASSUME NEW p \in Proc, UnlockGuard(p)
      PROVE  Excluded'
  BY <1>7 DEF UnlockGuard
<1>8. ASSUME NEW p \in Proc, TakeMutex(p)
      PROVE  Excluded'
  BY <1>8 DEF TakeMutex, Entry
<1>9. ASSUME NEW p \in Proc, Release(p)
      PROVE  Excluded'
  BY <1>9 DEF Release
<1>10. ASSUME NEW p \in Proc, TestRead(p)
      PROVE  Excluded'
  BY <1>10 DEF TestRead, MustWaitToRead
<1>11. ASSUME NEW p \in Proc, FirstRead(p)
      PROVE  Excluded'
  BY <1>11 DEF FirstRead
<1>12. ASSUME NEW p \in Proc, CountReader(p)
      PROVE  Excluded'
  BY <1>12 DEF CountReader
<1>13. ASSUME NEW p \in Proc, ReadAgain(p)
      PROVE  Excluded'
  BY <1>13 DEF ReadAgain
<1>14. ASSUME NEW p \in Proc, ListRead(p)
      PROVE  Excluded'
  BY <1>14 DEF ListRead
<1>15. ASSUME NEW p \in Proc, UncountRead(p)
      PROVE  Excluded'
  BY <1>15 DEF UncountRead
<1>16. ASSUME NEW p \in Proc, UncountReader(p)
      PROVE  Excluded'
  BY <1>16 DEF UncountReader
<1>17. ASSUME NEW p \in Proc, DropRead(p)
      PROVE  Excluded'
  BY <1>17 DEF DropRead
<1>18. ASSUME NEW p \in Proc, TakeOrWait(p)
      PROVE  Excluded'
  <2>1. CanTakeWriteLock(p) => Readers \subseteq {p}
    BY <1>18, NobodyElseReads DEF TakeOrWait
  <2>2. Readers' = Readers
    BY <1>18 DEF TakeOrWait
  <2> QED BY <1>18, <2>1, <2>2 DEF TakeOrWait, BecomeWriter
<1>19. ASSUME NEW p \in Proc, TestWrite(p)
      PROVE  Excluded'
  <2>1. CanTakeWriteLock(p) => Readers \subseteq {p}
    BY <1>19, NobodyElseReads DEF TestWrite
  <2>2. Readers' = Readers
    BY <1>19 DEF TestWrite
  <2> QED BY <1>19, <2>1, <2>2 DEF TestWrite, BecomeWriter
<1>20. ASSUME NEW p \in Proc, StopWaiting(p)
      PROVE  Excluded'
  BY <1>20 DEF StopWaiting
<1>21. ASSUME NEW p \in Proc, ListWrite(p)
      PROVE  Excluded'
  BY <1>21 DEF ListWrite
<1>22. ASSUME NEW p \in Proc, FreeWrite(p)
      PROVE  Excluded'
  BY <1>22 DEF FreeWrite
<1>23. ASSUME NEW p \in Proc, DropWrite(p)
      PROVE  Excluded'
  BY <1>23 DEF DropWrite
<1>24. ASSUME NEW p \in Proc, Exit(p)
      PROVE  Excluded'
  BY <1>24 DEF Exit
<1>25. ASSUME NEW p \in Proc, Signal(p)
      PROVE  Excluded'
  BY <1>25 DEF Signal
<1>26. ASSUME NEW p \in Proc, UnlockAll(p)
      PROVE  Excluded'
  BY <1>26 DEF UnlockAll
<1> QED
  BY <1>1, <1>2, <1>3, <1>4, <1>5, <1>6, <1>7, <1>8, <1>9, <1>10, <1>11, <1>12, <1>13, <1>14, <1>15, <1>16, <1>17, <1>18, <1>19, <1>20, <1>21, <1>22, <1>23, <1>24, <1>25, <1>26
     DEF Next, Library, Script

(* Initially no file exists, no list has an entry, and nobody polls. *)
LEMMA InitRWInv == Init => RWInv
<1> SUFFICES ASSUME Init
             PROVE  RWInv
  OBVIOUS
<1>1. Readers = {} /\ Polling = {}
  BY DEF Init, Readers, Counted, Polling
<1>2. ReadersCounted /\ PollingCounted
  BY <1>1, FS_EmptySet DEF Init, ReadersCounted, PollingCounted
<1>3. TypeOK /\ Excluded /\ \A p \in Proc : Local(p)
  BY <1>1, RWLockAssumption
     DEF Init, TypeOK, Label, Excluded, Local, Placed, ReadLag, WriteLag,
         WriteCount, Critical, Acquiring
<1> QED BY <1>2, <1>3 DEF RWInv

(* RWInv holds in every reachable state. *)
THEOREM Invariance == Spec => []RWInv
<1>1. RWInv /\ [Next]_vars => RWInv'
  BY TypeStep, LocalStep, ReadersStep, PollingStep, ExcludedStep DEF RWInv
<1> QED BY <1>1, InitRWInv, PTL DEF Spec

-----------------------------------------------------------------------------
(* What holds wherever a signal strikes *)

(* Every variable keeps its type: no count in a file or a list is ever     *)
(* decremented below zero.                                                 *)
THEOREM TypeCorrect == Spec => []TypeOK
BY Invariance, PTL DEF RWInv

(* While a script is in a write section, no other one reads or writes.     *)
THEOREM Exclusion == Spec => []WriterAlone
<1>1. RWInv => WriterAlone
  BY RWLockAssumption
     DEF RWInv, TypeOK, WriterAlone, InWrite, InRead, At, Local, Placed, ReadLag,
         WriteLag, WriteCount, Exact, Acquiring, Excluded, Readers, Counted
<1> QED BY <1>1, Invariance, PTL

(* While a writer waits, nobody becomes a reader who is not one yet.       *)
THEOREM Preference == Spec => WritersPreferred
<1> DEFINE P == \A p \in Proc : own[p] = 0 /\ own'[p] > 0 => waiting = 0 /\ writer = NoProc
<1>1. RWInv /\ [Next]_vars => [P]_vars
  <2> SUFFICES ASSUME RWInv, Next
               PROVE  P
    OBVIOUS
  <2> USE DEF RWInv, TypeOK, Local, ReadLag, files, lists, Step, At
  <2>1. ASSUME NEW p \in Proc, FirstRead(p)
        PROVE  P
    BY <2>1 DEF FirstRead
  <2>2. ASSUME NEW p \in Proc, ReadAgain(p)
        PROVE  P
    BY <2>2 DEF ReadAgain
  <2>3. ASSUME NEW p \in Proc, UncountRead(p)
        PROVE  P
    BY <2>3 DEF UncountRead
  <2>4. CASE UNCHANGED own
    BY <2>4
  <2> QED
    BY <2>1, <2>2, <2>3, <2>4
       DEF Next, Library, Script, CallReadLock, CallWriteLock, CallReadUnlock,
           CallWriteUnlock, LockGuard, UnlockGuard, TakeMutex, Release, TestRead,
           CountReader, ListRead, UncountReader, DropRead, TakeOrWait, TestWrite,
           StopWaiting, ListWrite, FreeWrite, DropWrite, Exit, Signal, UnlockAll
<1> QED BY <1>1, Invariance, PTL DEF Spec, WritersPreferred

-----------------------------------------------------------------------------
(* What holds if no signal strikes at a vulnerable point *)

(* Between calls the files agree with the lists of the processes.          *)
THEOREM Agreement ==
  ASSUME SafeSignals
  PROVE  Spec => []CountsAgree
<1>1. RWInv => CountsAgree
  <2> SUFFICES ASSUME RWInv, mutex = NoProc
               PROVE  CountsAgree
    BY DEF CountsAgree
  <2>1. \A p \in Proc : pc[p] \notin Critical
    BY RWLockAssumption DEF RWInv, Local, Placed
  <2>2. \A p \in Proc : /\ own[p] = rheld[p]
                        /\ wheld[p] = WriteCount(p)
    BY <2>1 DEF RWInv, Local, ReadLag, WriteLag, Exact, Critical
  <2>3. Readers = {p \in Proc : own[p] > 0}
    BY <2>1, <2>2 DEF Readers, Counted, Critical
  <2> QED BY <2>2, <2>3 DEF CountsAgree, WriteCount, RWInv, ReadersCounted
<1> QED BY <1>1, Invariance, PTL

(* writers-waiting is the number of processes that poll.                   *)
THEOREM WaitingCounted ==
  ASSUME SafeSignals
  PROVE  Spec => []WaitingIsExact
<1>1. RWInv => WaitingIsExact
  BY DEF RWInv, PollingCounted, Polling, WaitingIsExact
<1> QED BY <1>1, Invariance, PTL

(* A process that is gone has left no lock behind.                         *)
THEOREM Released ==
  ASSUME SafeSignals
  PROVE  Spec => []NothingLeftBehind
<1>1. RWInv => NothingLeftBehind
  BY RWLockAssumption
     DEF RWInv, TypeOK, Local, Placed, ReadLag, WriteLag, WriteCount, Exact,
         Excluded, NothingLeftBehind
<1> QED BY <1>1, Invariance, PTL

-----------------------------------------------------------------------------
(* RWLock implements AbstractRWLock *)

(* A writer has no reader beside it, in the terms of AbstractRWLock. *)
LEMMA ReadersOwn ==
  ASSUME SafeSignals, RWInv, NEW p \in Proc, own[p] > 0
  PROVE  pc[p] = "ractive" \/ p \in Readers
BY DEF RWInv, TypeOK, Local, ReadLag, Exact, Readers, Counted

(* Every step reads, writes, unlocks or changes nothing a caller can see.  *)
LEMMA NextAbs ==
  ASSUME SafeSignals
  PROVE  RWInv /\ [Next]_vars => [Abs!Next]_(Abs!vars)
<1> SUFFICES ASSUME RWInv, [Next]_vars
             PROVE  [Abs!Next]_(Abs!vars)
  OBVIOUS
<1> DEFINE wr == [p \in Proc |-> WriteCount(p)]
<1> USE RWLockAssumption DEF RWInv, TypeOK, WriteCount, Abs!vars, files, Step, At
<1>1. CASE UNCHANGED <<own, writer, depth>>
  BY <1>1
<1>2. ASSUME NEW p \in Proc, FirstRead(p)
      PROVE  Abs!LockForReading(p)
  <2>1. own[p] = 0 /\ writer = NoProc
    BY <1>2 DEF FirstRead, Local, ReadLag
  <2>2. own' = [own EXCEPT ![p] = own[p] + 1] /\ UNCHANGED <<writer, depth>>
    BY <1>2, <2>1 DEF FirstRead
  <2> QED BY <2>1, <2>2 DEF Abs!LockForReading, Abs!Writes
<1>3. ASSUME NEW p \in Proc, ReadAgain(p)
      PROVE  Abs!LockForReading(p)
  BY <1>3 DEF ReadAgain, Abs!LockForReading, Abs!Reads, Local, ReadLag
<1>4. ASSUME NEW p \in Proc, UncountRead(p), own[p] > 0
      PROVE  Abs!UnlockForReading(p)
  BY <1>4 DEF UncountRead, Abs!UnlockForReading, Abs!Reads
<1>5. ASSUME NEW p \in Proc, pc[p] \in {"wtake", "wtest"}, writer = NoProc,
             CanTakeWriteLock(p), BecomeWriter(p), UNCHANGED own
      PROVE  Abs!LockForWriting(p)
  <2>1. \A q \in Proc : q # p => own[q] = 0
    <3> SUFFICES ASSUME NEW q \in Proc, own[q] > 0
                 PROVE  q = p
      OBVIOUS
    <3>1. pc[q] # "ractive"
      BY <1>5 DEF Local, Placed, Critical
    <3>2. q \in Readers
      BY <3>1, ReadersOwn
    <3>3. Readers \subseteq {p}
      BY <1>5, NobodyElseReads
    <3> QED BY <3>2, <3>3
  <2>2. wr' = [wr EXCEPT ![p] = @ + 1]
    <3>1. wr = [q \in Proc |-> 0]
      BY <1>5
    <3>2. wr' = [q \in Proc |-> IF q = p THEN 1 ELSE 0]
      BY <1>5 DEF BecomeWriter
    <3> HIDE DEF wr
    <3> QED BY <3>1, <3>2
  <2> QED BY <1>5, <2>1, <2>2 DEF Abs!LockForWriting, Abs!Reads, Abs!Writes
<1>6. ASSUME NEW p \in Proc, writer = p, depth' = depth + 1, UNCHANGED <<own, writer>>
      PROVE  Abs!LockForWriting(p)
  <2>1. wr' = [wr EXCEPT ![p] = @ + 1]
    BY <1>6
  <2> QED BY <1>6, <2>1 DEF Excluded, Abs!LockForWriting, Abs!Writes
<1>7. ASSUME NEW p \in Proc, FreeWrite(p), writer = p
      PROVE  Abs!UnlockForWriting(p)
  <2>1. depth > 0
    BY <1>7 DEF Excluded
  <2>2. wr' = [wr EXCEPT ![p] = @ - 1]
    BY <1>7, <2>1 DEF FreeWrite
  <2> QED BY <1>7, <2>1, <2>2 DEF FreeWrite, Abs!UnlockForWriting, Abs!Writes
<1>8. CASE Next
  <2>1. PICK p \in Proc : Library(p) \/ Script(p) \/ Signal(p)
    BY <1>8 DEF Next
  <2>2. \/ UNCHANGED <<own, writer, depth>>
        \/ FirstRead(p) \/ ReadAgain(p)
        \/ UncountRead(p) /\ own[p] > 0
        \/ /\ pc[p] \in {"wtake", "wtest"} /\ writer = NoProc
           /\ CanTakeWriteLock(p) /\ BecomeWriter(p) /\ UNCHANGED own
        \/ writer = p /\ depth' = depth + 1 /\ UNCHANGED <<own, writer>>
        \/ FreeWrite(p) /\ writer = p
    BY <2>1
       DEF Library, Script, CallReadLock, CallWriteLock, CallReadUnlock,
           CallWriteUnlock, LockGuard, UnlockGuard, TakeMutex, Release, TestRead,
           CountReader, ListRead, UncountRead, UncountReader, DropRead, TakeOrWait,
           TestWrite, StopWaiting, ListWrite, FreeWrite, DropWrite, Exit, Signal,
           UnlockAll
  <2> QED
    BY <1>1, <1>2, <1>3, <1>4, <1>5, <1>6, <1>7, <2>2 DEF Abs!Next
<1> QED BY <1>1, <1>8 DEF vars

(* The files and commands of locking.inc keep the promise of AbstractRWLock. *)
THEOREM Implements ==
  ASSUME SafeSignals
  PROVE  Spec => AbsSpec
<1>1. Init => Abs!Init
  BY DEF Init, Abs!Init
<1> QED BY <1>1, Invariance, NextAbs, PTL DEF Spec, AbsSpec, Abs!Spec

=============================================================================
