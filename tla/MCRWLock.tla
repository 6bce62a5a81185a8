------------------------------ MODULE MCRWLock ------------------------------
EXTENDS RWLock, TLC
(* A signal strikes wherever it does no lasting harm ... *)
SafePoints == Label \ (Vulnerable \cup {"exit", "dead"})
(* ... or while a process polls for the write lock. *)
PollPoint == {"wsleep"}
=============================================================================
