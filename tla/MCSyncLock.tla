----------------------------- MODULE MCSyncLock -----------------------------
EXTENDS SyncLock, TLC
Symmetry == Permutations(Proc) \cup Permutations(Res)
=============================================================================
