-------------------------- MODULE MCLockFreeQueue --------------------------
(***************************************************************************)
(* LockFreeQueue for TLC: three threads that all push and pop, a ring of   *)
(* two nodes, and enough tickets for the ring to wrap around twice.        *)
(***************************************************************************)
EXTENDS LockFreeQueue, TLC

\* The threads are interchangeable, and so are the values.
Symmetry == Permutations(Threads) \cup Permutations(Values)
=============================================================================
