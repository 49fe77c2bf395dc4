---------------------------- MODULE MCScopedLock ----------------------------
(***************************************************************************)
(* Four threads on one lock.  Three are needed for an unlock by a thread   *)
(* that does not hold the lock to let a second one in beside the holder;   *)
(* with four there can be two readers as well.                             *)
(***************************************************************************)
EXTENDS ScopedLock, TLC

Symmetry == Permutations(Users)
=============================================================================
