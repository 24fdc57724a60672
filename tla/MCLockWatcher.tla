---------------------------- MODULE MCLockWatcher ----------------------------
(* Instances of LockWatcher for TLC. *)
EXTENDS LockWatcher, TLC

Symmetry == Permutations(Locks) \cup Permutations(Polls)
=============================================================================
