---------------------------- MODULE MCLockOrder ----------------------------
(* Three tasks: the admin's alert request, an answer to an alert, and the mixer. *)
EXTENDS LockOrder, TLC

AnyTask == Permutations(Tasks)
=============================================================================
