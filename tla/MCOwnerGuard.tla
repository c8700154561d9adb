---------------------------- MODULE MCOwnerGuard ----------------------------
(* Writes of the owners' roles and statuses alone, as the administration      *)
(* offers them to its system token: no cookies, so user locks and user rows   *)
(* are all there is to wait for.                                              *)
EXTENDS Management, TLC

CONSTANTS p1, p2

Symmetry == Permutations(Task)
=============================================================================
