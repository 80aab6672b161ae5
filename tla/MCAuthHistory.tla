---------------------------- MODULE MCAuthHistory ----------------------------
(* AuthHistory on a small instance. *)
EXTENDS AuthHistory, TLC

Slots == Permutations(Requests)
=============================================================================
