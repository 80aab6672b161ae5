------------------------------- MODULE MCAuth -------------------------------
(* AuthService on a small instance. *)
EXTENDS AuthService, TLC

Slots == Permutations(Requests)
=============================================================================
