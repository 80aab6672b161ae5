--------------------------- MODULE MCResetHistory ----------------------------
(* ResetHistory on a small instance. *)
EXTENDS ResetHistory, TLC

Symmetric == Permutations(Resets) \cup Permutations(OtpRequests)
             \cup Permutations(Passwords \ {InitialPassword})
=============================================================================
