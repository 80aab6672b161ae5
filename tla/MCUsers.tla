------------------------------ MODULE MCUsers -------------------------------
(* AuditedUsers on a small instance. *)
EXTENDS AuditedUsers, TLC

NameLeftOut == {Unset}

Symmetric == Permutations(Calls) \cup Permutations(UserIds \ Watched)
             \cup Permutations(Emails) \cup Permutations(UserNames)
=============================================================================
