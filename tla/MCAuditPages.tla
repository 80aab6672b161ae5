---------------------------- MODULE MCAuditPages -----------------------------
(* AuditPages on a small instance. *)
EXTENDS AuditPages, TLC

Symmetric == Permutations(Writers)
=============================================================================
