------------------------------- MODULE MCRbac -------------------------------
(* RbacCatalog on a small instance. *)
EXTENDS RbacCatalog, TLC

Symmetric == Permutations(Calls) \cup Permutations(RoleIds \ {SuperRole})

(* A client that asks to write without reading. *)
WriteItem == [read |-> FALSE, write |-> TRUE]
OneItem == {WriteItem}
=============================================================================
