---------------------------- MODULE MCCategories ----------------------------
(* QueryCategories on a small instance. *)
EXTENDS QueryCategories, TLC

Symmetric == Permutations(Calls) \cup Permutations(Admins)
             \cup Permutations(Ids) \cup Permutations(Keys)
=============================================================================
