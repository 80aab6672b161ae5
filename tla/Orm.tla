-------------------------------- MODULE Orm ---------------------------------
(***************************************************************************)
(* What every repository of app/repositories shares: a request loads a row *)
(* into an object, assigns to its attributes, and commits.  The UPDATE     *)
(* holds the columns whose value differs from the one that was loaded; the *)
(* others keep what is stored, whoever stored it.                          *)
(***************************************************************************)

(* The field of a PATCH that was not given; the column of an absent row. *)
Unset == "unset"

Statuses == {"active", "inactive"}

(* Defect: the whole row is written back. *)
ColumnAlways(stored, read, assigned) == assigned

(* A column of the stored row after the commit. *)
Column(stored, read, assigned) == IF assigned = read THEN stored ELSE assigned

(* Defect: a field that was left out is applied too. *)
GivenOrNot(field, value) == field

(* A field of the object after a PATCH applied what it was given. *)
Given(field, value) == IF field = Unset THEN value ELSE field
=============================================================================
