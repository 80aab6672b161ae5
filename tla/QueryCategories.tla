-------------------------- MODULE QueryCategories ---------------------------
(***************************************************************************)
(* Creating, patching and deleting query categories:                       *)
(* services/query_category.py over the rows of query_categories, as their  *)
(* routes call it for an admin with the permission.  Each row names the    *)
(* admin who changed it last.                                              *)
(*                                                                         *)
(* The other text columns, module, type and description, are treated as    *)
(* label is.  created_by, written once by the creation, is left out.       *)
(***************************************************************************)
EXTENDS Orm

CONSTANTS
    Calls,      \* slots in which calls are served; reused
    Admins,
    Ids,        \* ids the sequence of the table may give
    Keys,
    Labels

ASSUME UnsetAssumption == Unset \notin Keys

Row == [key : Keys, label : Labels, status : Statuses,
        updatedBy : Admins]
NoRow == [key |-> Unset, label |-> Unset, status |-> Unset,
          updatedBy |-> Unset]

VARIABLES
    rows,       \* rows[i]: the stored row of category i, or NoRow
    call        \* call[q]: what slot q is serving and how far it is

vars == <<rows, call>>

Idle == [at |-> "idle"]
Served == [at |-> "served"]

KeyFree(key, i) == \A j \in Ids \ {i} : rows[j].key # key

(* QueryCategoryUpdate; a field left out, or null, is Unset. *)
Payload == [key : Keys \cup {Unset}, label : Labels \cup {Unset},
            status : Statuses \cup {Unset}]

(* The object after the assignments of a call by admin. *)
Applied(row, payload, admin) ==
    [row EXCEPT !.key = Given(payload.key, @),
                !.label = Given(payload.label, @),
                !.status = Given(payload.status, @),
                !.updatedBy = admin]

WrittenRow(stored, read, assigned) ==
    [key       |-> Column(stored.key, read.key, assigned.key),
     label     |-> Column(stored.label, read.label, assigned.label),
     status    |-> Column(stored.status, read.status, assigned.status),
     updatedBy |-> Column(stored.updatedBy, read.updatedBy, assigned.updatedBy)]

-----------------------------------------------------------------------------
Init ==
    /\ rows = [i \in Ids |-> NoRow]
    /\ call = [q \in Calls |-> Idle]

Begin(q, job) ==
    /\ call[q] \in {Idle, Served}
    /\ call' = [call EXCEPT ![q] = job]
    /\ UNCHANGED rows

End(q, reply) == call' = [call EXCEPT ![q] = reply]

(* POST /query-categories, the key found free; the id comes with the row. *)
CreateCategory(q, admin, key, label, status) ==
    /\ \A i \in Ids : rows[i].key # key
    /\ Begin(q, [at |-> "insert",
                 new |-> [key |-> key, label |-> label, status |-> status,
                          updatedBy |-> admin]])

Change(q, i, admin, at, payload) ==
    /\ rows[i] # NoRow
    /\ Begin(q, [at |-> at, id |-> i, admin |-> admin, old |-> rows[i],
                 payload |-> payload])

(* PATCH /query-categories/{id} *)
UpdateCategory(q, i, admin, payload) ==
    Change(q, i, admin, IF payload.key = Unset THEN "save" ELSE "checkKey",
           payload)

(* DELETE /query-categories/{id} *)
DeleteCategory(q, i, admin) ==
    Change(q, i, admin, "save",
           [key |-> Unset, label |-> Unset, status |-> "inactive"])

(* _ensure_key_available *)
CheckKey(q) ==
    /\ call[q].at = "checkKey"
    /\ IF KeyFree(call[q].payload.key, call[q].id)
       THEN call' = [call EXCEPT ![q].at = "save"]
       ELSE End(q, Idle)
    /\ UNCHANGED rows

(* Defect: no unique index stands behind the check. *)
CommitUnchecked(q, i, row) == rows' = [rows EXCEPT ![i] = row] /\ End(q, Served)

(* The unique index of key refuses what the check let through. *)
Commit(q, i, row) ==
    IF KeyFree(row.key, i)
    THEN rows' = [rows EXCEPT ![i] = row] /\ End(q, Served)
    ELSE UNCHANGED rows /\ End(q, Idle)

InsertCategory(q, i) ==
    /\ call[q].at = "insert"
    /\ rows[i] = NoRow
    /\ Commit(q, i, call[q].new)

SaveCategory(q) ==
    LET job == call[q]
    IN  /\ job.at = "save"
        /\ Commit(q, job.id,
                  WrittenRow(rows[job.id], job.old,
                             Applied(job.old, job.payload, job.admin)))

(* The connection or the process is lost; the transaction is rolled back. *)
Abort(q) ==
    /\ call[q] \notin {Idle, Served}
    /\ End(q, Idle)
    /\ UNCHANGED rows

(* No call creates a row for which the instance has no id left. *)
CategoryCall(q, admin) ==
    \/ /\ \E i \in Ids : rows[i] = NoRow
       /\ \E key \in Keys, label \in Labels, status \in Statuses :
             CreateCategory(q, admin, key, label, status)
    \/ \E i \in Ids : \/ \E payload \in Payload : UpdateCategory(q, i, admin, payload)
                      \/ DeleteCategory(q, i, admin)

Next ==
    \E q \in Calls : \/ \E admin \in Admins : CategoryCall(q, admin)
                     \/ CheckKey(q)
                     \/ \E i \in Ids : InsertCategory(q, i)
                     \/ SaveCategory(q)
                     \/ Abort(q)

Spec == Init /\ [][Next]_vars

-----------------------------------------------------------------------------
Jobs ==
    {Idle, Served}
    \cup [at : {"insert"}, new : Row]
    \cup [at : {"checkKey", "save"}, id : Ids, admin : Admins, old : Row,
          payload : Payload]

(* The table holds rows of its columns' types, every call its own data. *)
TypeOK ==
    /\ rows \in [Ids -> Row \cup {NoRow}]
    /\ call \in [Calls -> Jobs]

(* The categories are a table with a unique key from which nothing is ever *)
(* removed, however calls race (_ensure_key_available, delete_category).   *)
Table == INSTANCE UniqueTable
    WITH NoKey <- Unset, key <- [c \in Ids |-> rows[c].key]
ImplementsTable == Table!Spec

(* The call whose commit is the step from call to call'. *)
Commits(q) == call[q].at = "save" /\ call'[q] = Served

(* What the commit of call q writes of the row it finds stored. *)
WritesOnlyGiven(q) ==
    LET job == call[q]
        old == rows[job.id]
        new == rows'[job.id]
    IN  /\ \A column \in {"key", "label", "status"} :
              new[column] \in {old[column], job.payload[column]}
        /\ new.updatedBy \in {old.updatedBy, job.admin}

(* A commit never puts back what another call has changed meanwhile: a     *)
(* column takes a new value only if the committing call gave it, and       *)
(* updated_by takes only the name of its admin (update_category).          *)
OnlyGivenChanges == [][ \A q \in Calls : Commits(q) => WritesOnlyGiven(q) ]_vars
=============================================================================
