--------------------------- MODULE UserDirectory ----------------------------
(***************************************************************************)
(* Creating, patching, replacing and deleting platform users:              *)
(* user_service.py over the rows of users, as their routes call it for an  *)
(* admin with the permission.                                              *)
(*                                                                         *)
(* A call reads the row (or finds the email free), checks a new email in a *)
(* second statement, and commits in a third; other calls run in between.   *)
(* The password hash is written by a creation and by every replacement and *)
(* read by nothing here; it is left out.                                   *)
(***************************************************************************)
EXTENDS Orm

CONSTANTS
    Calls,      \* slots in which calls are served; reused
    UserIds,    \* ids a user may be given
    Emails,
    UserNames,
    PatchNames  \* bound: what a PATCH may say of the name

ASSUME UnsetAssumption == Unset \notin Emails

UserRow == [email : Emails, name : UserNames, status : Statuses]
NoUser == [email |-> Unset, name |-> Unset, status |-> Unset]

VARIABLES
    users,      \* users[u]: the stored row of user u, or NoUser
    call        \* call[q]: what slot q is serving and how far it is

vars == <<users, call>>

(* A free slot, and one whose call is committed and not answered yet. *)
Idle == [at |-> "idle"]
Served == [at |-> "served"]

(* No other row has the email: the check, and the unique index. *)
EmailFree(email, u) == \A v \in UserIds \ {u} : users[v].email # email

(* What a call sets; a field left out is Unset. *)
Payload == [email : Emails \cup {Unset}, name : UserNames \cup {Unset},
            status : Statuses \cup {Unset}]

Applied(row, payload) ==
    [email  |-> Given(payload.email, row.email),
     name   |-> Given(payload.name, row.name),
     status |-> Given(payload.status, row.status)]

WrittenUser(stored, read, assigned) ==
    [email  |-> Column(stored.email, read.email, assigned.email),
     name   |-> Column(stored.name, read.name, assigned.name),
     status |-> Column(stored.status, read.status, assigned.status)]

-----------------------------------------------------------------------------
Init ==
    /\ users = [u \in UserIds |-> NoUser]
    /\ call = [q \in Calls |-> Idle]

Begin(q, job) ==
    /\ call[q] = Idle
    /\ call' = [call EXCEPT ![q] = job]
    /\ UNCHANGED users

End(q, reply) == call' = [call EXCEPT ![q] = reply]

(* POST /users, the email found free; u is a fresh uuid. *)
CreateUser(q, u, row) ==
    /\ EmailFree(row.email, u)
    /\ users[u] = NoUser
    /\ \A o \in Calls : call[o].at = "insert" => call[o].user # u
    /\ Begin(q, [at |-> "insert", user |-> u, new |-> row])

(* A call that changes a user it has read. *)
Change(q, u, at, payload) ==
    /\ users[u] # NoUser
    /\ Begin(q, [at |-> at, user |-> u, old |-> users[u], payload |-> payload])

(* PATCH /users/{id} *)
UpdateUser(q, u, payload) ==
    Change(q, u, IF payload.email = Unset THEN "save" ELSE "checkEmail", payload)

(* PUT /users/{id}: "status is left unchanged". *)
ReplaceUser(q, u, email, name) ==
    Change(q, u, "checkEmail", [email |-> email, name |-> name, status |-> Unset])

(* DELETE /users/{id} *)
DeleteUser(q, u) ==
    Change(q, u, "save", [email |-> Unset, name |-> Unset, status |-> "inactive"])

(* _ensure_email_available *)
CheckEmail(q) ==
    /\ call[q].at = "checkEmail"
    /\ IF EmailFree(call[q].payload.email, call[q].user)
       THEN call' = [call EXCEPT ![q].at = "save"]
       ELSE End(q, Idle)
    /\ UNCHANGED users

(* Defect: the refusal of the unique index is swallowed. *)
CommitRefusalTaken(q, row) ==
    /\ users' = IF EmailFree(row.email, call[q].user)
                THEN [users EXCEPT ![call[q].user] = row] ELSE users
    /\ End(q, Served)

(* The commit of row: the unique index refuses what the check let through. *)
Commit(q, row) ==
    IF EmailFree(row.email, call[q].user)
    THEN users' = [users EXCEPT ![call[q].user] = row] /\ End(q, Served)
    ELSE UNCHANGED users /\ End(q, Idle)

(* Defect: no unique index stands behind the check. *)
InsertUnchecked(q) ==
    /\ call[q].at = "insert"
    /\ users' = [users EXCEPT ![call[q].user] = call[q].new]
    /\ End(q, Served)

InsertUser(q) ==
    /\ call[q].at = "insert"
    /\ Commit(q, call[q].new)

SaveUser(q) ==
    LET job == call[q]
    IN  /\ job.at = "save"
        /\ Commit(q, WrittenUser(users[job.user], job.old,
                                 Applied(job.old, job.payload)))

(* The connection or the process is lost; the transaction is rolled back. *)
Abort(q) ==
    /\ call[q] \notin {Idle, Served}
    /\ End(q, Idle)
    /\ UNCHANGED users

(* The refresh, the audit entry and the answer, or the loss of the request *)
(* after its commit.                                                       *)
Answer(q) ==
    /\ call[q] = Served
    /\ End(q, Idle)
    /\ UNCHANGED users

UserCall(q) ==
    \E u \in UserIds :
       \/ \E row \in UserRow : CreateUser(q, u, row)
       \/ \E payload \in Payload : payload.name \in PatchNames
                                  /\ UpdateUser(q, u, payload)
       \/ \E email \in Emails, name \in UserNames : ReplaceUser(q, u, email, name)
       \/ DeleteUser(q, u)

Next ==
    \E q \in Calls : \/ UserCall(q)
                     \/ CheckEmail(q)
                     \/ InsertUser(q)
                     \/ SaveUser(q)
                     \/ Abort(q)
                     \/ Answer(q)

Spec == Init /\ [][Next]_vars

-----------------------------------------------------------------------------
Jobs ==
    {Idle, Served}
    \cup [at : {"insert"}, user : UserIds, new : UserRow]
    \cup [at : {"checkEmail", "save"}, user : UserIds, old : UserRow,
          payload : Payload]

(* The table holds rows of its columns' types, every call its own data. *)
TypeOK ==
    /\ users \in [UserIds -> UserRow \cup {NoUser}]
    /\ call \in [Calls -> Jobs]

(* The users are a table with a unique email from which nothing is ever    *)
(* removed, however calls race (_ensure_email_available, delete_user).     *)
Table == INSTANCE UniqueTable
    WITH Ids <- UserIds, Keys <- Emails, NoKey <- Unset,
         key <- [u \in UserIds |-> users[u].email]
ImplementsTable == Table!Spec

(* A deleted user comes back only by a PATCH that saw it inactive and says *)
(* so: no change in flight over a deletion revives it (delete_user,        *)
(* replace_user: "status is left unchanged").                              *)
RevivedOnlyKnowingly ==
    [][ \A u \in UserIds :
          users[u].status = "inactive" /\ users'[u].status = "active" =>
             \E q \in Calls : /\ call[q].at = "save" /\ call[q].user = u
                              /\ call[q].old.status = "inactive"
                              /\ call[q].payload.status = "active" ]_vars
=============================================================================
