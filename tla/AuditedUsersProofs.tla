------------------------- MODULE AuditedUsersProofs -------------------------
(***************************************************************************)
(* The users keep their type, are a table with a unique email from which   *)
(* nothing is removed, and come back from a deletion only when somebody    *)
(* says so; their audit trail never lies, and accounts for every row of    *)
(* which it lost nothing.  All of it for any number of calls, users,       *)
(* emails and names.                                                       *)
(***************************************************************************)
EXTENDS AuditedUsers, TLAPS

(* A payload applied to a row gives a row, and so does what the commit     *)
(* writes over any stored row.                                             *)
LEMMA AppliedRow ==
    ASSUME NEW row \in UserRow, NEW payload \in Payload
    PROVE  Applied(row, payload) \in UserRow
BY DEF Applied, Given, UserRow, Payload

LEMMA WrittenUserRow ==
    ASSUME NEW stored \in UserRow, NEW read \in UserRow, NEW assigned \in UserRow
    PROVE  WrittenUser(stored, read, assigned) \in UserRow
BY DEF WrittenUser, Column, UserRow

(* NoUser has no email, so it is not a row. *)
LEMMA NoUserIsNoRow == NoUser \notin UserRow
BY UnsetAssumption DEF NoUser, UserRow

-----------------------------------------------------------------------------
(* A slot that is inserting or changing holds the data of its call, and    *)
(* the user a call changes is stored: rows are never removed.              *)
ChangedIsStored ==
    \A q \in Calls :
       call[q].at \in {"checkEmail", "save"} => users[call[q].user] # NoUser

Inv == TypeOK /\ ChangedIsStored

(* What a slot holds at each point of its call. *)
LEMMA JobData ==
    ASSUME TypeOK, NEW q \in Calls
    PROVE  /\ call[q].at = "insert" =>
                 call[q].user \in UserIds /\ call[q].new \in UserRow
           /\ call[q].at \in {"checkEmail", "save"} =>
                 /\ call[q].user \in UserIds
                 /\ call[q].old \in UserRow
                 /\ call[q].payload \in Payload
                 /\ [call[q] EXCEPT !.at = "save"] \in Jobs
<1>1. call[q] \in Jobs
  BY DEF TypeOK
<1>2. CASE call[q] \in {Idle, Served}
  BY <1>2 DEF Idle, Served
<1>3. CASE call[q] \in [at : {"insert"}, user : UserIds, new : UserRow]
  BY <1>3
<1>4. CASE call[q] \in [at : {"checkEmail", "save"}, user : UserIds, old : UserRow,
                        payload : Payload]
  BY <1>4 DEF Jobs
<1> QED  BY <1>1, <1>2, <1>3, <1>4 DEF Jobs

(* The row of a user that is there is a row of the table. *)
LEMMA StoredRow ==
    ASSUME TypeOK, NEW u \in UserIds, users[u] # NoUser
    PROVE  users[u] \in UserRow
BY DEF TypeOK

LEMMA InitInv == Init => Inv
BY DEF Init, Inv, TypeOK, ChangedIsStored, Jobs, Idle

(* A new job of a free slot keeps the invariant. *)
LEMMA BeginKeepsInv ==
    ASSUME Inv, NEW q \in Calls, NEW job \in Jobs, Begin(q, job),
           job.at \in {"checkEmail", "save"} => users[job.user] # NoUser
    PROVE  Inv'
<1>1. call' = [call EXCEPT ![q] = job] /\ users' = users
  BY DEF Begin
<1>2. TypeOK'
  BY <1>1 DEF Inv, TypeOK
<1>3. ChangedIsStored'
  BY <1>1 DEF Inv, TypeOK, ChangedIsStored
<1> QED  BY <1>2, <1>3 DEF Inv

(* So does a call that reads a user and goes on to change it. *)
LEMMA ChangeKeepsInv ==
    ASSUME Inv, NEW q \in Calls, NEW u \in UserIds,
           NEW at \in {"checkEmail", "save"}, NEW payload \in Payload,
           Change(q, u, at, payload)
    PROVE  Inv'
<1> DEFINE job == [at |-> at, user |-> u, old |-> users[u], payload |-> payload]
<1>1. users[u] # NoUser /\ Begin(q, job)
  BY DEF Change
<1>2. users[u] \in UserRow
  BY <1>1, StoredRow DEF Inv
<1>3. job \in Jobs
  BY <1>2 DEF Jobs
<1>4. job.user = u
  OBVIOUS
<1> QED  BY <1>1, <1>3, <1>4, BeginKeepsInv

(* So does a slot that ends its call and leaves the table alone. *)
LEMMA EndKeepsInv ==
    ASSUME Inv, NEW q \in Calls, NEW reply \in {Idle, Served}, End(q, reply),
           UNCHANGED users
    PROVE  Inv'
<1>1. reply \in Jobs /\ reply.at \notin {"checkEmail", "save"}
  BY DEF Jobs, Idle, Served
<1>2. TypeOK'
  BY <1>1 DEF Inv, TypeOK, End
<1>3. ChangedIsStored'
  BY <1>1 DEF Inv, TypeOK, ChangedIsStored, End
<1> QED  BY <1>2, <1>3 DEF Inv

(* So does a commit of a row: no row is removed. *)
LEMMA CommitKeepsInv ==
    ASSUME Inv, NEW q \in Calls, call[q].user \in UserIds, NEW row \in UserRow,
           Commit(q, row)
    PROVE  Inv'
<1>1. CASE EmailFree(row.email, call[q].user)
  <2>1. users' = [users EXCEPT ![call[q].user] = row] /\ End(q, Served)
    BY <1>1 DEF Commit
  <2>2. Served \in Jobs /\ Served.at \notin {"checkEmail", "save"}
    BY DEF Jobs, Served
  <2>3. row # NoUser
    BY NoUserIsNoRow
  <2>4. TypeOK'
    BY <2>1, <2>2 DEF Inv, TypeOK, End
  <2>5. \A u \in UserIds : users[u] # NoUser => users'[u] # NoUser
    BY <2>1, <2>3 DEF Inv, TypeOK
  <2>6. ASSUME NEW o \in Calls, call'[o].at \in {"checkEmail", "save"}
        PROVE  users'[call'[o].user] # NoUser
    <3>1. o # q /\ call'[o] = call[o]
      BY <2>1, <2>2, <2>6 DEF Inv, TypeOK, End
    <3>2. call[o].user \in UserIds /\ users[call[o].user] # NoUser
      BY <2>6, <3>1, JobData DEF Inv, ChangedIsStored
    <3> QED  BY <2>5, <3>1, <3>2
  <2> QED  BY <2>4, <2>6 DEF Inv, ChangedIsStored
<1>2. CASE ~EmailFree(row.email, call[q].user)
  BY <1>2, EndKeepsInv DEF Commit
<1> QED  BY <1>1, <1>2

(* The row that a save commits is a row of the table. *)
LEMMA SavedRow ==
    ASSUME Inv, NEW q \in Calls, call[q].at = "save"
    PROVE  /\ call[q].user \in UserIds
           /\ WrittenUser(users[call[q].user], call[q].old,
                          Applied(call[q].old, call[q].payload)) \in UserRow
<1>1. /\ call[q].user \in UserIds
      /\ call[q].old \in UserRow
      /\ call[q].payload \in Payload
  BY JobData DEF Inv
<1>2. users[call[q].user] \in UserRow
  BY <1>1, StoredRow DEF Inv, ChangedIsStored
<1>3. Applied(call[q].old, call[q].payload) \in UserRow
  BY <1>1, AppliedRow
<1> QED  BY <1>1, <1>2, <1>3, WrittenUserRow

(* Every step keeps the invariant. *)
LEMMA NextKeepsInv == Inv /\ [Next]_vars => Inv'
<1> SUFFICES ASSUME Inv, [Next]_vars PROVE Inv'
  OBVIOUS
<1>1. CASE UNCHANGED vars
  BY <1>1 DEF vars, Inv, TypeOK, ChangedIsStored
<1>2. ASSUME NEW q \in Calls, NEW u \in UserIds, NEW row \in UserRow,
             CreateUser(q, u, row)
      PROVE  Inv'
  <2> DEFINE job == [at |-> "insert", user |-> u, new |-> row]
  <2>1. job \in Jobs /\ job.at \notin {"checkEmail", "save"}
    BY DEF Jobs
  <2>2. Begin(q, job)
    BY <1>2 DEF CreateUser
  <2> QED  BY <2>1, <2>2, BeginKeepsInv
<1>3. ASSUME NEW q \in Calls, NEW u \in UserIds, NEW payload \in Payload,
             UpdateUser(q, u, payload)
      PROVE  Inv'
  BY <1>3, ChangeKeepsInv DEF UpdateUser
<1>4. ASSUME NEW q \in Calls, NEW u \in UserIds, NEW email \in Emails,
             NEW name \in UserNames, ReplaceUser(q, u, email, name)
      PROVE  Inv'
  <2>1. [email |-> email, name |-> name, status |-> Unset] \in Payload
    BY DEF Payload
  <2> QED  BY <1>4, <2>1, ChangeKeepsInv DEF ReplaceUser
<1>5. ASSUME NEW q \in Calls, NEW u \in UserIds, DeleteUser(q, u)
      PROVE  Inv'
  <2>1. [email |-> Unset, name |-> Unset, status |-> "inactive"] \in Payload
    BY DEF Payload, Statuses
  <2> QED  BY <1>5, <2>1, ChangeKeepsInv DEF DeleteUser
<1>6. ASSUME NEW q \in Calls, CheckEmail(q)
      PROVE  Inv'
  <2>1. CASE ~EmailFree(call[q].payload.email, call[q].user)
    BY <1>6, <2>1, EndKeepsInv DEF CheckEmail
  <2>2. CASE EmailFree(call[q].payload.email, call[q].user)
    <3>1. /\ call[q].at = "checkEmail"
          /\ call' = [call EXCEPT ![q].at = "save"]
          /\ users' = users
      BY <1>6, <2>2 DEF CheckEmail
    <3>2. [call[q] EXCEPT !.at = "save"] \in Jobs
      BY <3>1, JobData DEF Inv
    <3>3. TypeOK'
      BY <3>1, <3>2 DEF Inv, TypeOK
    <3>4. call[q] \in [at : {"checkEmail", "save"}, user : UserIds, old : UserRow,
                       payload : Payload]
      BY <3>1 DEF Inv, TypeOK, Jobs, Idle, Served
    <3>5. call'[q].user = call[q].user
      BY <3>1, <3>4 DEF Inv, TypeOK
    <3>6. \A o \in Calls \ {q} : call'[o] = call[o]
      BY <3>1 DEF Inv, TypeOK
    <3>7. ChangedIsStored'
      BY <3>1, <3>5, <3>6 DEF Inv, ChangedIsStored
    <3> QED  BY <3>3, <3>7 DEF Inv
  <2> QED  BY <2>1, <2>2
<1>7. ASSUME NEW q \in Calls, InsertUser(q)
      PROVE  Inv'
  BY <1>7, JobData, CommitKeepsInv DEF InsertUser, Inv
<1>8. ASSUME NEW q \in Calls, SaveUser(q)
      PROVE  Inv'
  BY <1>8, SavedRow, CommitKeepsInv DEF SaveUser
<1>9. ASSUME NEW q \in Calls, Abort(q)
      PROVE  Inv'
  BY <1>9, EndKeepsInv DEF Abort
<1>10. ASSUME NEW q \in Calls, Answer(q)
       PROVE  Inv'
  BY <1>10, EndKeepsInv DEF Answer
<1> QED
  BY <1>1, <1>2, <1>3, <1>4, <1>5, <1>6, <1>7, <1>8, <1>9, <1>10 DEF Next, UserCall

(* It holds in every state of every behaviour. *)
LEMMA AlwaysInv == Spec => []Inv
BY InitInv, NextKeepsInv, PTL DEF Spec

(* Every row is a user with an email, a name and a status, or is not there *)
(* yet: no stale object ever writes anything else.                         *)
THEOREM UsersTyped == Spec => []TypeOK
BY AlwaysInv, PTL DEF Inv

-----------------------------------------------------------------------------
(* A commit takes a free email for its row, or leaves the emails alone. *)
LEMMA CommitIsTableStep ==
    ASSUME Inv, NEW q \in Calls, call[q].user \in UserIds, NEW row \in UserRow,
           Commit(q, row)
    PROVE  [Table!Next]_[u \in UserIds |-> users[u].email]
<1> DEFINE key == [u \in UserIds |-> users[u].email]
           user == call[q].user
<1>1. CASE EmailFree(row.email, user)
  <2>1. users' = [users EXCEPT ![user] = row]
    BY <1>1 DEF Commit
  <2>2. key' = [key EXCEPT ![user] = row.email]
    BY <2>1 DEF Inv, TypeOK
  <2>3. CASE users[user].email = row.email
    BY <2>2, <2>3
  <2>4. CASE users[user].email # row.email
    <3>1. \A u \in UserIds : users[u].email # row.email
      BY <1>1, <2>4 DEF EmailFree
    <3>2. row.email \in Emails
      BY DEF UserRow
    <3>3. Table!Take(user, row.email)
      BY <2>2, <3>1 DEF Table!Take, Table!Free
    <3> QED  BY <3>2, <3>3 DEF Table!Next
  <2> QED  BY <2>3, <2>4
<1>2. CASE ~EmailFree(row.email, user)
  BY <1>2 DEF Commit
<1> QED  BY <1>1, <1>2

(* Every step is a step of the table, or leaves the emails alone. *)
LEMMA StepIsTableStep ==
    Inv /\ [Next]_vars => [Table!Next]_[u \in UserIds |-> users[u].email]
<1> SUFFICES ASSUME Inv, [Next]_vars
             PROVE  [Table!Next]_[u \in UserIds |-> users[u].email]
  OBVIOUS
<1>1. ASSUME NEW q \in Calls, InsertUser(q)
      PROVE  [Table!Next]_[u \in UserIds |-> users[u].email]
  BY <1>1, JobData, CommitIsTableStep DEF InsertUser, Inv
<1>2. ASSUME NEW q \in Calls, SaveUser(q)
      PROVE  [Table!Next]_[u \in UserIds |-> users[u].email]
  BY <1>2, SavedRow, CommitIsTableStep DEF SaveUser
<1>3. ASSUME UNCHANGED users
      PROVE  [Table!Next]_[u \in UserIds |-> users[u].email]
  BY <1>3
<1>4. ASSUME NEW q \in Calls, UserCall(q) \/ CheckEmail(q) \/ Abort(q) \/ Answer(q)
      PROVE  UNCHANGED users
  BY <1>4 DEF UserCall, CreateUser, UpdateUser, ReplaceUser, DeleteUser, Change,
       Begin, CheckEmail, Abort, Answer
<1>5. CASE UNCHANGED vars
  BY <1>3, <1>5 DEF vars
<1> QED  BY <1>1, <1>2, <1>3, <1>4, <1>5 DEF Next

(* Whatever calls race, two users never have the same email, an email is   *)
(* taken only while it is free, and no user is ever removed.               *)
THEOREM UsersAreATable == Spec => ImplementsTable
<1>1. Init => Table!Init
  BY DEF Init, NoUser, Table!Init
<1>2. Inv /\ [Next]_vars => [Table!Next]_[u \in UserIds |-> users[u].email]
  BY StepIsTableStep
<1> QED
  BY <1>1, <1>2, AlwaysInv, PTL DEF Spec, ImplementsTable, Table!Spec

-----------------------------------------------------------------------------
(* Two creations never have the same fresh id, and no stored user has it.  *)
FreshUsers ==
    \A q \in Calls : call[q].at = "insert" =>
       /\ users[call[q].user] = NoUser
       /\ \A o \in Calls \ {q} : call[o].at = "insert" => call[o].user # call[q].user

(* A step of slot q keeps that if it begins no creation and changes no row *)
(* that another creation is about to insert.                               *)
LEMMA FreshStay ==
    ASSUME FreshUsers, NEW q \in Calls, call'[q].at # "insert",
           \A o \in Calls \ {q} :
              /\ call'[o] = call[o]
              /\ call[o].at = "insert" =>
                    users'[call[o].user] = users[call[o].user]
    PROVE  FreshUsers'
<1>1. \A o \in Calls : call'[o].at = "insert" =>
         /\ o # q /\ call'[o] = call[o]
         /\ users'[call[o].user] = users[call[o].user]
  OBVIOUS
<1> QED  BY <1>1 DEF FreshUsers

LEMMA NextKeepsFresh == Inv /\ FreshUsers /\ [Next]_vars => FreshUsers'
<1> SUFFICES ASSUME Inv, FreshUsers, [Next]_vars PROVE FreshUsers'
  OBVIOUS
<1>1. call \in [Calls -> Jobs] /\ users \in [UserIds -> UserRow \cup {NoUser}]
  BY DEF Inv, TypeOK
<1>2. Idle.at # "insert" /\ Served.at # "insert"
  BY DEF Idle, Served
<1>3. ASSUME NEW q \in Calls, NEW job, call' = [call EXCEPT ![q] = job],
             job.at # "insert", users' = users
      PROVE  FreshUsers'
  <2>1. call'[q] = job /\ \A o \in Calls \ {q} : call'[o] = call[o]
    BY <1>1, <1>3
  <2> QED  BY <1>3, <2>1, FreshStay
<1>4. ASSUME NEW q \in Calls, NEW u \in UserIds, NEW row \in UserRow,
             CreateUser(q, u, row)
      PROVE  FreshUsers'
  <2> DEFINE job == [at |-> "insert", user |-> u, new |-> row]
  <2>1. /\ call' = [call EXCEPT ![q] = job] /\ users' = users /\ users[u] = NoUser
        /\ \A o \in Calls : call[o].at = "insert" => call[o].user # u
    BY <1>4 DEF CreateUser, Begin
  <2>2. job.user = u
    OBVIOUS
  <2> HIDE DEF job
  <2>3. call'[q] = job /\ \A o \in Calls \ {q} : call'[o] = call[o]
    BY <1>1, <2>1
  <2>4. \A o \in Calls : call'[o].at = "insert" =>
           users'[call'[o].user] = NoUser /\ (o # q => call'[o].user # u)
    BY <2>1, <2>2, <2>3 DEF FreshUsers
  <2> QED  BY <2>2, <2>3, <2>4 DEF FreshUsers
<1>5. ASSUME NEW q \in Calls, NEW u \in UserIds, NEW at \in {"checkEmail", "save"},
             NEW payload, Change(q, u, at, payload)
      PROVE  FreshUsers'
  <2> DEFINE job == [at |-> at, user |-> u, old |-> users[u], payload |-> payload]
  <2>1. call' = [call EXCEPT ![q] = job] /\ users' = users /\ job.at # "insert"
    BY <1>5 DEF Change, Begin
  <2> QED  BY <1>3, <2>1
<1>6. ASSUME NEW q \in Calls, NEW row \in UserRow, call[q].at \in {"insert", "save"},
             Commit(q, row)
      PROVE  FreshUsers'
  <2>1. /\ call' = [call EXCEPT ![q] = Served] \/ call' = [call EXCEPT ![q] = Idle]
        /\ users' = users \/ users' = [users EXCEPT ![call[q].user] = row]
    BY <1>6 DEF Commit, End
  <2>2. /\ call'[q].at # "insert" /\ \A o \in Calls \ {q} : call'[o] = call[o]
    BY <1>1, <1>2, <2>1
  <2>3. ASSUME NEW o \in Calls \ {q}, call[o].at = "insert"
        PROVE  users'[call[o].user] = users[call[o].user]
    <3>1. call[o].user \in UserIds /\ users[call[o].user] = NoUser
      BY <2>3, JobData DEF Inv, FreshUsers
    <3>2. call[q].at = "insert" => call[o].user # call[q].user
      BY <2>3 DEF FreshUsers
    <3>3. call[q].at = "save" => call[o].user # call[q].user
      BY <3>1 DEF Inv, ChangedIsStored
    <3> QED  BY <1>1, <1>6, <2>1, <3>1, <3>2, <3>3
  <2> QED  BY <2>2, <2>3, FreshStay
<1>7. ASSUME NEW q \in Calls, UserCall(q)
      PROVE  FreshUsers'
  BY <1>4, <1>5, <1>7 DEF UserCall, UpdateUser, ReplaceUser, DeleteUser
<1>8. ASSUME NEW q \in Calls, CheckEmail(q)
      PROVE  FreshUsers'
  <2>1. CASE call' = [call EXCEPT ![q].at = "save"]
    <3>1. call' = [call EXCEPT ![q] = [call[q] EXCEPT !.at = "save"]]
      BY <2>1
    <3>2. [call[q] EXCEPT !.at = "save"].at # "insert"
      <4>1. call[q] \in Jobs /\ call[q].at = "checkEmail"
        BY <1>1, <1>8 DEF CheckEmail
      <4> QED  BY <4>1 DEF Jobs, Idle, Served
    <3> QED  BY <1>3, <1>8, <3>1, <3>2 DEF CheckEmail
  <2>2. CASE End(q, Idle)
    BY <1>2, <1>3, <1>8, <2>2 DEF CheckEmail, End
  <2> QED  BY <1>8, <2>1, <2>2 DEF CheckEmail
<1>9. ASSUME NEW q \in Calls, InsertUser(q)
      PROVE  FreshUsers'
  BY <1>6, <1>9, JobData DEF InsertUser, Inv
<1>10. ASSUME NEW q \in Calls, SaveUser(q)
       PROVE  FreshUsers'
  BY <1>6, <1>10, SavedRow DEF SaveUser
<1>11. ASSUME NEW q \in Calls, Abort(q) \/ Answer(q)
       PROVE  FreshUsers'
  BY <1>2, <1>3, <1>11 DEF Abort, Answer, End
<1>12. CASE UNCHANGED vars
  BY <1>12 DEF vars, FreshUsers
<1> QED  BY <1>7, <1>8, <1>9, <1>10, <1>11, <1>12 DEF Next

(* A commit that activates an inactive user: its call saw the user         *)
(* inactive and was told "active".                                         *)
LEMMA ActivatingCommit ==
    ASSUME NEW stored \in UserRow, NEW read \in UserRow, NEW payload \in Payload,
           stored.status = "inactive",
           WrittenUser(stored, read, Applied(read, payload)).status = "active"
    PROVE  read.status = "inactive" /\ payload.status = "active"
<1>1. /\ read.status \in Statuses
      /\ Applied(read, payload).status = Given(payload.status, read.status)
      /\ Column(stored.status, read.status, Applied(read, payload).status) = "active"
  BY DEF Applied, WrittenUser, UserRow
<1> QED  BY <1>1 DEF Column, Given, Statuses

(* Whatever calls race, an inactive user comes back only by a change that  *)
(* saw it inactive and says so: neither a stale object nor a creation      *)
(* revives it.                                                             *)
THEOREM UsersRevivedKnowingly == Spec => RevivedOnlyKnowingly
<1>1. ASSUME Inv, FreshUsers, [Next]_vars, NEW u \in UserIds,
             users[u].status = "inactive", users'[u].status = "active"
      PROVE  \E q \in Calls : /\ call[q].at = "save" /\ call[q].user = u
                              /\ call[q].old.status = "inactive"
                              /\ call[q].payload.status = "active"
  <2>1. users \in [UserIds -> UserRow \cup {NoUser}] /\ users[u] # NoUser
    BY <1>1 DEF Inv, TypeOK, NoUser, Unset
  <2>2. users' # users
    BY <1>1
  <2>3. PICK q \in Calls : InsertUser(q) \/ SaveUser(q)
    BY <1>1, <2>2 DEF Next, vars, UserCall, CreateUser, UpdateUser, ReplaceUser,
         DeleteUser, Change, Begin, CheckEmail, Abort, Answer
  <2>4. CASE InsertUser(q)
    <3>1. users' = [users EXCEPT ![call[q].user] = call[q].new] /\ call[q].at = "insert"
      BY <2>2, <2>4 DEF InsertUser, Commit
    <3>2. users[call[q].user] = NoUser
      BY <1>1, <3>1 DEF FreshUsers
    <3> QED  BY <1>1, <2>1, <3>1, <3>2
  <2>5. CASE SaveUser(q)
    <3> DEFINE v == call[q].user
               row == WrittenUser(users[v], call[q].old,
                                  Applied(call[q].old, call[q].payload))
    <3>1. /\ call[q].at = "save" /\ users' = [users EXCEPT ![v] = row]
      BY <2>2, <2>5 DEF SaveUser, Commit
    <3>2. v = u
      BY <1>1, <2>1, <3>1
    <3>3. row.status = "active"
      BY <1>1, <2>1, <3>1, <3>2
    <3>4. /\ users[v] \in UserRow /\ call[q].old \in UserRow
          /\ call[q].payload \in Payload
      BY <1>1, <2>1, <3>1, <3>2, JobData DEF Inv
    <3>5. call[q].old.status = "inactive" /\ call[q].payload.status = "active"
      BY <1>1, <3>2, <3>3, <3>4, ActivatingCommit
    <3> QED  BY <3>1, <3>2, <3>5
  <2> QED  BY <2>3, <2>4, <2>5
<1>2. Init => FreshUsers
  BY DEF Init, FreshUsers, Idle
<1>3. Inv /\ FreshUsers /\ [Next]_vars =>
        [ \A u \in UserIds :
            users[u].status = "inactive" /\ users'[u].status = "active" =>
               \E q \in Calls : /\ call[q].at = "save" /\ call[q].user = u
                                /\ call[q].old.status = "inactive"
                                /\ call[q].payload.status = "active" ]_vars
  BY <1>1
<1> QED
  BY <1>2, <1>3, AlwaysInv, NextKeepsFresh, PTL DEF Spec, RevivedOnlyKnowingly

-----------------------------------------------------------------------------
Refreshing == [at : {"refresh"}, user : Watched]
Recording == [at : {"record"}, user : Watched, named : Payload]

(* An entry is owed by a call that has committed. *)
EntriesTyped ==
    /\ pending \in [Calls -> {NoEntry} \cup Refreshing \cup Recording]
    /\ \A q \in Calls : pending[q] # NoEntry => call[q] = Served

(* What is stored, what was read by a call in flight, what an entry names  *)
(* and what the trail names was stored once; nothing was of an absent row. *)
AllWasStored ==
    /\ \A u \in Watched : Facts(u, users[u]) \subseteq had
    /\ \A q \in Calls :
          call[q].at \in {"checkEmail", "save"} /\ call[q].user \in Watched =>
             Facts(call[q].user, call[q].old) \subseteq had
    /\ \A q \in Calls : pending[q].at = "record" =>
          Facts(pending[q].user, pending[q].named) \subseteq had
    /\ \A f \in had : f.user \in Watched /\ users[f.user] # NoUser
    /\ trail \subseteq had

(* Fact f is in the trail or in an entry that is ready to be recorded. *)
Named(f) ==
    \/ f \in trail
    \/ \E q \in Calls : /\ pending[q].at = "record"
                        /\ f \in Facts(pending[q].user, pending[q].named)

(* A creation that has yet to be refreshed will name all but the status. *)
Explained(f) ==
    \/ Named(f)
    \/ /\ f.column # "status"
       /\ \E q \in Calls : pending[q].at = "refresh" /\ pending[q].user = f.user
    \/ /\ f.column = "status"
       /\ \A g \in had : g.user = f.user /\ g.column = "status" => g = f

RowsExplained ==
    \A u \in Watched \ missed : \A f \in Facts(u, users[u]) : Explained(f)

AuditInv == Inv /\ EntriesTyped /\ FreshUsers /\ AllWasStored /\ RowsExplained

-----------------------------------------------------------------------------
(* A fact is determined by its user, its column and the row it is read in. *)
LEMMA FactOfRow ==
    ASSUME NEW u, NEW row, NEW f \in Facts(u, row)
    PROVE  /\ f = [user |-> u, column |-> f.column, value |-> row[f.column]]
           /\ f.column \in Columns /\ row[f.column] # Unset /\ f.user = u
BY DEF Facts

(* Every column that is set is a fact. *)
LEMMA FactIsIn ==
    ASSUME NEW u, NEW row, NEW c \in Columns, row[c] # Unset
    PROVE  [user |-> u, column |-> c, value |-> row[c]] \in Facts(u, row)
BY DEF Facts

(* An absent row has no facts. *)
LEMMA NoFactsOfNoUser == \A u : Facts(u, NoUser) = {}
BY DEF Facts, Columns, NoUser

(* The columns that entries are about. *)
LEMMA ColumnsAre == Columns = {"email", "name", "status"}
BY DEF Columns, NoUser

(* What a creation names is what the row says, but for the status. *)
LEMMA CreatedFacts ==
    ASSUME NEW u, NEW row \in UserRow \cup {NoUser}
    PROVE  /\ Created(row) \in Payload
           /\ \A f \in Facts(u, Created(row)) : f \in Facts(u, row)
           /\ \A f \in Facts(u, row) : f.column # "status" => f \in Facts(u, Created(row))
<1>1. Created(row) \in Payload
  BY DEF Created, Payload, UserRow, NoUser
<1>2. /\ Created(row)["status"] = Unset
      /\ \A c \in Columns : c # "status" => Created(row)[c] = row[c]
  BY ColumnsAre DEF Created, UserRow, NoUser
<1>3. ASSUME NEW f \in Facts(u, Created(row)) PROVE f \in Facts(u, row)
  <2>1. /\ f.column \in Columns /\ f.column # "status"
        /\ f = [user |-> u, column |-> f.column, value |-> Created(row)[f.column]]
        /\ Created(row)[f.column] # Unset
    BY <1>2, FactOfRow
  <2>2. Created(row)[f.column] = row[f.column]
    BY <1>2, <2>1
  <2> QED  BY <2>1, <2>2, FactIsIn
<1>4. ASSUME NEW f \in Facts(u, row), f.column # "status"
      PROVE  f \in Facts(u, Created(row))
  <2>1. /\ f.column \in Columns /\ row[f.column] # Unset
        /\ f = [user |-> u, column |-> f.column, value |-> row[f.column]]
    BY FactOfRow
  <2>2. Created(row)[f.column] = row[f.column]
    BY <1>2, <1>4, <2>1
  <2> QED  BY <2>1, <2>2, FactIsIn
<1> QED  BY <1>1, <1>3, <1>4

(* What a save commits was stored or is in its payload; what its payload   *)
(* says is committed or was what the call had read.                        *)
LEMMA WrittenFacts ==
    ASSUME NEW u, NEW stored \in UserRow, NEW read \in UserRow,
           NEW payload \in Payload, NEW row,
           row = WrittenUser(stored, read, Applied(read, payload))
    PROVE  /\ \A f \in Facts(u, row) : f \in Facts(u, stored) \cup Facts(u, payload)
           /\ \A f \in Facts(u, payload) : f \in Facts(u, row) \cup Facts(u, read)
<1>1. \A c \in Columns : row[c] = Column(stored[c], read[c], Given(payload[c], read[c]))
  BY ColumnsAre DEF WrittenUser, Applied
<1>2. \A c \in Columns : /\ payload[c] = Unset => row[c] = stored[c]
                         /\ payload[c] # Unset => row[c] = payload[c]
                                                  \/ /\ row[c] = stored[c]
                                                     /\ payload[c] = read[c]
  BY <1>1 DEF Column, Given
<1>3. ASSUME NEW f \in Facts(u, row) PROVE f \in Facts(u, stored) \cup Facts(u, payload)
  <2>1. /\ f.column \in Columns /\ row[f.column] # Unset
        /\ f = [user |-> u, column |-> f.column, value |-> row[f.column]]
    BY FactOfRow
  <2>2. CASE row[f.column] = stored[f.column]
    BY <2>1, <2>2, FactIsIn
  <2>3. CASE row[f.column] = payload[f.column]
    BY <2>1, <2>3, FactIsIn
  <2> QED  BY <1>2, <2>1, <2>2, <2>3
<1>4. ASSUME NEW f \in Facts(u, payload) PROVE f \in Facts(u, row) \cup Facts(u, read)
  <2>1. /\ f.column \in Columns /\ payload[f.column] # Unset
        /\ f = [user |-> u, column |-> f.column, value |-> payload[f.column]]
    BY FactOfRow
  <2>2. CASE row[f.column] = payload[f.column]
    BY <2>1, <2>2, FactIsIn
  <2>3. CASE read[f.column] = payload[f.column]
    BY <2>1, <2>3, FactIsIn
  <2> QED  BY <1>2, <2>1, <2>2, <2>3
<1> QED  BY <1>3, <1>4

-----------------------------------------------------------------------------
(* What an entry holds. *)
LEMMA EntryData ==
    ASSUME EntriesTyped, NEW q \in Calls
    PROVE  /\ NoEntry.at = "none"
           /\ pending[q] # NoEntry =>
                 pending[q].at \in {"refresh", "record"} /\ pending[q].user \in Watched
           /\ pending[q].at = "record" => pending[q].named \in Payload
           /\ pending[q].at \in {"refresh", "record"} => call[q] = Served
BY DEF EntriesTyped, NoEntry, Refreshing, Recording

(* Before the first call nothing is stored, owed or recorded. *)
LEMMA InitAuditInv == AuditedInit => AuditInv
<1> SUFFICES ASSUME AuditedInit PROVE AuditInv
  OBVIOUS
<1>1. Inv
  BY InitInv DEF AuditedInit
<1>2. EntriesTyped /\ FreshUsers
  BY DEF AuditedInit, Init, EntriesTyped, FreshUsers, NoEntry, Idle
<1>3. \A u \in Watched : Facts(u, users[u]) = {}
  BY WatchedAssumption, NoFactsOfNoUser DEF AuditedInit, Init
<1>4. AllWasStored /\ RowsExplained
  BY <1>3 DEF AuditedInit, Init, AllWasStored, RowsExplained, NoEntry, Idle
<1> QED  BY <1>1, <1>2, <1>4 DEF AuditInv

(* A step that changes no row and no entry keeps the invariant if the      *)
(* calls in flight keep what they had read.                                *)
LEMMA QuietKeepsAuditInv ==
    ASSUME AuditInv, Inv', FreshUsers', UNCHANGED <<users, pending, trail, missed, had>>,
           \A q \in Calls : pending[q] # NoEntry => call'[q] = Served,
           \A q \in Calls :
              call'[q].at \in {"checkEmail", "save"} /\ call'[q].user \in Watched =>
                 Facts(call'[q].user, call'[q].old) \subseteq had
    PROVE  AuditInv'
<1>1. EntriesTyped'
  BY DEF AuditInv, EntriesTyped
<1>2. AllWasStored'
  BY DEF AuditInv, AllWasStored
<1>3. RowsExplained'
  BY DEF AuditInv, RowsExplained, Explained, Named
<1> QED  BY <1>1, <1>2, <1>3 DEF AuditInv

(* The slot of an entry that is settled is free; nothing else moves. *)
LEMMA AnswerKeepsCalls ==
    ASSUME AuditInv, NEW q \in Calls, Answer(q)
    PROVE  /\ Inv' /\ FreshUsers' /\ users' = users
           /\ \A o \in Calls : o # q => call'[o] = call[o]
           /\ call'[q] = Idle /\ Idle.at = "idle"
           /\ call[q] = Served /\ Served.at = "served"
<1>1. Next
  BY DEF Next
<1>2. Inv'
  BY <1>1, NextKeepsInv DEF AuditInv
<1>3. call \in [Calls -> Jobs]
  BY DEF AuditInv, Inv, TypeOK
<1>4. /\ users' = users
      /\ \A o \in Calls : o # q => call'[o] = call[o]
      /\ call'[q] = Idle /\ Idle.at = "idle"
      /\ call[q] = Served /\ Served.at = "served"
  BY <1>3 DEF Answer, End, Idle, Served
<1>5. FreshUsers'
  BY <1>4 DEF AuditInv, FreshUsers
<1> QED  BY <1>2, <1>4, <1>5

(* What an entry named is in the trail once it is recorded. *)
LEMMA RecordKeepsAuditInv ==
    ASSUME AuditInv, NEW q \in Calls, RecordAudit(q)
    PROVE  AuditInv'
<1> DEFINE facts == Facts(pending[q].user, pending[q].named)
<1>1. /\ pending[q].at = "record" /\ trail' = trail \cup facts
      /\ pending' = [pending EXCEPT ![q] = NoEntry]
      /\ Answer(q) /\ UNCHANGED <<missed, had>>
  BY DEF RecordAudit
<1>2. /\ Inv' /\ FreshUsers' /\ users' = users
      /\ \A o \in Calls : o # q => call'[o] = call[o]
      /\ call'[q] = Idle /\ Idle.at = "idle"
  BY <1>1, AnswerKeepsCalls
<1>3. /\ \A o \in Calls : o # q => pending'[o] = pending[o]
      /\ pending'[q] = NoEntry /\ NoEntry.at = "none"
  BY <1>1 DEF NoEntry, AuditInv, EntriesTyped
<1>4. EntriesTyped'
  BY <1>1, <1>2, <1>3 DEF AuditInv, EntriesTyped
<1>5. facts \subseteq had
  BY <1>1 DEF AuditInv, AllWasStored
<1> HIDE DEF facts
<1>6. AllWasStored'
  BY <1>1, <1>2, <1>3, <1>5 DEF AuditInv, AllWasStored
<1>7. ASSUME NEW f, Named(f) PROVE Named(f)'
  BY <1>1, <1>3, <1>7 DEF Named, facts
<1>8. ASSUME NEW f, Explained(f) PROVE Explained(f)'
  BY <1>1, <1>3, <1>7, <1>8 DEF Explained
<1>9. RowsExplained'
  BY <1>1, <1>2, <1>8 DEF AuditInv, RowsExplained
<1> QED  BY <1>2, <1>4, <1>6, <1>9 DEF AuditInv

(* A lost entry explained the rows of one user only, who is missed now. *)
LEMMA LossKeepsAuditInv ==
    ASSUME AuditInv, NEW q \in Calls, AuditLost(q)
    PROVE  AuditInv'
<1>1. /\ pending[q] # NoEntry /\ missed' = missed \cup {pending[q].user}
      /\ pending' = [pending EXCEPT ![q] = NoEntry]
      /\ Answer(q) /\ UNCHANGED <<trail, had>>
  BY DEF AuditLost
<1>2. /\ Inv' /\ FreshUsers' /\ users' = users
      /\ \A o \in Calls : o # q => call'[o] = call[o]
      /\ call'[q] = Idle /\ Idle.at = "idle"
  BY <1>1, AnswerKeepsCalls
<1>3. /\ \A o \in Calls : o # q => pending'[o] = pending[o]
      /\ pending'[q] = NoEntry /\ NoEntry.at = "none"
  BY <1>1 DEF NoEntry, AuditInv, EntriesTyped
<1>4. EntriesTyped'
  BY <1>1, <1>2, <1>3 DEF AuditInv, EntriesTyped
<1>5. AllWasStored'
  BY <1>1, <1>2, <1>3 DEF AuditInv, AllWasStored
<1>6. ASSUME NEW f, f.user # pending[q].user, Explained(f) PROVE Explained(f)'
  <2>1. ASSUME f \in Facts(pending[q].user, pending[q].named) PROVE FALSE
    BY <1>6, <2>1, FactOfRow
  <2> QED  BY <1>1, <1>3, <1>6, <2>1 DEF Explained, Named
<1>7. ASSUME NEW u \in Watched \ missed', NEW f \in Facts(u, users'[u])
      PROVE  Explained(f)'
  <2>1. u \in Watched \ missed /\ u # pending[q].user /\ f \in Facts(u, users[u])
    BY <1>1, <1>2, <1>7
  <2>2. f.user = u
    BY <1>7, FactOfRow
  <2> QED  BY <1>6, <2>1, <2>2 DEF AuditInv, RowsExplained
<1>8. RowsExplained'
  BY <1>7 DEF RowsExplained
<1> QED  BY <1>2, <1>4, <1>5, <1>8 DEF AuditInv

(* The refresh reads the row as others left it, and names all but the      *)
(* status.                                                                 *)
LEMMA RefreshKeepsAuditInv ==
    ASSUME AuditInv, NEW q \in Calls, RefreshCreated(q)
    PROVE  AuditInv'
<1> DEFINE u == pending[q].user
           entry == [at |-> "record", user |-> u, named |-> Created(users[u])]
<1>1. /\ pending[q].at = "refresh"
      /\ pending' = [pending EXCEPT ![q] = entry]
      /\ UNCHANGED <<users, call, trail, missed, had>>
  BY DEF RefreshCreated, vars
<1>2. pending[q] # NoEntry /\ u \in Watched
  BY <1>1, EntryData DEF AuditInv, NoEntry, EntriesTyped, Refreshing, Recording
<1>3. u \in UserIds /\ users[u] \in UserRow \cup {NoUser}
  BY <1>2, WatchedAssumption DEF AuditInv, Inv, TypeOK
<1>4. /\ Created(users[u]) \in Payload
      /\ \A f \in Facts(u, Created(users[u])) : f \in Facts(u, users[u])
      /\ \A f \in Facts(u, users[u]) :
            f.column # "status" => f \in Facts(u, Created(users[u]))
  BY <1>3, CreatedFacts
<1>5. /\ entry \in Recording /\ entry.at = "record" /\ entry.user = u
      /\ entry.named = Created(users[u])
  BY <1>2, <1>4 DEF Recording
<1> HIDE DEF entry
<1>6. /\ \A o \in Calls : o # q => pending'[o] = pending[o]
      /\ pending'[q] = entry
  BY <1>1 DEF AuditInv, EntriesTyped
<1>7. EntriesTyped'
  BY <1>1, <1>2, <1>5, <1>6 DEF AuditInv, EntriesTyped
<1>8. Inv' /\ FreshUsers'
  BY <1>1 DEF AuditInv, Inv, TypeOK, ChangedIsStored, FreshUsers
<1>9. Facts(u, Created(users[u])) \subseteq had
  BY <1>2, <1>4 DEF AuditInv, AllWasStored
<1>10. AllWasStored'
  BY <1>1, <1>5, <1>6, <1>9 DEF AuditInv, AllWasStored
<1>11. ASSUME NEW f, Named(f) PROVE Named(f)'
  BY <1>1, <1>6, <1>11 DEF Named
<1>12. ASSUME NEW v \in Watched \ missed, NEW f \in Facts(v, users[v])
       PROVE  Explained(f)'
  <2>1. Explained(f) /\ f.user = v
    BY FactOfRow DEF AuditInv, RowsExplained
  <2>2. CASE Named(f)
    BY <1>11, <2>2 DEF Explained
  <2>3. CASE f.column # "status" /\ pending[q].user = f.user
    <3>1. f \in Facts(pending'[q].user, pending'[q].named)
      BY <1>4, <1>5, <1>6, <2>1, <2>3
    <3> QED  BY <1>5, <1>6, <3>1 DEF Explained, Named
  <2>4. CASE /\ f.column # "status"
             /\ \E o \in Calls \ {q} : pending[o].at = "refresh" /\ pending[o].user = f.user
    BY <1>6, <2>4 DEF Explained
  <2>5. CASE /\ f.column = "status"
             /\ \A g \in had : g.user = f.user /\ g.column = "status" => g = f
    BY <1>1, <2>5 DEF Explained
  <2> QED  BY <2>1, <2>2, <2>3, <2>4, <2>5 DEF Explained
<1>13. RowsExplained'
  BY <1>1, <1>12 DEF RowsExplained
<1> QED  BY <1>7, <1>8, <1>10, <1>13 DEF AuditInv

-----------------------------------------------------------------------------
(* A commit that was refused leaves nothing to record. *)
LEMMA RefusalKeepsAuditInv ==
    ASSUME AuditInv, Inv', NEW q \in Calls, call[q].at \in {"insert", "save"},
           UNCHANGED users, End(q, Idle), Owe(q)
    PROVE  AuditInv'
<1>1. /\ call \in [Calls -> Jobs] /\ Idle # Served /\ Idle.at = "idle"
      /\ call[q] # Served
  BY DEF AuditInv, Inv, TypeOK, Idle, Served
<1>2. /\ call'[q] = Idle
      /\ \A o \in Calls : o # q => call'[o] = call[o]
  BY <1>1 DEF End
<1>3. had' = had
  BY DEF Owe, AuditInv, AllWasStored
<1>4. UNCHANGED <<pending, trail, missed>>
  BY <1>1, <1>2 DEF Owe
<1>5. FreshUsers'
  BY <1>1, <1>2 DEF AuditInv, FreshUsers
<1>6. \A o \in Calls : pending[o] # NoEntry => call'[o] = Served
  BY <1>1, <1>2 DEF AuditInv, EntriesTyped
<1>7. \A o \in Calls :
         call'[o].at \in {"checkEmail", "save"} /\ call'[o].user \in Watched =>
            Facts(call'[o].user, call'[o].old) \subseteq had
  BY <1>1, <1>2 DEF AuditInv, AllWasStored
<1> QED  BY <1>3, <1>4, <1>5, <1>6, <1>7, QuietKeepsAuditInv

(* A commit is explained by the entry it leaves: what it wrote was there   *)
(* before, or the entry names it, or it is the status of a new row.        *)
LEMMA CommitKeepsAuditInv ==
    ASSUME AuditInv, Inv', NEW q \in Calls, call[q].at \in {"insert", "save"},
           NEW u \in UserIds, u = call[q].user, NEW row \in UserRow,
           users' = [users EXCEPT ![u] = row], End(q, Served), Owe(q),
           call[q].at = "insert" => users[u] = NoUser,
           call[q].at = "save" =>
              /\ users[u] # NoUser /\ call[q].payload \in Payload
              /\ \A f \in Facts(u, row) :
                    f \in Facts(u, users[u]) \cup Facts(u, call[q].payload)
              /\ \A f \in Facts(u, call[q].payload) :
                    f \in Facts(u, row) \cup Facts(u, call[q].old)
    PROVE  AuditInv'
<1>1. /\ call \in [Calls -> Jobs] /\ Served.at = "served" /\ call[q] # Served
      /\ pending \in [Calls -> {NoEntry} \cup Refreshing \cup Recording]
      /\ users \in [UserIds -> UserRow \cup {NoUser}]
  BY DEF AuditInv, Inv, TypeOK, EntriesTyped, Served
<1>2. /\ call'[q] = Served
      /\ \A o \in Calls : o # q => call'[o] = call[o]
  BY <1>1 DEF End
<1>3. /\ users'[u] = row /\ row # NoUser
      /\ \A v \in UserIds : v # u => users'[v] = users[v]
      /\ \A v \in UserIds : users[v] # NoUser => users'[v] # NoUser
  BY <1>1, NoUserIsNoRow
<1>4. pending[q] = NoEntry /\ NoEntry.at = "none"
  BY <1>1 DEF AuditInv, EntriesTyped, NoEntry
<1>5. /\ UNCHANGED <<trail, missed>>
      /\ had' = had \cup UNION {Facts(v, users'[v]) : v \in Watched}
      /\ u \in Watched => pending' = [pending EXCEPT ![q] = Owed(q)]
      /\ u \notin Watched => pending' = pending
  BY <1>2 DEF Owe
<1>6. \A o \in Calls : o # q => pending'[o] = pending[o]
  BY <1>1, <1>5
<1>7. ASSUME u \in Watched
      PROVE  /\ pending'[q] = Owed(q)
             /\ call[q].at = "insert" => /\ Owed(q) \in Refreshing
                                         /\ Owed(q).at = "refresh" /\ Owed(q).user = u
             /\ call[q].at = "save" => /\ Owed(q) \in Recording /\ Owed(q).at = "record"
                                       /\ Owed(q).user = u
                                       /\ Owed(q).named = call[q].payload
  BY <1>1, <1>5, <1>7 DEF Owed, Refreshing, Recording
<1>8. EntriesTyped'
  <2>1. pending' \in [Calls -> {NoEntry} \cup Refreshing \cup Recording]
    BY <1>1, <1>5, <1>7
  <2> QED  BY <1>2, <1>6, <2>1 DEF AuditInv, EntriesTyped
<1>9. FreshUsers'
  <2>1. ASSUME NEW o \in Calls, call'[o].at = "insert"
        PROVE  /\ o # q /\ call'[o] = call[o] /\ call[o].user \in UserIds
               /\ call[o].user # u /\ users[call[o].user] = NoUser
    <3>1. o # q /\ call'[o] = call[o]
      BY <1>1, <1>2, <2>1
    <3>2. call[o].user \in UserIds /\ users[call[o].user] = NoUser
      BY <2>1, <3>1, JobData DEF AuditInv, Inv, FreshUsers
    <3>3. call[q].at = "insert" => call[o].user # u
      BY <2>1, <3>1 DEF AuditInv, FreshUsers
    <3> QED  BY <3>1, <3>2, <3>3
  <2>2. \A o, w \in Calls : call'[o].at = "insert" /\ call'[w].at = "insert" /\ o # w
                           => call'[o].user # call'[w].user
    BY <2>1 DEF AuditInv, FreshUsers
  <2> QED  BY <1>3, <2>1, <2>2 DEF FreshUsers
<1>10. \A v \in Watched : v \in UserIds /\ Facts(v, users'[v]) \subseteq had'
  BY <1>5, WatchedAssumption
<1>11. AllWasStored'
  <2>1. ASSUME NEW o \in Calls, call'[o].at \in {"checkEmail", "save"},
               call'[o].user \in Watched
        PROVE  Facts(call'[o].user, call'[o].old) \subseteq had'
    BY <1>1, <1>2, <1>5, <2>1 DEF AuditInv, AllWasStored
  <2>2. ASSUME NEW o \in Calls, pending'[o].at = "record"
        PROVE  Facts(pending'[o].user, pending'[o].named) \subseteq had'
    <3>1. CASE o # q \/ u \notin Watched
      BY <1>4, <1>5, <1>6, <2>2, <3>1 DEF AuditInv, AllWasStored
    <3>2. CASE o = q /\ u \in Watched
      <4>1. call[q].at = "save"
        BY <1>7, <2>2, <3>2
      <4>2. Facts(u, call[q].old) \subseteq had
        BY <3>2, <4>1 DEF AuditInv, AllWasStored
      <4> QED  BY <1>3, <1>5, <1>7, <1>10, <3>2, <4>1, <4>2
    <3> QED  BY <3>1, <3>2
  <2>3. ASSUME NEW f \in had' PROVE f.user \in Watched /\ users'[f.user] # NoUser
    <3>1. CASE f \in had
      BY <1>3, <1>10, <3>1 DEF AuditInv, AllWasStored
    <3>2. CASE f \notin had
      <4>1. PICK v \in Watched : f \in Facts(v, users'[v])
        BY <1>5, <3>2
      <4>2. f.user = v /\ users'[v] # NoUser
        BY <4>1, FactOfRow, NoFactsOfNoUser
      <4> QED  BY <4>2
    <3> QED  BY <3>1, <3>2
  <2> QED  BY <1>5, <1>10, <2>1, <2>2, <2>3 DEF AuditInv, AllWasStored
<1>12. ASSUME NEW f, Named(f) PROVE Named(f)'
  BY <1>4, <1>5, <1>6, <1>12 DEF Named
<1>13. ASSUME NEW v \in Watched, NEW f \in Facts(v, users'[v]), f.column = "status",
              NEW g \in had', g.user = v, g.column = "status", g \notin had
       PROVE  g = f
  <2>1. PICK w \in Watched : g \in Facts(w, users'[w])
    BY <1>5, <1>13
  <2>2. w = v
    BY <1>13, <2>1, FactOfRow
  <2> QED  BY <1>13, <2>1, <2>2, FactOfRow
<1>14. ASSUME NEW v \in Watched, NEW f \in Facts(v, users'[v]), Explained(f)
       PROVE  Explained(f)'
  <2>1. f.user = v
    BY FactOfRow
  <2>2. CASE Named(f)
    BY <1>12, <2>2 DEF Explained
  <2>3. CASE /\ f.column # "status"
             /\ \E o \in Calls : pending[o].at = "refresh" /\ pending[o].user = f.user
    BY <1>4, <1>6, <2>3 DEF Explained
  <2>4. CASE /\ f.column = "status"
             /\ \A g \in had : g.user = f.user /\ g.column = "status" => g = f
    <3>1. ASSUME NEW g \in had', g.user = f.user, g.column = "status" PROVE g = f
      BY <1>13, <2>1, <2>4, <3>1
    <3> QED  BY <2>4, <3>1 DEF Explained
  <2> QED  BY <1>14, <2>2, <2>3, <2>4 DEF Explained
<1>15. ASSUME NEW v \in Watched \ missed, NEW f \in Facts(v, users'[v])
       PROVE  Explained(f)'
  <2>1. f.user = v /\ v \in UserIds
    BY <1>10, FactOfRow
  <2>2. CASE f \in Facts(v, users[v])
    BY <1>14, <2>2 DEF AuditInv, RowsExplained
  <2>3. CASE f \notin Facts(v, users[v])
    <3>1. v = u /\ u \in Watched
      BY <1>3, <2>1, <2>3
    <3>2. CASE call[q].at = "save"
      <4>1. f \in Facts(u, call[q].payload)
        BY <1>3, <2>3, <3>1, <3>2
      <4> QED  BY <1>7, <3>1, <3>2, <4>1 DEF Explained, Named
    <3>3. CASE call[q].at = "insert" /\ f.column # "status"
      BY <1>7, <2>1, <3>1, <3>3 DEF Explained
    <3>4. CASE call[q].at = "insert" /\ f.column = "status"
      <4>1. \A g \in had : g.user # u
        BY <3>4 DEF AuditInv, AllWasStored
      <4>2. ASSUME NEW g \in had', g.user = f.user, g.column = "status" PROVE g = f
        BY <1>13, <2>1, <3>1, <3>4, <4>1, <4>2
      <4> QED  BY <3>4, <4>2 DEF Explained
    <3> QED  BY <3>2, <3>3, <3>4
  <2> QED  BY <2>2, <2>3
<1>16. RowsExplained'
  BY <1>5, <1>15 DEF RowsExplained
<1> QED  BY <1>8, <1>9, <1>11, <1>16 DEF AuditInv

(* A creation or a change that reaches its commit, refused or not. *)
LEMMA WriteKeepsAuditInv ==
    ASSUME AuditInv, NEW q \in Calls, InsertUser(q) \/ SaveUser(q), Owe(q)
    PROVE  AuditInv'
<1> DEFINE u == call[q].user
           saved == WrittenUser(users[u], call[q].old,
                                Applied(call[q].old, call[q].payload))
<1>1. Inv'
  BY NextKeepsInv DEF AuditInv, Next
<1>2. CASE InsertUser(q)
  <2>1. /\ call[q].at = "insert" /\ u \in UserIds /\ call[q].new \in UserRow
        /\ users[u] = NoUser
    BY <1>2, JobData DEF InsertUser, AuditInv, Inv, FreshUsers
  <2>2. CASE EmailFree(call[q].new.email, u)
    BY <1>1, <1>2, <2>1, <2>2, CommitKeepsAuditInv DEF InsertUser, Commit
  <2>3. CASE ~EmailFree(call[q].new.email, u)
    BY <1>1, <1>2, <2>1, <2>3, RefusalKeepsAuditInv DEF InsertUser, Commit
  <2> QED  BY <2>2, <2>3
<1>3. CASE SaveUser(q)
  <2>1. /\ call[q].at = "save" /\ u \in UserIds /\ saved \in UserRow
        /\ call[q].old \in UserRow /\ call[q].payload \in Payload
        /\ users[u] # NoUser /\ users[u] \in UserRow
    BY <1>3, JobData, SavedRow, StoredRow DEF SaveUser, AuditInv, Inv, ChangedIsStored
  <2>2. /\ \A f \in Facts(u, saved) :
              f \in Facts(u, users[u]) \cup Facts(u, call[q].payload)
        /\ \A f \in Facts(u, call[q].payload) :
              f \in Facts(u, saved) \cup Facts(u, call[q].old)
    BY <2>1, WrittenFacts
  <2>3. Commit(q, saved)
    BY <1>3 DEF SaveUser
  <2> HIDE DEF saved
  <2>4. CASE EmailFree(saved.email, u)
    BY <1>1, <2>1, <2>2, <2>3, <2>4, CommitKeepsAuditInv DEF Commit
  <2>5. CASE ~EmailFree(saved.email, u)
    BY <1>1, <2>1, <2>3, <2>5, RefusalKeepsAuditInv DEF Commit
  <2> QED  BY <2>4, <2>5
<1> QED  BY <1>2, <1>3

(* A call that starts, checks its email or is aborted owes nothing yet. *)
LEMMA CallKeepsAuditInv ==
    ASSUME AuditInv, NEW q \in Calls, UserCall(q) \/ CheckEmail(q) \/ Abort(q),
           UNCHANGED auditVars
    PROVE  AuditInv'
<1>1. Inv' /\ call \in [Calls -> Jobs] /\ UNCHANGED <<pending, trail, missed, had>>
  BY NextKeepsInv DEF AuditInv, Next, Inv, TypeOK, auditVars
<1>2. ASSUME UNCHANGED users, call[q] # Served,
             \A o \in Calls : o # q => call'[o] = call[o],
             call'[q].at = "insert" =>
                /\ users[call'[q].user] = NoUser
                /\ \A o \in Calls \ {q} : call[o].at = "insert" =>
                                           call[o].user # call'[q].user,
             call'[q].at \in {"checkEmail", "save"} /\ call'[q].user \in Watched =>
                Facts(call'[q].user, call'[q].old) \subseteq had
      PROVE  AuditInv'
  <2>1. \A o \in Calls : pending[o] # NoEntry => call'[o] = Served
    BY <1>2 DEF AuditInv, EntriesTyped
  <2>2. \A o \in Calls :
           call'[o].at \in {"checkEmail", "save"} /\ call'[o].user \in Watched =>
              Facts(call'[o].user, call'[o].old) \subseteq had
    BY <1>2 DEF AuditInv, AllWasStored
  <2>3. FreshUsers'
    BY <1>2 DEF AuditInv, FreshUsers
  <2> QED  BY <1>1, <1>2, <2>1, <2>2, <2>3, QuietKeepsAuditInv
<1>3. Idle # Served /\ Idle.at = "idle" /\ Served.at = "served"
  BY DEF Idle, Served
<1>4. ASSUME NEW u \in UserIds, NEW row \in UserRow, CreateUser(q, u, row)
      PROVE  AuditInv'
  <2> DEFINE job == [at |-> "insert", user |-> u, new |-> row]
  <2>1. /\ UNCHANGED users /\ call[q] = Idle
        /\ call' = [call EXCEPT ![q] = job]
        /\ users[u] = NoUser
        /\ \A o \in Calls : call[o].at = "insert" => call[o].user # u
    BY <1>4 DEF CreateUser, Begin
  <2>2. job.at = "insert" /\ job.user = u
    OBVIOUS
  <2> HIDE DEF job
  <2>3. call'[q] = job /\ \A o \in Calls : o # q => call'[o] = call[o]
    BY <1>1, <2>1
  <2> QED  BY <1>2, <1>3, <2>1, <2>2, <2>3
<1>5. ASSUME NEW u \in UserIds, NEW at \in {"checkEmail", "save"}, NEW payload,
             Change(q, u, at, payload)
      PROVE  AuditInv'
  <2> DEFINE job == [at |-> at, user |-> u, old |-> users[u], payload |-> payload]
  <2>1. /\ UNCHANGED users /\ call[q] = Idle
        /\ call' = [call EXCEPT ![q] = job]
    BY <1>5 DEF Change, Begin
  <2>2. job.at = at /\ job.user = u /\ job.old = users[u]
    OBVIOUS
  <2> HIDE DEF job
  <2>3. call'[q] = job /\ \A o \in Calls : o # q => call'[o] = call[o]
    BY <1>1, <2>1
  <2>4. u \in Watched => Facts(u, users[u]) \subseteq had
    BY DEF AuditInv, AllWasStored
  <2> QED  BY <1>2, <1>3, <2>1, <2>2, <2>3, <2>4
<1>6. CASE UserCall(q)
  BY <1>4, <1>5, <1>6 DEF UserCall, UpdateUser, ReplaceUser, DeleteUser
<1>7. ASSUME End(q, Idle), UNCHANGED users, call[q] # Served PROVE AuditInv'
  <2>1. call'[q] = Idle /\ \A o \in Calls : o # q => call'[o] = call[o]
    BY <1>1, <1>7 DEF End
  <2> QED  BY <1>2, <1>3, <1>7, <2>1
<1>8. CASE CheckEmail(q)
  <2>1. /\ call[q].at = "checkEmail" /\ UNCHANGED users
        /\ call[q] \in [at : {"checkEmail", "save"}, user : UserIds,
                        old : UserRow, payload : Payload]
    BY <1>1, <1>8 DEF CheckEmail, Jobs, Idle, Served
  <2>2. call[q] # Served
    BY <1>3, <2>1
  <2>3. CASE End(q, Idle)
    BY <1>7, <2>1, <2>2, <2>3
  <2>4. CASE call' = [call EXCEPT ![q].at = "save"]
    <3>1. \A o \in Calls : o # q => call'[o] = call[o]
      BY <1>1, <2>4
    <3>2. call'[q].at = "save" /\ call'[q].user = call[q].user /\ call'[q].old = call[q].old
      BY <1>1, <2>1, <2>4
    <3>3. call[q].user \in Watched => Facts(call[q].user, call[q].old) \subseteq had
      BY <2>1 DEF AuditInv, AllWasStored
    <3> QED  BY <1>2, <2>1, <2>2, <3>1, <3>2, <3>3
  <2> QED  BY <1>8, <2>3, <2>4 DEF CheckEmail
<1>9. CASE Abort(q)
  BY <1>7, <1>9 DEF Abort
<1> QED  BY <1>6, <1>8, <1>9

(* Every step keeps the invariant. *)
LEMMA AuditedNextKeepsInv ==
    ASSUME AuditInv, [AuditedNext]_<<vars, auditVars>>
    PROVE  AuditInv'
<1>1. ASSUME NEW q \in Calls, AnswerUnwatched(q) PROVE AuditInv'
  <2>1. /\ Inv' /\ FreshUsers' /\ users' = users
        /\ \A o \in Calls : o # q => call'[o] = call[o]
        /\ call'[q].at = "idle"
    BY <1>1, AnswerKeepsCalls DEF AnswerUnwatched
  <2>2. pending[q] = NoEntry /\ UNCHANGED <<pending, trail, missed, had>>
    BY <1>1 DEF AnswerUnwatched, auditVars
  <2>3. \A o \in Calls : pending[o] # NoEntry => call'[o] = Served
    BY <2>1, <2>2 DEF AuditInv, EntriesTyped
  <2>4. \A o \in Calls :
           call'[o].at \in {"checkEmail", "save"} /\ call'[o].user \in Watched =>
              Facts(call'[o].user, call'[o].old) \subseteq had
    BY <2>1 DEF AuditInv, AllWasStored
  <2> QED  BY <2>1, <2>2, <2>3, <2>4, QuietKeepsAuditInv
<1>2. CASE UNCHANGED <<vars, auditVars>>
  BY <1>2 DEF vars, auditVars, AuditInv, Inv, TypeOK, ChangedIsStored, EntriesTyped,
              FreshUsers, AllWasStored, RowsExplained, Explained, Named
<1> QED
  BY <1>1, <1>2, CallKeepsAuditInv, WriteKeepsAuditInv, RefreshKeepsAuditInv,
     RecordKeepsAuditInv, LossKeepsAuditInv DEF AuditedNext

(* It holds in every state of every behaviour. *)
LEMMA AlwaysAuditInv == AuditedSpec => []AuditInv
<1>1. AuditedInit => AuditInv
  BY InitAuditInv
<1>2. AuditInv /\ [AuditedNext]_<<vars, auditVars>> => AuditInv'
  BY AuditedNextKeepsInv
<1> QED  BY <1>1, <1>2, PTL DEF AuditedSpec

(* Whatever the races and the losses, a value that an entry of the trail   *)
(* names was stored (user_service.py records what it has committed).       *)
THEOREM TrailNeverLies == AuditedSpec => []TrailIsTrue
<1>1. AuditInv => TrailIsTrue
  BY DEF AuditInv, AllWasStored, TrailIsTrue
<1> QED  BY <1>1, AlwaysAuditInv, PTL

(* Of a user no entry was lost of, every stored value is named by an entry *)
(* recorded or about to be, but for the status the row was created with.   *)
THEOREM TrailAccountsForEveryRow == AuditedSpec => []TrailAccountsForRows
<1>1. AuditInv => TrailAccountsForRows
  <2> SUFFICES ASSUME AuditInv, NEW u \in Watched \ missed, NEW f \in Facts(u, users[u])
               PROVE  \/ Accounted(f)
                      \/ /\ f.column = "status"
                         /\ \A g \in had : g.user = u /\ g.column = "status" => g = f
    BY DEF TrailAccountsForRows
  <2>1. Explained(f) /\ f.user = u
    BY FactOfRow DEF AuditInv, RowsExplained
  <2> QED  BY <2>1 DEF Explained, Named, Accounted
<1> QED  BY <1>1, AlwaysAuditInv, PTL

(* Keeping the trail changes nothing about the users: every theorem about  *)
(* them holds of the composition.                                          *)
THEOREM AuditedUsersAreUsers == AuditedSpec => Spec
<1>1. AuditedInit => Init
  BY DEF AuditedInit
<1>2. [AuditedNext]_<<vars, auditVars>> => [Next]_vars
  BY DEF AuditedNext, RefreshCreated, RecordAudit, AuditLost, AnswerUnwatched, Next
<1> QED  BY <1>1, <1>2, PTL DEF AuditedSpec, Spec
=============================================================================
