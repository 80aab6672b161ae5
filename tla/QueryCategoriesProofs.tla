----------------------- MODULE QueryCategoriesProofs ------------------------
(***************************************************************************)
(* The query categories keep their types, are a table with a unique key    *)
(* from which nothing is removed, and no commit writes what its call was   *)
(* not given, for any number of calls, admins, rows, keys and labels.      *)
(***************************************************************************)
EXTENDS QueryCategories, TLAPS

(* The row a call has read is stored: rows are never removed. *)
ChangedIsStored ==
    \A q \in Calls :
       call[q].at \in {"checkKey", "save"} => rows[call[q].id] # NoRow

Inv == TypeOK /\ ChangedIsStored

(* The object a call has changed is a row, and so is what its commit       *)
(* writes over any stored row.                                             *)
LEMMA WrittenRowIsRow ==
    ASSUME NEW stored \in Row, NEW read \in Row, NEW payload \in Payload,
           NEW admin \in Admins
    PROVE  WrittenRow(stored, read, Applied(read, payload, admin)) \in Row
<1>1. Applied(read, payload, admin) \in Row
  BY DEF Applied, Given, Row, Payload
<1> QED  BY <1>1 DEF WrittenRow, Column, Row

(* NoRow has no key, so it is not a row. *)
LEMMA NoRowIsNoRow == NoRow \notin Row
BY UnsetAssumption DEF NoRow, Row

(* What a slot holds at each point of its call. *)
LEMMA JobData ==
    ASSUME TypeOK, NEW q \in Calls
    PROVE  /\ call[q].at = "insert" => call[q].new \in Row
           /\ call[q].at \in {"checkKey", "save"} =>
                 call[q] \in [at : {"checkKey", "save"}, id : Ids, admin : Admins,
                              old : Row, payload : Payload]
<1>1. call[q] \in Jobs
  BY DEF TypeOK
<1>2. CASE call[q] \in {Idle, Served}
  BY <1>2 DEF Idle, Served
<1>3. CASE call[q] \notin {Idle, Served}
  BY <1>1, <1>3 DEF Jobs
<1> QED  BY <1>2, <1>3

(* Before the first call there is no row. *)
LEMMA InitInv == Init => Inv
BY DEF Init, Inv, TypeOK, ChangedIsStored, Jobs, Idle

(* A new job of a free slot keeps the invariant. *)
LEMMA BeginKeepsInv ==
    ASSUME Inv, NEW q \in Calls, NEW job \in Jobs, Begin(q, job),
           job.at \in {"checkKey", "save"} => rows[job.id] # NoRow
    PROVE  Inv'
<1>1. call' = [call EXCEPT ![q] = job] /\ rows' = rows
  BY DEF Begin
<1>2. TypeOK'
  BY <1>1 DEF Inv, TypeOK
<1>3. ChangedIsStored'
  BY <1>1 DEF Inv, TypeOK, ChangedIsStored
<1> QED  BY <1>2, <1>3 DEF Inv

(* So does a call that reads a row and goes on to change it. *)
LEMMA ChangeKeepsInv ==
    ASSUME Inv, NEW q \in Calls, NEW i \in Ids, NEW admin \in Admins,
           NEW at \in {"checkKey", "save"}, NEW payload \in Payload,
           Change(q, i, admin, at, payload)
    PROVE  Inv'
<1> DEFINE job == [at |-> at, id |-> i, admin |-> admin, old |-> rows[i],
                   payload |-> payload]
<1>1. rows[i] # NoRow /\ Begin(q, job)
  BY DEF Change
<1>2. rows[i] \in Row
  BY <1>1 DEF Inv, TypeOK
<1>3. job \in Jobs /\ job.id = i
  BY <1>2 DEF Jobs
<1> QED  BY <1>1, <1>3, BeginKeepsInv

(* So does a slot that ends its call and leaves the table alone. *)
LEMMA EndKeepsInv ==
    ASSUME Inv, NEW q \in Calls, NEW reply \in {Idle, Served}, End(q, reply),
           UNCHANGED rows
    PROVE  Inv'
<1>1. reply \in Jobs /\ reply.at \notin {"checkKey", "save"}
  BY DEF Jobs, Idle, Served
<1>2. TypeOK'
  BY <1>1 DEF Inv, TypeOK, End
<1>3. ChangedIsStored'
  BY <1>1 DEF Inv, TypeOK, ChangedIsStored, End
<1> QED  BY <1>2, <1>3 DEF Inv

(* So does a commit of a row: no row is removed. *)
LEMMA CommitKeepsInv ==
    ASSUME Inv, NEW q \in Calls, NEW i \in Ids, NEW row \in Row, Commit(q, i, row)
    PROVE  Inv'
<1>1. CASE KeyFree(row.key, i)
  <2>1. rows' = [rows EXCEPT ![i] = row] /\ End(q, Served)
    BY <1>1 DEF Commit
  <2>2. Served \in Jobs /\ Served.at \notin {"checkKey", "save"}
    BY DEF Jobs, Served
  <2>3. TypeOK'
    BY <2>1, <2>2 DEF Inv, TypeOK, End
  <2>4. \A j \in Ids : rows[j] # NoRow => rows'[j] # NoRow
    BY <2>1, NoRowIsNoRow DEF Inv, TypeOK
  <2>5. ASSUME NEW o \in Calls, call'[o].at \in {"checkKey", "save"}
        PROVE  rows'[call'[o].id] # NoRow
    <3>1. o # q /\ call'[o] = call[o]
      BY <2>1, <2>2, <2>5 DEF Inv, TypeOK, End
    <3>2. call[o].id \in Ids /\ rows[call[o].id] # NoRow
      BY <2>5, <3>1, JobData DEF Inv, ChangedIsStored
    <3> QED  BY <2>4, <3>1, <3>2
  <2> QED  BY <2>3, <2>5 DEF Inv, ChangedIsStored
<1>2. CASE ~KeyFree(row.key, i)
  BY <1>2, EndKeepsInv DEF Commit
<1> QED  BY <1>1, <1>2

(* What a save commits is a row. *)
LEMMA SavedRow ==
    ASSUME Inv, NEW q \in Calls, call[q].at = "save"
    PROVE  /\ call[q].id \in Ids /\ rows[call[q].id] \in Row
           /\ call[q].old \in Row /\ call[q].payload \in Payload
           /\ WrittenRow(rows[call[q].id], call[q].old,
                         Applied(call[q].old, call[q].payload, call[q].admin)) \in Row
<1>1. call[q] \in [at : {"checkKey", "save"}, id : Ids, admin : Admins,
                   old : Row, payload : Payload]
  BY JobData DEF Inv
<1>2. rows[call[q].id] \in Row
  BY <1>1 DEF Inv, TypeOK, ChangedIsStored
<1> QED  BY <1>1, <1>2, WrittenRowIsRow

(* Every step keeps the invariant. *)
LEMMA NextKeepsInv ==
    ASSUME Inv, [Next]_vars
    PROVE  Inv'
<1>1. CASE UNCHANGED vars
  BY <1>1 DEF vars, Inv, TypeOK, ChangedIsStored
<1>2. ASSUME NEW q \in Calls, NEW admin \in Admins, NEW key \in Keys,
             NEW label \in Labels, NEW status \in Statuses,
             CreateCategory(q, admin, key, label, status)
      PROVE  Inv'
  <2> DEFINE row == [key |-> key, label |-> label, status |-> status,
                     updatedBy |-> admin]
             job == [at |-> "insert", new |-> row]
  <2>1. job \in Jobs /\ job.at \notin {"checkKey", "save"}
    BY DEF Jobs, Row
  <2>2. Begin(q, job)
    BY <1>2 DEF CreateCategory
  <2> QED  BY <2>1, <2>2, BeginKeepsInv
<1>3. ASSUME NEW q \in Calls, NEW admin \in Admins, NEW i \in Ids,
             NEW payload \in Payload, UpdateCategory(q, i, admin, payload)
      PROVE  Inv'
  BY <1>3, ChangeKeepsInv DEF UpdateCategory
<1>4. ASSUME NEW q \in Calls, NEW admin \in Admins, NEW i \in Ids,
             DeleteCategory(q, i, admin)
      PROVE  Inv'
  <2>1. [key |-> Unset, label |-> Unset, status |-> "inactive"] \in Payload
    BY DEF Payload, Statuses
  <2> QED  BY <1>4, <2>1, ChangeKeepsInv DEF DeleteCategory
<1>5. ASSUME NEW q \in Calls, CheckKey(q)
      PROVE  Inv'
  <2>1. CASE ~KeyFree(call[q].payload.key, call[q].id)
    BY <1>5, <2>1, EndKeepsInv DEF CheckKey
  <2>2. CASE KeyFree(call[q].payload.key, call[q].id)
    <3> DEFINE job == [call[q] EXCEPT !.at = "save"]
    <3>1. /\ call[q].at = "checkKey" /\ rows' = rows
          /\ call' = [call EXCEPT ![q].at = "save"]
      BY <1>5, <2>2 DEF CheckKey
    <3>2. call[q] \in [at : {"checkKey", "save"}, id : Ids, admin : Admins,
                       old : Row, payload : Payload]
      BY <3>1, JobData DEF Inv
    <3>3. job \in Jobs /\ job.id = call[q].id
      BY <3>2 DEF Jobs
    <3>4. call' = [call EXCEPT ![q] = job]
      BY <3>1 DEF Inv, TypeOK
    <3> HIDE DEF job
    <3>5. TypeOK'
      BY <3>1, <3>3, <3>4 DEF Inv, TypeOK
    <3>6. ChangedIsStored'
      BY <3>1, <3>3, <3>4 DEF Inv, TypeOK, ChangedIsStored
    <3> QED  BY <3>5, <3>6 DEF Inv
  <2> QED  BY <2>1, <2>2
<1>6. ASSUME NEW q \in Calls, NEW i \in Ids, InsertCategory(q, i)
      PROVE  Inv'
  BY <1>6, JobData, CommitKeepsInv DEF InsertCategory, Inv
<1>7. ASSUME NEW q \in Calls, SaveCategory(q)
      PROVE  Inv'
  BY <1>7, SavedRow, CommitKeepsInv DEF SaveCategory
<1>8. ASSUME NEW q \in Calls, Abort(q)
      PROVE  Inv'
  BY <1>8, EndKeepsInv DEF Abort
<1> QED
  BY <1>1, <1>2, <1>3, <1>4, <1>5, <1>6, <1>7, <1>8 DEF Next, CategoryCall

(* It holds in every state of every behaviour. *)
LEMMA AlwaysInv == Spec => []Inv
<1>1. Inv /\ [Next]_vars => Inv'
  BY NextKeepsInv
<1> QED  BY <1>1, InitInv, PTL DEF Spec

-----------------------------------------------------------------------------
(* A commit takes a free key for its row, or leaves the keys alone. *)
LEMMA CommitIsTableStep ==
    ASSUME Inv, NEW q \in Calls, NEW id \in Ids, NEW row \in Row, Commit(q, id, row)
    PROVE  [Table!Next]_[c \in Ids |-> rows[c].key]
<1> DEFINE key == [c \in Ids |-> rows[c].key]
<1>1. CASE KeyFree(row.key, id)
  <2>1. rows' = [rows EXCEPT ![id] = row]
    BY <1>1 DEF Commit
  <2>2. key' = [key EXCEPT ![id] = row.key]
    BY <2>1 DEF Inv, TypeOK
  <2>3. CASE rows[id].key = row.key
    BY <2>2, <2>3
  <2>4. CASE rows[id].key # row.key
    <3>1. \A i \in Ids : rows[i].key # row.key
      BY <1>1, <2>4 DEF KeyFree
    <3>2. row.key \in Keys
      BY DEF Row
    <3>3. Table!Take(id, row.key)
      BY <2>2, <3>1 DEF Table!Take, Table!Free
    <3> QED  BY <3>2, <3>3 DEF Table!Next
  <2> QED  BY <2>3, <2>4
<1>2. CASE ~KeyFree(row.key, id)
  BY <1>2 DEF Commit
<1> QED  BY <1>1, <1>2

(* Every step is a step of the table, or leaves the keys alone. *)
LEMMA StepIsTableStep ==
    ASSUME Inv, [Next]_vars
    PROVE  [Table!Next]_[c \in Ids |-> rows[c].key]
<1>1. ASSUME NEW q \in Calls, NEW id \in Ids, InsertCategory(q, id)
      PROVE  [Table!Next]_[c \in Ids |-> rows[c].key]
  BY <1>1, JobData, CommitIsTableStep DEF InsertCategory, Inv
<1>2. ASSUME NEW q \in Calls, SaveCategory(q)
      PROVE  [Table!Next]_[c \in Ids |-> rows[c].key]
  BY <1>2, SavedRow, CommitIsTableStep DEF SaveCategory
<1>3. ASSUME UNCHANGED rows
      PROVE  [Table!Next]_[c \in Ids |-> rows[c].key]
  BY <1>3
<1>4. ASSUME NEW q \in Calls, NEW admin \in Admins,
             CategoryCall(q, admin) \/ CheckKey(q) \/ Abort(q)
      PROVE  UNCHANGED rows
  BY <1>4 DEF CategoryCall, CreateCategory, UpdateCategory, DeleteCategory, Change,
              Begin, CheckKey, Abort
<1>5. CASE UNCHANGED vars
  BY <1>3, <1>5 DEF vars
<1>6. ASSUME NEW q \in Calls, CheckKey(q) \/ Abort(q) PROVE UNCHANGED rows
  BY <1>6 DEF CheckKey, Abort
<1> QED  BY <1>1, <1>2, <1>3, <1>4, <1>5, <1>6 DEF Next

(* A step in which call q commits is its SaveCategory, over a row that is  *)
(* there.                                                                  *)
LEMMA CommitIsSave ==
    ASSUME Inv, [Next]_vars, NEW q \in Calls, Commits(q)
    PROVE  SaveCategory(q)
<1>1. /\ call \in [Calls -> Jobs] /\ call[q].at = "save" /\ call'[q] = Served
      /\ Served.at = "served" /\ Idle.at = "idle"
  BY DEF Inv, TypeOK, Commits, Served, Idle
<1>2. call'[q] # call[q]
  BY <1>1
<1>3. ASSUME NEW o \in Calls, NEW job, call' = [call EXCEPT ![o] = job]
      PROVE  o = q /\ job = Served
  BY <1>1, <1>2, <1>3
<1>4. ASSUME NEW o \in Calls, NEW job, Begin(o, job) PROVE FALSE
  <2>1. o = q
    BY <1>3, <1>4 DEF Begin
  <2> QED  BY <1>1, <1>4, <2>1 DEF Begin
<1>5. ASSUME NEW o \in Calls, NEW admin \in Admins, CategoryCall(o, admin) PROVE FALSE
  BY <1>4, <1>5 DEF CategoryCall, CreateCategory, UpdateCategory, DeleteCategory, Change
<1>6. ASSUME NEW o \in Calls, CheckKey(o) PROVE FALSE
  <2>1. CASE End(o, Idle)
    BY <1>1, <1>3, <2>1 DEF End
  <2>2. CASE call' = [call EXCEPT ![o] = [call[o] EXCEPT !.at = "save"]]
    <3>1. o = q
      BY <1>3, <2>2
    <3> QED  BY <1>1, <1>6, <3>1 DEF CheckKey
  <2> QED  BY <1>1, <1>6, <2>1, <2>2 DEF CheckKey
<1>7. ASSUME NEW o \in Calls, Abort(o) PROVE FALSE
  BY <1>1, <1>3, <1>7 DEF Abort, End
<1>8. ASSUME NEW o \in Calls, NEW i \in Ids, InsertCategory(o, i) PROVE FALSE
  <2>1. o = q
    BY <1>3, <1>8 DEF InsertCategory, Commit, End
  <2> QED  BY <1>1, <1>8, <2>1 DEF InsertCategory
<1>9. ASSUME NEW o \in Calls, SaveCategory(o) PROVE o = q
  BY <1>3, <1>9 DEF SaveCategory, Commit, End
<1>10. ~UNCHANGED vars
  BY <1>2 DEF vars
<1> QED  BY <1>5, <1>6, <1>7, <1>8, <1>9, <1>10 DEF Next

(* What it writes it was given, or was stored. *)
LEMMA SaveWritesOnlyGiven ==
    ASSUME Inv, NEW q \in Calls, SaveCategory(q), Commits(q)
    PROVE  WritesOnlyGiven(q)
<1> DEFINE job == call[q]
           old == rows[job.id]
           row == WrittenRow(old, job.old, Applied(job.old, job.payload, job.admin))
<1>1. /\ job.id \in Ids /\ old \in Row /\ job.old \in Row /\ job.payload \in Payload
  BY SavedRow DEF SaveCategory
<1>2. Commit(q, job.id, row) /\ call'[q] # Idle
  BY DEF SaveCategory, Commits, Served, Idle
<1>3. row.key \in {old.key, job.payload.key}
  BY <1>1 DEF WrittenRow, Applied, Column, Given, Row
<1>4. row.label \in {old.label, job.payload.label}
  BY <1>1 DEF WrittenRow, Applied, Column, Given, Row
<1>5. row.status \in {old.status, job.payload.status}
  BY <1>1 DEF WrittenRow, Applied, Column, Given, Row
<1>6. row.updatedBy \in {old.updatedBy, job.admin}
  BY <1>1 DEF WrittenRow, Applied, Column, Row
<1> HIDE DEF row
<1>7. rows' = [rows EXCEPT ![job.id] = row]
  <2>1. ~End(q, Idle)
    BY <1>2 DEF End, Inv, TypeOK
  <2> QED  BY <1>2, <2>1 DEF Commit
<1>8. rows'[job.id] = row
  BY <1>1, <1>7 DEF Inv, TypeOK
<1> QED  BY <1>3, <1>4, <1>5, <1>6, <1>8 DEF WritesOnlyGiven

-----------------------------------------------------------------------------
(* Every row is a category with its columns, or is not there yet: no stale *)
(* object ever writes anything else.                                       *)
THEOREM CategoriesTyped == Spec => []TypeOK
BY AlwaysInv, PTL DEF Inv

(* Whatever calls race, two categories never have the same key, a key is   *)
(* taken only while it is free, and no category is ever removed.           *)
THEOREM CategoriesAreATable == Spec => ImplementsTable
<1>1. Init => Table!Init
  BY DEF Init, NoRow, Table!Init
<1>2. Inv /\ [Next]_vars => [Table!Next]_[c \in Ids |-> rows[c].key]
  BY StepIsTableStep
<1>3. Spec => Table!Init
  BY <1>1, PTL DEF Spec
<1>4. Spec => [][Table!Next]_[c \in Ids |-> rows[c].key]
  BY <1>2, AlwaysInv, PTL DEF Spec
<1>5. Table!Init /\ [][Table!Next]_[c \in Ids |-> rows[c].key] => Table!Spec
  BY PTL DEF Table!Spec
<1> QED
  BY <1>3, <1>4, <1>5, PTL DEF ImplementsTable

(* A commit over a row that others have changed since it was read writes   *)
(* nothing but what its own call was given, and its admin.                 *)
THEOREM CommitsWriteOnlyGiven == Spec => OnlyGivenChanges
<1>1. Inv /\ [Next]_vars => [\A q \in Calls : Commits(q) => WritesOnlyGiven(q)]_vars
  BY CommitIsSave, SaveWritesOnlyGiven
<1> QED  BY <1>1, AlwaysInv, PTL DEF Spec, OnlyGivenChanges
=============================================================================
