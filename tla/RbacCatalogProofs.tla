------------------------- MODULE RbacCatalogProofs --------------------------
(***************************************************************************)
(* The roles, the screens and the grants keep their promises for any       *)
(* number of calls, roles, screens and admins.                             *)
(***************************************************************************)
EXTENDS RbacCatalog, TLAPS

SuperRow == [name |-> SUPER_ADMIN_ROLE_NAME, status |-> "active"]

Seeded == roles[SuperRole] # NoRole

(* Nothing happens before the catalog is seeded; after that its screens    *)
(* are there, the protected ones are active, and only stored screens are   *)
(* granted to super_admin, which some admin is as long as there are any.   *)
Bootstrap ==
    /\ ~Seeded => /\ admins = {}
                  /\ \A r \in RoleIds : roles[r] = NoRole
                  /\ \A c \in Codes : screens[c] = Unset
                  /\ \A q \in Calls : call[q] = Idle
    /\ Seeded => /\ \A c \in Catalog : screens[c] # Unset
                 /\ \A c \in Protected : screens[c] = "active"
    /\ admins # {} => \E a \in admins : SuperRole \in assigned[a]
    /\ \A c \in DOMAIN grants[SuperRole] : screens[c] # Unset

(* The replacement of a role's grants, from its DELETE to its COMMIT. *)
Replacing == {"deleteGrants", "lockGrants", "insertGrants"}
Replacements ==
    [at : Replacing, role : RoleIds, rows : SUBSET Codes, holds : SUBSET Codes,
     waits : SUBSET Codes, asked : Grants]

(* What a call in flight may rely on at its commit, although others have   *)
(* run since it was checked.                                               *)
JobOK(job) ==
    /\ job.at = "insertRole" => job.role # SuperRole /\ roles[job.role] = NoRole
    /\ job.at \in {"checkName", "saveRole"} =>
          /\ roles[job.role] # NoRole
          /\ job.role = SuperRole => job.old = SuperRow /\ job.new = SuperRow
    /\ job.at \in Replacing =>
          /\ job.role # SuperRole
          /\ \A c \in DOMAIN job.asked : job.asked[c].write => job.asked[c].read
    /\ job.at = "saveScreen" =>
          /\ screens[job.code] # Unset
          /\ job.code \in Protected => job.new = "active"

JobsOK == \A q \in Calls : JobOK(call[q])

(* Two creations never have the same fresh id. *)
FreshRoles ==
    \A q, o \in Calls :
       q # o /\ call[q].at = "insertRole" /\ call[o].at = "insertRole"
       => call[q].role # call[o].role

(* Two roles never share a name. *)
NamesUnique ==
    \A r, o \in RoleIds :
        r # o /\ roles[r] # NoRole => roles[r].name # roles[o].name

IInv ==
    /\ TypeOK
    /\ SuperAdminKept
    /\ NamesUnique
    /\ WriteImpliesRead
    /\ EveryScreenGranted
    /\ Bootstrap
    /\ JobsOK
    /\ FreshRoles

-----------------------------------------------------------------------------
(* Joining two sets of grants keeps the first where they overlap. *)
LEMMA JoinedGrants ==
    ASSUME NEW f \in Grants, NEW g \in Grants
    PROVE  /\ Joined(f, g) \in Grants
           /\ DOMAIN Joined(f, g) = DOMAIN f \cup DOMAIN g
           /\ \A c \in DOMAIN f : Joined(f, g)[c] = f[c]
           /\ \A c \in DOMAIN g \ DOMAIN f : Joined(f, g)[c] = g[c]
<1>1. DOMAIN f \in SUBSET Codes /\ DOMAIN g \in SUBSET Codes
  BY DEF Grants
<1>2. /\ \A c \in DOMAIN f : f[c] \in Access
      /\ \A c \in DOMAIN g : g[c] \in Access
  BY DEF Grants
<1>3. Joined(f, g) \in [DOMAIN f \cup DOMAIN g -> Access]
  BY <1>2 DEF Joined
<1>4. Joined(f, g) \in Grants
  BY <1>1, <1>3 DEF Grants
<1> QED  BY <1>4 DEF Joined

(* A function into flags over some screens is a set of grants. *)
LEMMA FlagsAreGrants ==
    ASSUME NEW some \in SUBSET Codes, NEW f \in [some -> Access]
    PROVE  f \in Grants
BY DEF Grants

(* The screens of a set of grants, and its flags. *)
LEMMA GrantsAreFlags ==
    ASSUME NEW f \in Grants
    PROVE  DOMAIN f \in SUBSET Codes /\ \A c \in DOMAIN f : f[c] \in Access
BY DEF Grants

(* The row the seed script stores for super_admin is one of the column types. *)
LEMMA SuperRowIsRow == SuperRow \in RoleRow
BY RolesAssumption DEF SuperRow, RoleRow, Statuses

(* An absent role is told from a stored one.                               *)
LEMMA NoRoleIsNoRow == NoRole \notin RoleRow /\ NoRole # SuperRow
BY RolesAssumption DEF NoRole, RoleRow, SuperRow, SUPER_ADMIN_ROLE_NAME

(* Where a call may begin there is an admin, and so the catalog is there. *)
LEMMA AuthorisedSeeded ==
    ASSUME IInv, NEW c, Authorised(c)
    PROVE  Seeded
BY DEF IInv, Bootstrap, Authorised

(* What a slot holds at each point of its call. *)
LEMMA JobData ==
    ASSUME TypeOK, NEW q \in Calls
    PROVE  /\ call[q] \in Jobs
           /\ call[q].at = "insertRole" =>
                 call[q] \in [at : {"insertRole"}, role : RoleIds, new : RoleRow]
           /\ call[q].at \in {"checkName", "saveRole"} =>
                 call[q] \in [at : {"checkName", "saveRole"}, role : RoleIds,
                              old : RoleRow, new : RoleRow]
           /\ call[q].at \in Replacing => call[q] \in Replacements
           /\ call[q].at \in {"checkCode", "insertScreen"} =>
                 call[q] \in [at : {"checkCode", "insertScreen"}, code : Codes,
                              status : Statuses]
           /\ call[q].at = "saveScreen" =>
                 call[q] \in [at : {"saveScreen"}, code : Codes, old : Statuses,
                              new : Statuses]
<1>1. call[q] \in Jobs
  BY DEF TypeOK
<1>2. CASE call[q] = Idle
  BY <1>1, <1>2 DEF Idle, Replacing
<1>3. CASE call[q] # Idle
  BY <1>1, <1>3 DEF Jobs, Replacing, Replacements
<1> QED  BY <1>2, <1>3

(* The seeded screens have codes. *)
LEMMA CatalogIsCoded ==
    /\ Catalog \subseteq Codes
    /\ Protected \subseteq Catalog
    /\ RolesScreen \in Protected \ ReadOnly
    /\ ScreensScreen \in Protected \ ReadOnly
BY CatalogAssumption DEF Codes

(* A slot without a call relies on nothing.                                *)
LEMMA IdleIsOK == Idle \in Jobs /\ JobOK(Idle) /\ Idle.at = "idle"
BY DEF Jobs, JobOK, Idle, Replacing

(* The steps of a replacement before its COMMIT. *)
EarlyStep(q) ==
    \/ DeleteGrants(q) \/ GrantsDeleted(q) \/ DeadlockVictim(q)
    \/ \E c \in Codes : AwaitRow(q, c) \/ LockGrant(q, c) \/ InsertGrant(q, c)

(* They change no table: the call goes on with its request, or gives up.   *)
LEMMA EarlySteps ==
    ASSUME TypeOK, NEW q \in Calls, EarlyStep(q)
    PROVE  /\ UNCHANGED <<screens, roles, grants, admins, assigned>>
           /\ \/ End(q)
              \/ /\ call[q] \in Replacements
                 /\ \E job \in Replacements :
                       /\ job.role = call[q].role /\ job.asked = call[q].asked
                       /\ call' = [call EXCEPT ![q] = job]
<1>1. call \in [Calls -> Jobs] /\ grants \in [RoleIds -> Grants]
  BY DEF TypeOK
<1>2. CASE DeleteGrants(q)
  <2> DEFINE rows == DOMAIN grants[call[q].role]
             job == [call[q] EXCEPT !.at = "lockGrants", !.rows = rows]
  <2>1. call[q] \in Replacements
    BY <1>2, JobData DEF DeleteGrants, Replacing
  <2>2. rows \in SUBSET Codes
    BY <1>1, <2>1, GrantsAreFlags DEF Replacements
  <2>3. call' = [call EXCEPT ![q] = job]
    BY <1>1, <1>2 DEF DeleteGrants
  <2> HIDE DEF rows
  <2>4. job \in Replacements /\ job.role = call[q].role /\ job.asked = call[q].asked
    BY <2>1, <2>2 DEF Replacements, Replacing
  <2> HIDE DEF job
  <2> QED  BY <1>2, <2>1, <2>3, <2>4 DEF DeleteGrants
<1>3. CASE GrantsDeleted(q)
  <2> DEFINE rows == DOMAIN call[q].asked
             job == [call[q] EXCEPT !.at = "insertGrants", !.rows = rows]
  <2>1. call[q] \in Replacements
    BY <1>3, JobData DEF GrantsDeleted, Replacing
  <2>2. rows \in SUBSET Codes
    BY <2>1, GrantsAreFlags DEF Replacements
  <2>3. call' = [call EXCEPT ![q] = job]
    BY <1>1, <1>3 DEF GrantsDeleted
  <2> HIDE DEF rows
  <2>4. job \in Replacements /\ job.role = call[q].role /\ job.asked = call[q].asked
    BY <2>1, <2>2 DEF Replacements, Replacing
  <2> HIDE DEF job
  <2> QED  BY <1>3, <2>1, <2>3, <2>4 DEF GrantsDeleted
<1>4. CASE DeadlockVictim(q)
  BY <1>4 DEF DeadlockVictim, RolledBack
<1>5. ASSUME NEW c \in Codes, AwaitRow(q, c)
      PROVE  \E job \in Replacements :
                /\ job.role = call[q].role /\ job.asked = call[q].asked
                /\ call' = [call EXCEPT ![q] = job]
  <2> DEFINE job == [call[q] EXCEPT !.waits = {c}]
  <2>1. call[q] \in Replacements
    BY <1>5, JobData DEF AwaitRow, Replacing
  <2>2. job \in Replacements /\ job.role = call[q].role /\ job.asked = call[q].asked
    BY <2>1 DEF Replacements
  <2>3. call' = [call EXCEPT ![q] = job]
    BY <1>1, <1>5 DEF AwaitRow
  <2> HIDE DEF job
  <2> QED  BY <2>2, <2>3
<1>6. ASSUME NEW c \in Codes, call[q].at \in Replacing, TakeRow(q, c)
      PROVE  \E job \in Replacements :
                /\ job.role = call[q].role /\ job.asked = call[q].asked
                /\ call' = [call EXCEPT ![q] = job]
  <2> DEFINE job == [call[q] EXCEPT !.rows = @ \ {c}, !.holds = @ \cup {c},
                                    !.waits = {}]
  <2>1. call[q] \in Replacements
    BY <1>6, JobData
  <2>2. job \in Replacements /\ job.role = call[q].role /\ job.asked = call[q].asked
    BY <2>1 DEF Replacements
  <2>3. call' = [call EXCEPT ![q] = job]
    BY <1>1, <1>6 DEF TakeRow
  <2> HIDE DEF job
  <2> QED  BY <2>2, <2>3
<1>7. ASSUME NEW c \in Codes, AwaitRow(q, c) \/ LockGrant(q, c) \/ InsertGrant(q, c)
      PROVE  /\ UNCHANGED <<screens, roles, grants, admins, assigned>>
             /\ call[q] \in Replacements
             /\ AwaitRow(q, c) \/ TakeRow(q, c) \/ End(q)
  <2>1. call[q].at \in Replacing
    BY <1>7 DEF AwaitRow, LockGrant, InsertGrant, Replacing
  <2> QED  BY <1>7, <2>1, JobData DEF AwaitRow, LockGrant, InsertGrant, RolledBack
<1>8. ASSUME NEW c \in Codes, AwaitRow(q, c) \/ LockGrant(q, c) \/ InsertGrant(q, c),
             ~End(q)
      PROVE  \E job \in Replacements :
                /\ job.role = call[q].role /\ job.asked = call[q].asked
                /\ call' = [call EXCEPT ![q] = job]
  <2>1. call[q].at \in Replacing
    BY <1>7, <1>8 DEF Replacements
  <2> QED  BY <1>5, <1>6, <1>7, <1>8, <2>1
<1> QED  BY <1>2, <1>3, <1>4, <1>7, <1>8 DEF EarlyStep

-----------------------------------------------------------------------------
(* The empty database satisfies the invariant.                             *)
LEMMA InitIInv == Init => IInv
<1> SUFFICES ASSUME Init PROVE IInv
  OBVIOUS
<1>1. NoGrants \in Grants /\ DOMAIN NoGrants = {}
  BY DEF NoGrants, Grants
<1>2. TypeOK
  BY <1>1, IdleIsOK DEF Init, TypeOK
<1>3. SuperAdminKept /\ NamesUnique
  BY RolesAssumption DEF Init, SuperAdminKept, NamesUnique
<1>4. WriteImpliesRead /\ EveryScreenGranted
  BY <1>1 DEF Init, WriteImpliesRead, EveryScreenGranted
<1>5. Bootstrap
  BY <1>1, RolesAssumption DEF Init, Bootstrap, Seeded
<1>6. JobsOK /\ FreshRoles
  BY IdleIsOK DEF Init, JobsOK, FreshRoles
<1> QED  BY <1>2, <1>3, <1>4, <1>5, <1>6 DEF IInv

(* A step that only moves calls on keeps the invariant if their data does. *)
LEMMA CallsMoveKeepsIInv ==
    ASSUME IInv, UNCHANGED <<screens, roles, grants, admins, assigned>>,
           call' \in [Calls -> Jobs], \A q \in Calls : JobOK(call'[q]),
           Seeded \/ \A q \in Calls : call'[q] = Idle, FreshRoles'
    PROVE  IInv'
<1>1. TypeOK'
  BY DEF IInv, TypeOK
<1>2. SuperAdminKept' /\ NamesUnique' /\ WriteImpliesRead' /\ EveryScreenGranted'
  BY DEF IInv, SuperAdminKept, NamesUnique, WriteImpliesRead, EveryScreenGranted
<1>3. Bootstrap'
  BY DEF IInv, Bootstrap, Seeded
<1>4. JobsOK'
  BY DEF JobsOK, JobOK
<1> QED  BY <1>1, <1>2, <1>3, <1>4 DEF IInv

(* So does a slot that takes up a call, or goes on in it. *)
LEMMA MoveKeepsIInv ==
    ASSUME IInv, Seeded, UNCHANGED <<screens, roles, grants, admins, assigned>>,
           NEW q \in Calls, NEW job \in Jobs, JobOK(job),
           call' = [call EXCEPT ![q] = job],
           job.at = "insertRole" =>
              \A o \in Calls : call[o].at = "insertRole" => call[o].role # job.role
    PROVE  IInv'
<1>1. call \in [Calls -> Jobs]
  BY DEF IInv, TypeOK
<1>2. \A o \in Calls : call'[o] = IF o = q THEN job ELSE call[o]
  BY <1>1
<1>3. call' \in [Calls -> Jobs]
  BY <1>1
<1>4. \A o \in Calls : JobOK(call'[o])
  BY <1>2 DEF IInv, JobsOK
<1>5. FreshRoles'
  BY <1>2 DEF IInv, FreshRoles
<1> QED  BY <1>3, <1>4, <1>5, CallsMoveKeepsIInv

(* So does one whose call ends without a change. *)
LEMMA EndKeepsIInv ==
    ASSUME IInv, UNCHANGED <<screens, roles, grants, admins, assigned>>,
           NEW q \in Calls, End(q)
    PROVE  IInv'
<1>1. call \in [Calls -> Jobs]
  BY DEF IInv, TypeOK
<1>2. \A o \in Calls : call'[o] = IF o = q THEN Idle ELSE call[o]
  BY <1>1 DEF End
<1>3. call' \in [Calls -> Jobs]
  BY <1>1, IdleIsOK DEF End
<1>4. \A o \in Calls : JobOK(call'[o])
  BY <1>2, IdleIsOK DEF IInv, JobsOK
<1>5. FreshRoles'
  BY <1>2, IdleIsOK DEF IInv, FreshRoles
<1>6. Seeded \/ \A o \in Calls : call'[o] = Idle
  BY <1>2 DEF IInv, Bootstrap
<1> QED  BY <1>3, <1>4, <1>5, <1>6, CallsMoveKeepsIInv

(* A call that begins is one of an admin, so the catalog is there. *)
LEMMA BeginKeepsIInv ==
    ASSUME IInv, NEW q \in Calls, NEW c, NEW job \in Jobs, Begin(q, c, job),
           JobOK(job),
           job.at = "insertRole" =>
              \A o \in Calls : call[o].at = "insertRole" => call[o].role # job.role
    PROVE  IInv'
<1>1. Seeded
  BY AuthorisedSeeded DEF Begin
<1> QED  BY <1>1, MoveKeepsIInv DEF Begin

(* A role that is stored under a free name, by the call that had its fresh *)
(* id or over the row that was there, keeps the invariant.                 *)
LEMMA RoleStoredKeepsIInv ==
    ASSUME IInv, Seeded, NEW q \in Calls, NEW r \in RoleIds, NEW row \in RoleRow,
           roles' = [roles EXCEPT ![r] = row], NameFree(row.name, r),
           r = SuperRole => row = SuperRow,
           roles[r] # NoRole \/ (call[q].at = "insertRole" /\ call[q].role = r),
           End(q), UNCHANGED <<screens, grants, admins, assigned>>
    PROVE  IInv'
<1>1. /\ call \in [Calls -> Jobs]
      /\ roles \in [RoleIds -> RoleRow \cup {NoRole}]
  BY DEF IInv, TypeOK
<1>2. \A o \in Calls : call'[o] = IF o = q THEN Idle ELSE call[o]
  BY <1>1 DEF End
<1>3. \A o \in RoleIds : roles'[o] = IF o = r THEN row ELSE roles[o]
  BY <1>1
<1>4. TypeOK'
  BY <1>1, <1>2, <1>3, IdleIsOK DEF IInv, TypeOK, End
<1>5. SuperAdminKept'
  BY <1>3, RolesAssumption DEF IInv, SuperAdminKept, SuperRow
<1>6. NamesUnique'
  BY <1>3, NoRoleIsNoRow DEF IInv, NamesUnique, NameFree
<1>7. WriteImpliesRead' /\ EveryScreenGranted'
  BY DEF IInv, WriteImpliesRead, EveryScreenGranted
<1>8. Seeded'
  BY <1>3, NoRoleIsNoRow, RolesAssumption DEF Seeded
<1>9. Bootstrap'
  BY <1>8 DEF IInv, Bootstrap, Seeded
<1>10. ASSUME NEW o \in Calls PROVE JobOK(call[o])
  BY DEF IInv, JobsOK
<1>11. ASSUME NEW o \in Calls, o # q PROVE JobOK(call[o])'
  <2>1. call'[o] = call[o] /\ call[o] \in Jobs
    BY <1>1, <1>2, <1>11
  <2>2. call[o].at = "insertRole" => call[o].role # r /\ call[o].role \in RoleIds
    BY <1>10, <1>11, JobData DEF JobOK, IInv, FreshRoles
  <2>3. call[o].at \in {"checkName", "saveRole"} => call[o].role \in RoleIds
    BY JobData DEF IInv
  <2> QED  BY <1>3, <1>10, <2>1, <2>2, <2>3, NoRoleIsNoRow DEF JobOK
<1>12. JobsOK'
  BY <1>2, <1>11, IdleIsOK DEF JobsOK, JobOK
<1>13. FreshRoles'
  BY <1>2, IdleIsOK DEF IInv, FreshRoles
<1> QED  BY <1>4, <1>5, <1>6, <1>7, <1>9, <1>12, <1>13 DEF IInv

(* Wherever a call is past its start the catalog is there. *)
LEMMA BusyIsSeeded ==
    ASSUME IInv, NEW q \in Calls, call[q].at # "idle"
    PROVE  Seeded
BY IdleIsOK DEF IInv, Bootstrap

(* The creation of a role commits, or the unique index refuses its name.   *)
LEMMA InsertRoleKeepsIInv ==
    ASSUME IInv, NEW q \in Calls, InsertRole(q)
    PROVE  IInv'
<1> DEFINE job == call[q]
<1>1. /\ job.at = "insertRole" /\ job.role \in RoleIds /\ job.new \in RoleRow
      /\ job.role # SuperRole
  BY JobData DEF InsertRole, IInv, JobsOK, JobOK
<1>2. Seeded
  BY <1>1, BusyIsSeeded
<1>3. CASE NameFree(job.new.name, job.role)
  BY <1>1, <1>2, <1>3, RoleStoredKeepsIInv DEF InsertRole
<1>4. CASE ~NameFree(job.new.name, job.role)
  BY <1>4, EndKeepsIInv DEF InsertRole
<1> QED  BY <1>3, <1>4

(* A PATCH or DELETE of a role writes the columns it changed.              *)
LEMMA SaveRoleKeepsIInv ==
    ASSUME IInv, NEW q \in Calls, SaveRole(q)
    PROVE  IInv'
<1> DEFINE job == call[q]
           row == WrittenRole(roles[job.role], job.old, job.new)
<1>1. /\ job.at = "saveRole" /\ job.role \in RoleIds
      /\ job.old \in RoleRow /\ job.new \in RoleRow
  BY JobData DEF SaveRole, IInv
<1>2. /\ roles[job.role] # NoRole
      /\ job.role = SuperRole => job.old = SuperRow /\ job.new = SuperRow
  BY <1>1 DEF IInv, JobsOK, JobOK
<1>3. roles[job.role] \in RoleRow
  BY <1>1, <1>2 DEF IInv, TypeOK
<1>4. row \in RoleRow
  BY <1>1, <1>3 DEF WrittenRole, Column, RoleRow
<1>5. ASSUME job.role = SuperRole PROVE row = SuperRow
  <2>1. roles[job.role] = SuperRow
    BY <1>2, <1>5 DEF IInv, SuperAdminKept, SuperRow
  <2> QED  BY <1>2, <1>5, <2>1 DEF WrittenRole, Column, SuperRow
<1>6. Seeded
  BY <1>1, BusyIsSeeded
<1>7. CASE NameFree(row.name, job.role)
  <2>1. roles' = [roles EXCEPT ![job.role] = row]
    BY <1>7 DEF SaveRole
  <2>2. End(q) /\ UNCHANGED <<screens, grants, admins, assigned>>
    BY DEF SaveRole
  <2> HIDE DEF row
  <2> QED  BY <1>1, <1>2, <1>4, <1>5, <1>6, <1>7, <2>1, <2>2, RoleStoredKeepsIInv
<1>8. CASE ~NameFree(row.name, job.role)
  BY <1>8, EndKeepsIInv DEF SaveRole
<1> QED  BY <1>7, <1>8

(* A change of the screens and the grants that a call commits at its end   *)
(* keeps the invariant if the protected screens stay active and the others *)
(* are not lost.                                                           *)
LEMMA ScreensChangeKeepsIInv ==
    ASSUME IInv, Seeded, NEW q \in Calls, End(q),
           screens' \in [Codes -> Statuses \cup {Unset}],
           \A c \in Codes : screens[c] # Unset => screens'[c] # Unset,
           \A c \in Protected : screens'[c] = "active",
           grants' \in [RoleIds -> Grants], WriteImpliesRead', EveryScreenGranted',
           \A c \in DOMAIN grants'[SuperRole] : screens'[c] # Unset,
           UNCHANGED <<roles, admins, assigned>>
    PROVE  IInv'
<1>1. call \in [Calls -> Jobs]
  BY DEF IInv, TypeOK
<1>2. \A o \in Calls : call'[o] = IF o = q THEN Idle ELSE call[o]
  BY <1>1 DEF End
<1>3. TypeOK'
  BY <1>1, <1>2, IdleIsOK DEF IInv, TypeOK, End
<1>4. SuperAdminKept' /\ NamesUnique'
  BY DEF IInv, SuperAdminKept, NamesUnique
<1>5. Bootstrap'
  BY CatalogAssumption DEF IInv, Bootstrap, Seeded, Codes
<1>6. JobsOK'
  <2>1. ASSUME NEW o \in Calls, o # q PROVE JobOK(call[o])'
    BY <1>1, <1>2, <2>1, JobData DEF IInv, JobsOK, JobOK
  <2> QED  BY <1>2, <2>1, IdleIsOK DEF JobsOK, JobOK
<1>7. FreshRoles'
  BY <1>2, IdleIsOK DEF IInv, FreshRoles
<1> QED  BY <1>3, <1>4, <1>5, <1>6, <1>7 DEF IInv

(* A PATCH or DELETE of a screen writes the status if it changed it.       *)
LEMMA SaveScreenKeepsIInv ==
    ASSUME IInv, NEW q \in Calls, SaveScreen(q)
    PROVE  IInv'
<1> DEFINE job == call[q]
<1>1. /\ job.at = "saveScreen" /\ job.code \in Codes
      /\ job.old \in Statuses /\ job.new \in Statuses
      /\ screens[job.code] # Unset
      /\ job.code \in Protected => job.new = "active"
  BY JobData DEF SaveScreen, IInv, JobsOK, JobOK
<1>2. Seeded
  BY <1>1, BusyIsSeeded
<1>3. screens' = [screens EXCEPT ![job.code] = Column(@, job.old, job.new)]
  BY DEF SaveScreen
<1>4. screens \in [Codes -> Statuses \cup {Unset}]
  BY DEF IInv, TypeOK
<1>5. \A c \in Codes : screens'[c] = IF c = job.code
                          THEN Column(screens[c], job.old, job.new) ELSE screens[c]
  BY <1>3, <1>4
<1>6. \A c \in Protected : c \in Codes /\ screens[c] = "active"
  BY <1>2, CatalogIsCoded DEF IInv, Bootstrap
<1>7. Unset \notin Statuses
  BY DEF Statuses, Unset
<1>8. Column(screens[job.code], job.old, job.new) \in Statuses
  BY <1>1, <1>4 DEF Column
<1>9. screens' \in [Codes -> Statuses \cup {Unset}]
  BY <1>3, <1>4, <1>8
<1>10. \A c \in Codes : screens[c] # Unset <=> screens'[c] # Unset
  BY <1>1, <1>5, <1>7, <1>8
<1>11. \A c \in Protected : screens'[c] = "active"
  BY <1>1, <1>5, <1>6 DEF Column
<1>12. WriteImpliesRead' /\ EveryScreenGranted'
  BY <1>10 DEF SaveScreen, IInv, WriteImpliesRead, EveryScreenGranted
<1>13. grants' \in [RoleIds -> Grants]
  BY DEF SaveScreen, IInv, TypeOK
<1>14. \A c \in DOMAIN grants'[SuperRole] : screens'[c] # Unset
  BY <1>10, <1>13, GrantsAreFlags, RolesAssumption DEF SaveScreen, IInv, Bootstrap
<1> QED  BY <1>2, <1>9, <1>10, <1>11, <1>12, <1>13, <1>14, ScreensChangeKeepsIInv DEF SaveScreen

(* The creation of a screen commits with its grant to super_admin.         *)
LEMMA InsertScreenKeepsIInv ==
    ASSUME IInv, NEW q \in Calls, InsertScreen(q)
    PROVE  IInv'
<1> DEFINE job == call[q]
           fresh == [c \in {job.code} |-> [read |-> TRUE, write |-> TRUE]]
<1>1. job.at = "insertScreen" /\ job.code \in Codes /\ job.status \in Statuses
  BY JobData DEF InsertScreen, IInv
<1>2. Seeded
  BY <1>1, BusyIsSeeded
<1>3. CASE screens[job.code] # Unset
  BY <1>3, EndKeepsIInv DEF InsertScreen
<1>4. CASE screens[job.code] = Unset
  <2>1. /\ screens \in [Codes -> Statuses \cup {Unset}]
        /\ grants \in [RoleIds -> Grants]
        /\ SuperRole \in RoleIds
        /\ Unset \notin Statuses
    BY RolesAssumption DEF IInv, TypeOK, Statuses, Unset
  <2>2. fresh \in Grants /\ DOMAIN fresh = {job.code}
    BY <1>1, FlagsAreGrants DEF Access
  <2>3. /\ screens' = [screens EXCEPT ![job.code] = job.status]
        /\ grants' = [grants EXCEPT ![SuperRole] = Joined(@, fresh)]
        /\ End(q) /\ UNCHANGED <<roles, admins, assigned>>
    BY <1>4 DEF InsertScreen
  <2> DEFINE mine == Joined(grants[SuperRole], fresh)
  <2>4. grants[SuperRole] \in Grants
    BY <2>1
  <2> HIDE DEF fresh
  <2>5. /\ mine \in Grants
        /\ DOMAIN mine = DOMAIN grants[SuperRole] \cup DOMAIN fresh
        /\ \A c \in DOMAIN grants[SuperRole] : mine[c] = grants[SuperRole][c]
        /\ \A c \in DOMAIN fresh \ DOMAIN grants[SuperRole] : mine[c] = fresh[c]
    BY <2>2, <2>4, JoinedGrants
  <2> HIDE DEF mine
  <2>6. /\ grants' \in [RoleIds -> Grants]
        /\ grants'[SuperRole] = mine
        /\ \A r \in RoleIds : r # SuperRole => grants'[r] = grants[r]
    BY <2>1, <2>3, <2>5 DEF mine
  <2>7. /\ screens' \in [Codes -> Statuses \cup {Unset}]
        /\ screens'[job.code] = job.status
        /\ \A c \in Codes : c # job.code => screens'[c] = screens[c]
    BY <1>1, <2>1, <2>3
  <2>8. job.code \notin DOMAIN grants[SuperRole]
    BY <1>4 DEF IInv, Bootstrap
  <2>9. mine[job.code] = [read |-> TRUE, write |-> TRUE]
    BY <2>2, <2>5, <2>8 DEF fresh
  <2>10. \A c \in Catalog : screens[c] # Unset /\ c # job.code
    BY <1>2, <1>4 DEF IInv, Bootstrap
  <2>11. job.code \notin ReadOnly
    BY <2>10, CatalogAssumption
  <2>12. EveryScreenGranted'
    <3>1. mine[job.code].read /\ mine[job.code].write = (job.code \notin ReadOnly)
      <4>1. mine[job.code].read = TRUE /\ mine[job.code].write = TRUE
        BY <2>9
      <4>2. (job.code \notin ReadOnly) = TRUE
        BY <2>11
      <4> QED  BY <4>1, <4>2
    <3>2. ASSUME NEW c \in Codes, c # job.code, screens[c] # Unset
          PROVE  /\ c \in DOMAIN grants[SuperRole] /\ grants[SuperRole][c].read
                 /\ grants[SuperRole][c].write = (c \notin ReadOnly)
      BY <3>2 DEF IInv, EveryScreenGranted
    <3>3. ASSUME NEW c \in Codes, screens'[c] # Unset
          PROVE  /\ c \in DOMAIN mine /\ mine[c].read
                 /\ mine[c].write = (c \notin ReadOnly)
      <4>1. CASE c = job.code
        BY <2>2, <2>5, <3>1, <4>1
      <4>2. CASE c # job.code
        BY <2>5, <2>7, <3>2, <3>3, <4>2
      <4> QED  BY <4>1, <4>2
    <3> QED  BY <2>6, <3>3 DEF EveryScreenGranted
  <2>13. WriteImpliesRead'
    <3>1. \A c \in DOMAIN mine : mine[c].write => mine[c].read
      BY <2>1, <2>2, <2>5, <2>9 DEF IInv, WriteImpliesRead
    <3> QED  BY <2>6, <3>1 DEF IInv, WriteImpliesRead
  <2>14. \A c \in DOMAIN grants'[SuperRole] : screens'[c] # Unset
    <3>1. DOMAIN grants[SuperRole] \subseteq Codes
      BY <2>4, GrantsAreFlags
    <3> QED  BY <1>1, <2>1, <2>2, <2>5, <2>6, <2>7, <3>1 DEF IInv, Bootstrap
  <2>15. \A c \in Protected : screens'[c] = "active"
    BY <1>2, <2>7, <2>10, CatalogIsCoded DEF IInv, Bootstrap
  <2>16. \A c \in Codes : screens[c] # Unset => screens'[c] # Unset
    BY <1>1, <2>1, <2>7
  <2> QED  BY <1>2, <2>3, <2>6, <2>7, <2>12, <2>13, <2>14, <2>15, <2>16,
              ScreensChangeKeepsIInv
<1> QED  BY <1>3, <1>4

(* The grants of one role are replaced, and the waiters for its rows find  *)
(* them gone.                                                              *)
LEMMA CommitGrantsKeepsIInv ==
    ASSUME IInv, NEW q \in Calls, CommitGrants(q)
    PROVE  IInv'
<1> DEFINE job == call[q]
           r == job.role
           spared == DOMAIN grants[r] \ job.holds
           kept == [c \in spared |-> grants[r][c]]
           Rest(o) == IF call[o].at = "lockGrants" /\ call[o].role = r
                      THEN [call[o] EXCEPT !.rows = @ \ job.holds,
                                           !.waits = @ \ job.holds] ELSE call[o]
<1>1. /\ job.at = "insertGrants" /\ r \in RoleIds /\ job.holds \in SUBSET Codes
      /\ job.asked \in Grants /\ r # SuperRole
      /\ \A c \in DOMAIN job.asked : job.asked[c].write => job.asked[c].read
  BY JobData DEF CommitGrants, IInv, JobsOK, JobOK, Replacing, Replacements
<1>2. Seeded
  BY <1>1, BusyIsSeeded
<1>3. /\ grants \in [RoleIds -> Grants]
      /\ call \in [Calls -> Jobs]
      /\ SuperRole \in RoleIds
  BY RolesAssumption DEF IInv, TypeOK
<1>4. grants[r] \in Grants
  BY <1>1, <1>3
<1>5. kept \in Grants /\ DOMAIN kept = spared
  <2>1. spared \in SUBSET Codes /\ kept \in [spared -> Access]
    BY <1>4, GrantsAreFlags
  <2> QED  BY <2>1, FlagsAreGrants
<1>6. /\ grants' = [grants EXCEPT ![r] = Joined(job.asked, kept)]
      /\ call' = [o \in Calls |-> IF o = q THEN Idle ELSE Rest(o)]
      /\ UNCHANGED <<screens, roles, admins, assigned>>
  BY <1>4 DEF CommitGrants
<1> DEFINE mine == Joined(job.asked, kept)
<1> HIDE DEF kept
<1>7. /\ mine \in Grants
      /\ DOMAIN mine = DOMAIN job.asked \cup DOMAIN kept
      /\ \A c \in DOMAIN job.asked : mine[c] = job.asked[c]
      /\ \A c \in DOMAIN kept \ DOMAIN job.asked : mine[c] = kept[c]
  BY <1>1, <1>5, JoinedGrants
<1> HIDE DEF mine
<1>8. /\ grants' \in [RoleIds -> Grants]
      /\ grants'[r] = mine
      /\ \A o \in RoleIds : o # r => grants'[o] = grants[o]
  BY <1>1, <1>3, <1>6, <1>7 DEF mine
<1>9. WriteImpliesRead'
  <2>1. \A c \in DOMAIN mine : mine[c].write => mine[c].read
    BY <1>1, <1>5, <1>7 DEF IInv, WriteImpliesRead, kept
  <2> QED  BY <1>8, <2>1 DEF IInv, WriteImpliesRead
<1>10. grants'[SuperRole] = grants[SuperRole]
  BY <1>1, <1>3, <1>8
<1>11. EveryScreenGranted' /\ Bootstrap'
  BY <1>2, <1>6, <1>10 DEF IInv, EveryScreenGranted, Bootstrap, Seeded
<1>12. SuperAdminKept' /\ NamesUnique'
  BY <1>6 DEF IInv, SuperAdminKept, NamesUnique
<1>13. ASSUME NEW o \in Calls
       PROVE  /\ Rest(o) \in Jobs /\ JobOK(Rest(o))
              /\ Rest(o).at = call[o].at
              /\ call[o].at = "insertRole" => Rest(o).role = call[o].role
  <2>1. call[o] \in Jobs /\ JobOK(call[o])
    BY <1>3 DEF IInv, JobsOK
  <2>2. CASE call[o].at = "lockGrants" /\ call[o].role = r
    <3>1. call[o] \in Replacements
      BY <2>2, JobData DEF IInv, Replacing
    <3>2. Rest(o) = [call[o] EXCEPT !.rows = @ \ job.holds,
                                    !.waits = @ \ job.holds]
      BY <2>2
    <3>3. /\ Rest(o) \in Replacements
          /\ Rest(o).at = call[o].at /\ Rest(o).role = call[o].role
          /\ Rest(o).asked = call[o].asked
      BY <3>1, <3>2 DEF Replacements
    <3>4. Rest(o) \in Jobs
      BY <3>3 DEF Jobs, Replacements, Replacing
    <3> HIDE DEF Rest
    <3> QED  BY <2>1, <2>2, <3>3, <3>4 DEF JobOK
  <2>3. CASE ~(call[o].at = "lockGrants" /\ call[o].role = r)
    BY <2>1, <2>3
  <2> QED  BY <2>2, <2>3
<1>14. \A o \in Calls : call'[o] = IF o = q THEN Idle ELSE Rest(o)
  BY <1>6
<1> HIDE DEF Rest
<1>15. TypeOK'
  BY <1>6, <1>8, <1>13, <1>14, IdleIsOK DEF IInv, TypeOK
<1>16. JobsOK'
  <2>1. \A o \in Calls : JobOK(call'[o])
    BY <1>13, <1>14, IdleIsOK
  <2> QED  BY <1>6, <2>1 DEF JobsOK, JobOK
<1>17. FreshRoles'
  BY <1>13, <1>14, IdleIsOK DEF IInv, FreshRoles
<1> QED  BY <1>9, <1>11, <1>12, <1>15, <1>16, <1>17 DEF IInv

-----------------------------------------------------------------------------
(* A seed script keeps the invariant, whatever was seeded before, if it    *)
(* leaves some admin to be super_admin.                                    *)
LEMMA EnsureCatalogKeepsIInv ==
    ASSUME IInv, EnsureCatalog, UNCHANGED call, admins' \in SUBSET Admins,
           assigned' \in [Admins -> SUBSET RoleIds],
           admins' # {} => \E a \in admins' : SuperRole \in assigned'[a]
    PROVE  IInv'
<1> DEFINE flags == [c \in Catalog |-> [read |-> TRUE, write |-> c \notin ReadOnly]]
           mine == Joined(grants[SuperRole], flags)
<1>1. /\ screens \in [Codes -> Statuses \cup {Unset}]
      /\ roles \in [RoleIds -> RoleRow \cup {NoRole}]
      /\ grants \in [RoleIds -> Grants]
      /\ call \in [Calls -> Jobs]
      /\ SuperRole \in RoleIds
      /\ Unset \notin Statuses
  BY RolesAssumption DEF IInv, TypeOK, Statuses, Unset
<1>2. \A r \in RoleIds : roles'[r] = IF r = SuperRole /\ ~Seeded
                                    THEN SuperRow ELSE roles[r]
  BY <1>1 DEF EnsureCatalog, Seeded, SuperRow
<1>3. roles' \in [RoleIds -> RoleRow \cup {NoRole}]
  BY <1>1, SuperRowIsRow DEF EnsureCatalog, SuperRow
<1>4. Seeded'
  BY <1>1, <1>2, NoRoleIsNoRow DEF Seeded
<1>5. \A c \in Codes : screens'[c] = IF c \in Catalog /\ screens[c] = Unset
                                    THEN "active" ELSE screens[c]
  BY DEF EnsureCatalog
<1>6. screens' \in [Codes -> Statuses \cup {Unset}]
  BY <1>1 DEF EnsureCatalog, Statuses
<1>7. flags \in Grants /\ DOMAIN flags = Catalog
  <2>1. flags \in [Catalog -> Access]
    BY DEF Access
  <2> HIDE DEF flags
  <2> QED  BY <2>1, CatalogIsCoded, FlagsAreGrants
<1>8. \A c \in Catalog : flags[c].read = TRUE /\ flags[c].write = (c \notin ReadOnly)
  OBVIOUS
<1>9. /\ grants' = [grants EXCEPT ![SuperRole] = Joined(@, flags)]
      /\ grants[SuperRole] \in Grants
  BY <1>1 DEF EnsureCatalog
<1> HIDE DEF flags
<1>10. /\ mine \in Grants
       /\ DOMAIN mine = DOMAIN grants[SuperRole] \cup Catalog
       /\ \A c \in DOMAIN grants[SuperRole] : mine[c] = grants[SuperRole][c]
       /\ \A c \in Catalog \ DOMAIN grants[SuperRole] : mine[c] = flags[c]
  BY <1>7, <1>9, JoinedGrants
<1> HIDE DEF mine
<1>11. /\ grants' \in [RoleIds -> Grants]
       /\ grants'[SuperRole] = mine
       /\ \A r \in RoleIds : r # SuperRole => grants'[r] = grants[r]
  BY <1>1, <1>9, <1>10 DEF mine
<1>12. TypeOK'
  BY <1>1, <1>3, <1>6, <1>11 DEF TypeOK
<1>13. SuperAdminKept'
  BY <1>1, <1>2, NoRoleIsNoRow DEF IInv, SuperAdminKept, SuperRow, Seeded
<1>14. NamesUnique'
  <2>1. CASE Seeded
    BY <1>2, <2>1 DEF IInv, NamesUnique
  <2>2. CASE ~Seeded
    <3>1. \A r \in RoleIds : roles'[r] = IF r = SuperRole THEN SuperRow ELSE NoRole
      BY <1>2, <2>2 DEF IInv, Bootstrap
    <3>2. SuperRow.name # NoRole.name
      BY RolesAssumption DEF SuperRow, NoRole
    <3> QED  BY <3>1, <3>2 DEF NamesUnique
  <2> QED  BY <2>1, <2>2
<1>15. \A c \in DOMAIN grants[SuperRole] : c \in Codes /\ screens[c] # Unset
  BY <1>9, GrantsAreFlags DEF IInv, Bootstrap
<1>16. EveryScreenGranted'
  <2> SUFFICES ASSUME NEW c \in Codes, screens'[c] # Unset
               PROVE  /\ c \in DOMAIN mine /\ mine[c].read
                      /\ mine[c].write = (c \notin ReadOnly)
    BY <1>11 DEF EveryScreenGranted
  <2>1. CASE screens[c] # Unset
    BY <1>10, <2>1 DEF IInv, EveryScreenGranted
  <2>2. CASE screens[c] = Unset
    BY <1>5, <1>8, <1>10, <1>15, <2>2
  <2> QED  BY <2>1, <2>2
<1>17. WriteImpliesRead'
  <2>1. \A c \in DOMAIN mine : mine[c].write => mine[c].read
    BY <1>1, <1>8, <1>10 DEF IInv, WriteImpliesRead
  <2> QED  BY <1>11, <2>1 DEF IInv, WriteImpliesRead
<1>18. Bootstrap'
  <2>1. \A c \in Catalog : screens'[c] # Unset
    BY <1>1, <1>5, CatalogIsCoded DEF Unset
  <2>2. ASSUME NEW c \in Protected PROVE screens'[c] = "active"
    <3>1. c \in Codes /\ c \in Catalog
      BY CatalogIsCoded
    <3> QED  BY <1>5, <3>1 DEF IInv, Bootstrap
  <2>3. \A c \in DOMAIN grants'[SuperRole] : screens'[c] # Unset
    BY <1>5, <1>10, <1>11, <1>15, <2>1
  <2> QED  BY <1>4, <2>1, <2>2, <2>3 DEF Bootstrap
<1>19. JobsOK'
  <2>1. CASE Seeded
    <3>1. ASSUME NEW o \in Calls PROVE JobOK(call[o])'
      BY <1>2, <1>5, <2>1, <3>1, JobData DEF IInv, JobsOK, JobOK, Unset
    <3> QED  BY <3>1 DEF JobsOK, JobOK
  <2>2. CASE ~Seeded
    <3>1. \A o \in Calls : call'[o].at = "idle"
      BY <2>2, IdleIsOK DEF IInv, Bootstrap
    <3> QED  BY <3>1 DEF JobsOK, JobOK, Replacing
  <2> QED  BY <2>1, <2>2
<1>20. FreshRoles'
  BY DEF IInv, FreshRoles
<1> QED  BY <1>12, <1>13, <1>14, <1>16, <1>17, <1>18, <1>19, <1>20 DEF IInv

(* A change of who is which role keeps the invariant if it leaves some     *)
(* admin to be super_admin.                                                *)
LEMMA AssignmentKeepsIInv ==
    ASSUME IInv, UNCHANGED <<screens, roles, grants, call>>, admins' \in SUBSET Admins,
           assigned' \in [Admins -> SUBSET RoleIds], Seeded \/ admins' = {},
           admins' # {} => \E a \in admins' : SuperRole \in assigned'[a]
    PROVE  IInv'
<1>1. TypeOK'
  BY DEF IInv, TypeOK
<1>2. /\ SuperAdminKept' /\ NamesUnique' /\ WriteImpliesRead'
      /\ EveryScreenGranted' /\ FreshRoles'
  BY DEF IInv, SuperAdminKept, NamesUnique, WriteImpliesRead, EveryScreenGranted,
         FreshRoles
<1>3. Bootstrap'
  BY DEF IInv, Bootstrap, Seeded
<1>4. JobsOK'
  BY DEF IInv, JobsOK, JobOK
<1> QED  BY <1>1, <1>2, <1>3, <1>4 DEF IInv

(* The scripts and the operator leave a super_admin among the admins.      *)
LEMMA ScriptsKeepIInv ==
    ASSUME IInv, Scripts
    PROVE  IInv'
<1>1. /\ admins \subseteq Admins /\ assigned \in [Admins -> SUBSET RoleIds]
      /\ SuperRole \in RoleIds
  BY RolesAssumption DEF IInv, TypeOK
<1>2. ASSUME NEW a \in Admins, SeedAdmin(a) PROVE IInv'
  <2>1. assigned' = [assigned EXCEPT ![a] = @ \cup {SuperRole}] /\ a \in admins'
    BY <1>2 DEF SeedAdmin
  <2>2. assigned' \in [Admins -> SUBSET RoleIds] /\ SuperRole \in assigned'[a]
    BY <1>1, <2>1
  <2> QED  BY <1>1, <1>2, <2>1, <2>2, EnsureCatalogKeepsIInv DEF SeedAdmin
<1>3. CASE SeedRbac
  <2>1. assigned' \in [Admins -> SUBSET RoleIds]
    BY <1>1, <1>3 DEF SeedRbac
  <2>2. \A a \in admins : SuperRole \in assigned'[a]
    BY <1>1, <1>3 DEF SeedRbac
  <2> QED  BY <1>1, <1>3, <2>1, <2>2, EnsureCatalogKeepsIInv DEF SeedRbac
<1>4. CASE ResetAdmins
  BY <1>4, AssignmentKeepsIInv DEF ResetAdmins
<1>5. ASSUME NEW a \in Admins, NEW some \in SUBSET RoleIds, OperatorAssigns(a, some)
      PROVE  IInv'
  <2>1. Seeded
    BY <1>5 DEF OperatorAssigns, IInv, Bootstrap
  <2>2. assigned' \in [Admins -> SUBSET RoleIds]
    BY <1>1, <1>5 DEF OperatorAssigns
  <2> QED  BY <1>1, <1>5, <2>1, <2>2, AssignmentKeepsIInv DEF OperatorAssigns
<1> QED  BY <1>2, <1>3, <1>4, <1>5 DEF Scripts

-----------------------------------------------------------------------------
(* A creation takes an id no other call has.                               *)
LEMMA CreateRoleKeepsIInv ==
    ASSUME IInv, NEW q \in Calls, NEW r \in RoleIds, NEW row \in RoleRow,
           CreateRole(q, r, row)
    PROVE  IInv'
<1> DEFINE job == [at |-> "insertRole", role |-> r, new |-> row]
<1>1. job \in Jobs
  BY DEF Jobs
<1>2. Seeded /\ roles[r] = NoRole /\ Begin(q, RolesScreen, job)
  BY AuthorisedSeeded DEF CreateRole, Begin
<1>3. JobOK(job)
  BY <1>2 DEF JobOK, Seeded, Replacing
<1>4. \A o \in Calls : call[o].at = "insertRole" => call[o].role # job.role
  BY DEF CreateRole
<1> HIDE DEF job
<1> QED  BY <1>1, <1>2, <1>3, <1>4, BeginKeepsIInv

(* What a PATCH leaves of super_admin is what it was. *)
LEMMA UpdateRoleKeepsIInv ==
    ASSUME IInv, NEW q \in Calls, NEW r \in RoleIds,
           NEW payload \in [name : Names \cup {Unset}, status : Statuses \cup {Unset}],
           UpdateRole(q, r, payload)
    PROVE  IInv'
<1> DEFINE row == Patched(roles[r], payload)
           job == [at |-> IF payload.name = Unset THEN "saveRole" ELSE "checkName",
                   role |-> r, old |-> roles[r], new |-> row]
<1>1. roles[r] # NoRole /\ roles[r] \in RoleRow
  BY DEF UpdateRole, IInv, TypeOK
<1>2. row \in RoleRow
  BY <1>1 DEF Patched, Given, RoleRow
<1>3. ASSUME r = SuperRole PROVE roles[r] = SuperRow /\ row = SuperRow
  <2>1. roles[r] = SuperRow
    BY <1>1, <1>3 DEF IInv, SuperAdminKept, SuperRow
  <2>2. /\ payload.name \in {Unset, SUPER_ADMIN_ROLE_NAME}
        /\ payload.status \in {Unset, "active"}
    BY <2>1 DEF UpdateRole, SuperRow, Statuses
  <2> QED  BY <2>1, <2>2 DEF Patched, Given, SuperRow
<1>4. Begin(q, RolesScreen, job)
  BY DEF UpdateRole
<1> HIDE DEF row
<1>5. job \in Jobs /\ job.at # "insertRole"
  BY <1>1, <1>2 DEF Jobs
<1>6. JobOK(job)
  BY <1>1, <1>3 DEF JobOK, Replacing
<1> HIDE DEF job
<1> QED  BY <1>4, <1>5, <1>6, BeginKeepsIInv

(* super_admin cannot be deleted.                                          *)
LEMMA DeleteRoleKeepsIInv ==
    ASSUME IInv, NEW q \in Calls, NEW r \in RoleIds, DeleteRole(q, r)
    PROVE  IInv'
<1> DEFINE row == [roles[r] EXCEPT !.status = "inactive"]
           job == [at |-> "saveRole", role |-> r, old |-> roles[r], new |-> row]
<1>1. roles[r] # NoRole /\ roles[r] \in RoleRow /\ r # SuperRole
  BY DEF DeleteRole, IInv, TypeOK, SuperAdminKept
<1>2. row \in RoleRow
  BY <1>1 DEF RoleRow, Statuses
<1>3. Begin(q, RolesScreen, job)
  BY DEF DeleteRole
<1> HIDE DEF row
<1>4. job \in Jobs /\ job.at # "insertRole" /\ JobOK(job)
  BY <1>1, <1>2 DEF Jobs, JobOK, Replacing
<1> HIDE DEF job
<1> QED  BY <1>3, <1>4, BeginKeepsIInv

(* The grants of super_admin cannot be replaced, and the others are        *)
(* normalised before they are stored.                                      *)
LEMMA UpdateRoleGrantsKeepsIInv ==
    ASSUME IInv, NEW q \in Calls, NEW r \in RoleIds, NEW some \in SUBSET Asked,
           NEW items \in [some -> Items], UpdateRoleGrants(q, r, items)
    PROVE  IInv'
<1> DEFINE asked == [c \in DOMAIN items |-> Normalised(items[c])]
           job == [at |-> "deleteGrants", role |-> r, rows |-> {}, holds |-> {},
                   waits |-> {}, asked |-> asked]
<1>1. r # SuperRole
  BY DEF UpdateRoleGrants, IInv, SuperAdminKept
<1>2. \A c \in some : items[c] \in Access
  BY ItemsAssumption
<1>3. asked \in [some -> Access]
  BY <1>2 DEF Normalised, Access
<1>4. \A c \in DOMAIN asked : asked[c].write => asked[c].read
  BY DEF Normalised
<1>5. Begin(q, RolesScreen, job)
  BY DEF UpdateRoleGrants
<1> HIDE DEF asked
<1>6. asked \in Grants
  BY <1>3, ItemsAssumption, FlagsAreGrants
<1>7. job \in Jobs /\ job.at # "insertRole"
  BY <1>6 DEF Jobs
<1>8. JobOK(job)
  BY <1>1, <1>4 DEF JobOK
<1> HIDE DEF job
<1> QED  BY <1>5, <1>7, <1>8, BeginKeepsIInv

(* A protected screen is never asked to become inactive.                   *)
LEMMA ScreenCallKeepsIInv ==
    ASSUME IInv, NEW q \in Calls, ScreenCall(q)
    PROVE  IInv'
<1>1. ASSUME NEW c \in Codes, NEW s \in Statuses, CreateScreen(q, c, s) PROVE IInv'
  <2> DEFINE job == [at |-> "checkCode", code |-> c, status |-> s]
  <2>1. job \in Jobs /\ job.at # "insertRole" /\ JobOK(job)
    BY DEF Jobs, JobOK, Replacing
  <2>2. Begin(q, ScreensScreen, job)
    BY <1>1 DEF CreateScreen
  <2> HIDE DEF job
  <2> QED  BY <2>1, <2>2, BeginKeepsIInv
<1>2. ASSUME NEW s \in Statuses, CreateNextScreen(q, s) PROVE IInv'
  BY <1>1, <1>2 DEF CreateNextScreen
<1>3. ASSUME NEW c \in Codes, NEW s \in Statuses, screens[c] # Unset,
             c \in Protected => s = "active",
             Begin(q, ScreensScreen,
                   [at |-> "saveScreen", code |-> c, old |-> screens[c], new |-> s])
      PROVE  IInv'
  <2> DEFINE job == [at |-> "saveScreen", code |-> c, old |-> screens[c], new |-> s]
  <2>1. screens[c] \in Statuses
    BY <1>3 DEF IInv, TypeOK
  <2>2. job \in Jobs /\ job.at # "insertRole" /\ JobOK(job)
    BY <1>3, <2>1 DEF Jobs, JobOK, Replacing
  <2>3. Begin(q, ScreensScreen, job)
    BY <1>3
  <2> HIDE DEF job
  <2> QED  BY <2>2, <2>3, BeginKeepsIInv
<1>4. ASSUME NEW c \in Codes, NEW s \in Statuses, UpdateScreen(q, c, s) PROVE IInv'
  BY <1>3, <1>4 DEF UpdateScreen, Statuses
<1>5. ASSUME NEW c \in Codes, DeleteScreen(q, c) PROVE IInv'
  BY <1>3, <1>5 DEF DeleteScreen, Statuses
<1> QED  BY <1>1, <1>2, <1>4, <1>5 DEF ScreenCall

(* The checks of a name and of a code only read. *)
LEMMA ReadingKeepsIInv ==
    ASSUME IInv, NEW q \in Calls,
           CheckName(q) \/ CheckCode(q)
    PROVE  IInv'
<1> DEFINE At(where) == [call[q] EXCEPT !.at = where]
<1>1. call[q] \in Jobs /\ JobOK(call[q]) /\ call \in [Calls -> Jobs]
  BY DEF IInv, TypeOK, JobsOK
<1>2. Seeded
  BY BusyIsSeeded DEF CheckName, CheckCode
<1>3. CASE CheckName(q)
  <2>1. /\ At("saveRole") \in Jobs /\ At("saveRole").at = "saveRole"
        /\ JobOK(At("saveRole"))
    <3>1. call[q] \in [at : {"checkName", "saveRole"}, role : RoleIds,
                       old : RoleRow, new : RoleRow]
      BY <1>3, JobData DEF CheckName, IInv
    <3>2. At("saveRole") \in [at : {"checkName", "saveRole"}, role : RoleIds,
                              old : RoleRow, new : RoleRow]
      BY <3>1
    <3> QED  BY <1>1, <1>3, <3>1, <3>2 DEF Jobs, JobOK, CheckName, Replacing
  <2>2. CASE NameFree(call[q].new.name, call[q].role)
    <3>1. call' = [call EXCEPT ![q] = At("saveRole")]
      BY <1>1, <1>3, <2>2 DEF CheckName, Goto
    <3>2. UNCHANGED <<screens, roles, grants, admins, assigned>>
      BY <1>3 DEF CheckName
    <3> HIDE DEF At
    <3> QED  BY <1>2, <2>1, <3>1, <3>2, MoveKeepsIInv
  <2>3. CASE ~NameFree(call[q].new.name, call[q].role)
    BY <1>3, <2>3, EndKeepsIInv DEF CheckName
  <2> QED  BY <2>2, <2>3
<1>4. CASE CheckCode(q)
  <2>1. /\ At("insertScreen") \in Jobs /\ At("insertScreen").at = "insertScreen"
        /\ JobOK(At("insertScreen"))
    <3>1. call[q] \in [at : {"checkCode", "insertScreen"}, code : Codes,
                       status : Statuses]
      BY <1>4, JobData DEF CheckCode, IInv
    <3>2. At("insertScreen") \in [at : {"checkCode", "insertScreen"}, code : Codes,
                                  status : Statuses]
      BY <3>1
    <3> QED  BY <3>1, <3>2 DEF Jobs, JobOK, Replacing
  <2>2. CASE screens[call[q].code] = Unset
    <3>1. call' = [call EXCEPT ![q] = At("insertScreen")]
      BY <1>1, <1>4, <2>2 DEF CheckCode, Goto
    <3>2. UNCHANGED <<screens, roles, grants, admins, assigned>>
      BY <1>4 DEF CheckCode
    <3> HIDE DEF At
    <3> QED  BY <1>2, <2>1, <3>1, <3>2, MoveKeepsIInv
  <2>3. CASE screens[call[q].code] # Unset
    BY <1>4, <2>3, EndKeepsIInv DEF CheckCode
  <2> QED  BY <2>2, <2>3
<1> QED  BY <1>3, <1>4

(* So does a replacement on its way to its COMMIT. *)
LEMMA EarlyStepKeepsIInv ==
    ASSUME IInv, NEW q \in Calls, EarlyStep(q)
    PROVE  IInv'
<1>1. TypeOK /\ UNCHANGED <<screens, roles, grants, admins, assigned>>
  BY EarlySteps DEF IInv
<1>2. CASE End(q)
  BY <1>1, <1>2, EndKeepsIInv
<1>3. ASSUME NEW job \in Replacements, call[q] \in Replacements,
             job.role = call[q].role, job.asked = call[q].asked,
             call' = [call EXCEPT ![q] = job]
      PROVE  IInv'
  <2>1. call[q].at \in Replacing /\ job.at \in Replacing
    BY <1>3 DEF Replacements
  <2>2. job \in Jobs /\ job.at # "insertRole"
    BY <1>3, <2>1 DEF Jobs, Replacements, Replacing
  <2>3. JobOK(call[q])
    BY DEF IInv, JobsOK
  <2>4. JobOK(job)
    BY <1>3, <2>1, <2>3 DEF JobOK, Replacing
  <2>5. Seeded
    BY <2>1, BusyIsSeeded DEF Replacing
  <2> QED  BY <1>1, <1>3, <2>2, <2>4, <2>5, MoveKeepsIInv
<1> QED  BY <1>1, <1>2, <1>3, EarlySteps

(* Every step keeps the invariant.                                         *)
LEMMA NextKeepsIInv ==
    ASSUME IInv, [Next]_vars
    PROVE  IInv'
<1>1. CASE Scripts
  BY <1>1, ScriptsKeepIInv
<1>2. ASSUME NEW q \in Calls, RoleCall(q) PROVE IInv'
  BY <1>2, CreateRoleKeepsIInv, UpdateRoleKeepsIInv, DeleteRoleKeepsIInv,
     UpdateRoleGrantsKeepsIInv DEF RoleCall
<1>3. ASSUME NEW q \in Calls, ScreenCall(q) PROVE IInv'
  BY <1>3, ScreenCallKeepsIInv
<1>4. ASSUME NEW q \in Calls, Continue(q) PROVE IInv'
  BY <1>4, InsertRoleKeepsIInv, SaveRoleKeepsIInv, CommitGrantsKeepsIInv,
     InsertScreenKeepsIInv, SaveScreenKeepsIInv, ReadingKeepsIInv, EarlyStepKeepsIInv
     DEF Continue, EarlyStep
<1>5. ASSUME NEW q \in Calls, Abort(q) PROVE IInv'
  BY <1>5, EndKeepsIInv DEF Abort
<1>6. CASE UNCHANGED vars
  <2>1. /\ call' \in [Calls -> Jobs] /\ FreshRoles'
        /\ \A q \in Calls : JobOK(call'[q])
        /\ Seeded \/ \A q \in Calls : call'[q] = Idle
    BY <1>6 DEF vars, IInv, TypeOK, JobsOK, FreshRoles, Bootstrap
  <2> QED  BY <1>6, <2>1, CallsMoveKeepsIInv DEF vars
<1> QED  BY <1>1, <1>2, <1>3, <1>4, <1>5, <1>6 DEF Next, CallStep

(* The invariant holds in every reachable state.                           *)
LEMMA AlwaysIInv == Spec => []IInv
<1>1. Init => IInv
  BY InitIInv
<1>2. IInv /\ [Next]_vars => IInv'
  BY NextKeepsIInv
<1> QED  BY <1>1, <1>2, PTL DEF Spec

(* While there is an admin, some super_admin may repair the catalog. *)
LEMMA IInvKeepsManagement == IInv => ManagementNeverLost
<1> SUFFICES ASSUME IInv, admins # {}, NEW c \in Protected \ ReadOnly
             PROVE  Authorised(c)
  BY CatalogIsCoded DEF ManagementNeverLost
<1>1. PICK a \in admins : SuperRole \in assigned[a]
  BY DEF IInv, Bootstrap
<1>2. Seeded /\ c \in Codes /\ c \in Catalog
  BY CatalogIsCoded DEF IInv, Bootstrap
<1>3. roles[SuperRole].status = "active"
  BY <1>2 DEF IInv, SuperAdminKept, Seeded
<1>4. screens[c] = "active"
  BY <1>2 DEF IInv, Bootstrap
<1>5. c \in DOMAIN grants[SuperRole] /\ grants[SuperRole][c].write
  BY <1>2, <1>4 DEF IInv, EveryScreenGranted, Unset
<1> QED  BY <1>1, <1>2, <1>3, <1>4, <1>5 DEF Authorised, MayWrite

(* What a call writes back of an inactive row is not "active" unless it    *)
(* had read it inactive and was asked for active.                          *)
LEMMA StepRevivesKnowingly ==
    ASSUME IInv, [Next]_vars
    PROVE  RevivedKnowingly
<1> DEFINE RoleBack(r) == roles[r].status = "inactive" /\ roles'[r].status = "active"
           ScreenBack(c) == screens[c] = "inactive" /\ screens'[c] = "active"
<1>1. /\ roles \in [RoleIds -> RoleRow \cup {NoRole}]
      /\ screens \in [Codes -> Statuses \cup {Unset}]
  BY DEF IInv, TypeOK
<1>2. ASSUME NEW q \in Calls, SaveRole(q), NEW r \in RoleIds, RoleBack(r)
      PROVE  /\ call[q].at = "saveRole" /\ call[q].role = r
             /\ call[q].old.status = "inactive"
  <2> DEFINE row == WrittenRole(roles[call[q].role], call[q].old, call[q].new)
  <2>1. roles' # roles
    BY <1>2
  <2>2. roles' = [roles EXCEPT ![call[q].role] = row]
    BY <1>2, <2>1 DEF SaveRole
  <2>3. call[q].old \in RoleRow
    BY <1>2, JobData DEF SaveRole, IInv
  <2>4. row.status = Column(roles[call[q].role].status, call[q].old.status,
                            call[q].new.status)
    BY DEF WrittenRole
  <2> HIDE DEF row
  <2>5. call[q].role = r /\ row.status = "active"
    BY <1>1, <1>2, <2>2
  <2> QED  BY <1>2, <2>3, <2>4, <2>5 DEF SaveRole, Column, RoleRow, Statuses
<1>3. ASSUME NEW q \in Calls, SaveScreen(q), NEW c \in Codes, ScreenBack(c)
      PROVE  /\ call[q].at = "saveScreen" /\ call[q].code = c
             /\ call[q].old = "inactive"
  <2>1. call[q].code = c /\ call[q].old \in Statuses
    BY <1>1, <1>3, JobData DEF SaveScreen, IInv
  <2> QED  BY <1>1, <1>3, <2>1 DEF SaveScreen, Column, Statuses
<1>4. ASSUME Scripts PROVE /\ \A r \in RoleIds : ~RoleBack(r)
                           /\ \A c \in Codes : ~ScreenBack(c)
  <2>1. CASE EnsureCatalog
    BY <1>1, <2>1 DEF EnsureCatalog, NoRole, Unset
  <2>2. CASE UNCHANGED <<screens, roles>>
    BY <2>2
  <2> QED  BY <1>4, <2>1, <2>2 DEF Scripts, SeedAdmin, SeedRbac, ResetAdmins,
                                   OperatorAssigns
<1>5. ASSUME NEW q \in Calls, InsertRole(q), NEW r \in RoleIds PROVE ~RoleBack(r)
  <2>1. roles[call[q].role] = NoRole
    BY <1>5 DEF InsertRole, IInv, JobsOK, JobOK
  <2> QED  BY <1>1, <1>5, <2>1 DEF InsertRole, NoRole, Unset
<1>6. ASSUME NEW q \in Calls, InsertScreen(q), NEW c \in Codes PROVE ~ScreenBack(c)
  BY <1>1, <1>6 DEF InsertScreen, Unset
<1>7. ASSUME NEW q \in Calls, RoleCall(q) \/ ScreenCall(q)
      PROVE  UNCHANGED <<screens, roles>>
  <2>1. \/ UNCHANGED <<screens, roles>>
        \/ \E s \in Statuses : CreateNextScreen(q, s)
    BY <1>7 DEF RoleCall, ScreenCall, CreateRole, UpdateRole, DeleteRole,
                UpdateRoleGrants, CreateScreen, UpdateScreen, DeleteScreen, Begin
  <2> QED  BY <2>1 DEF CreateNextScreen, CreateScreen, Begin
<1>8. ASSUME NEW q \in Calls, Continue(q) \/ Abort(q),
             ~InsertRole(q), ~InsertScreen(q), ~SaveRole(q), ~SaveScreen(q)
      PROVE  UNCHANGED <<screens, roles>>
  BY <1>1, <1>8, EarlySteps DEF IInv, Continue, EarlyStep, Abort, CheckName,
                                CommitGrants, CheckCode
<1>9. ASSUME NEW q \in Calls, InsertRole(q) \/ SaveRole(q) PROVE UNCHANGED screens
  BY <1>9 DEF InsertRole, SaveRole
<1>10. ASSUME NEW q \in Calls, InsertScreen(q) \/ SaveScreen(q) PROVE UNCHANGED roles
  BY <1>10 DEF InsertScreen, SaveScreen
<1>11. CASE UNCHANGED vars
  BY <1>11 DEF vars, RevivedKnowingly
<1>12. CASE Scripts
  BY <1>4, <1>12 DEF RevivedKnowingly
<1>13. ASSUME NEW q \in Calls, CallStep(q) PROVE RevivedKnowingly
  <2>1. CASE UNCHANGED <<screens, roles>>
    BY <2>1 DEF RevivedKnowingly
  <2>2. CASE SaveRole(q)
    BY <1>2, <1>9, <2>2 DEF RevivedKnowingly
  <2>3. CASE SaveScreen(q)
    BY <1>3, <1>10, <2>3 DEF RevivedKnowingly
  <2>4. CASE InsertRole(q)
    BY <1>5, <1>9, <2>4 DEF RevivedKnowingly
  <2>5. CASE InsertScreen(q)
    BY <1>6, <1>10, <2>5 DEF RevivedKnowingly
  <2> QED  BY <1>7, <1>8, <1>13, <2>1, <2>2, <2>3, <2>4, <2>5 DEF CallStep
<1> QED  BY <1>11, <1>12, <1>13 DEF Next

-----------------------------------------------------------------------------
(* Every table and every call keeps its types (role_service.py,            *)
(* screen_service.py and the seed scripts).                                *)
THEOREM TypesCorrect == Spec => []TypeOK
<1>1. IInv => TypeOK
  BY DEF IInv
<1> QED  BY <1>1, AlwaysIInv, PTL

(* A role stored under a name that no other role has takes a free name of  *)
(* the table, or leaves the names alone.                                   *)
LEMMA RoleStoredIsTableStep ==
    ASSUME TypeOK, NEW id \in RoleIds, NEW row \in RoleRow,
           NameFree(row.name, id), roles' = [roles EXCEPT ![id] = row]
    PROVE  [RoleTable!Next]_[r \in RoleIds |-> roles[r].name]
<1> DEFINE key == [r \in RoleIds |-> roles[r].name]
<1>1. key' = [key EXCEPT ![id] = row.name]
  BY DEF TypeOK
<1>2. CASE roles[id].name = row.name
  BY <1>1, <1>2
<1>3. CASE roles[id].name # row.name
  <2>1. RoleTable!Take(id, row.name)
    BY <1>1, <1>3 DEF RoleTable!Take, RoleTable!Free, NameFree
  <2>2. row.name \in Names
    BY DEF RoleRow
  <2> QED  BY <2>1, <2>2 DEF RoleTable!Next
<1> QED  BY <1>2, <1>3

(* The seed script creates super_admin before there is any other role.     *)
LEMMA SeedIsTableStep ==
    ASSUME IInv, EnsureCatalog
    PROVE  [RoleTable!Next]_[r \in RoleIds |-> roles[r].name]
<1>1. TypeOK /\ SuperRole \in RoleIds /\ SuperRow \in RoleRow
  BY SuperRowIsRow, RolesAssumption DEF IInv
<1>2. CASE roles[SuperRole] = NoRole
  <2>1. \A r \in RoleIds : roles[r] = NoRole
    BY <1>2 DEF IInv, Bootstrap, Seeded
  <2>2. NameFree(SuperRow.name, SuperRole)
    BY <2>1, NoRoleIsNoRow, RolesAssumption
       DEF NameFree, NoRole, SuperRow, SUPER_ADMIN_ROLE_NAME, Unset
  <2>3. roles' = [roles EXCEPT ![SuperRole] = SuperRow]
    BY <1>1, <1>2 DEF EnsureCatalog, SuperRow, TypeOK
  <2> QED  BY <1>1, <2>2, <2>3, RoleStoredIsTableStep
<1>3. CASE roles[SuperRole] # NoRole
  BY <1>1, <1>3 DEF EnsureCatalog, TypeOK
<1> QED  BY <1>2, <1>3

(* Every step is a step of the table, or leaves the names alone. *)
LEMMA StepIsTableStep ==
    IInv /\ [Next]_vars => [RoleTable!Next]_[r \in RoleIds |-> roles[r].name]
<1> SUFFICES ASSUME IInv, [Next]_vars
             PROVE  [RoleTable!Next]_[r \in RoleIds |-> roles[r].name]
  OBVIOUS
<1>1. TypeOK
  BY DEF IInv
<1>2. ASSUME UNCHANGED roles
      PROVE  [RoleTable!Next]_[r \in RoleIds |-> roles[r].name]
  BY <1>2
<1>3. CASE Scripts
  <2>1. EnsureCatalog \/ UNCHANGED roles
    BY <1>3 DEF Scripts, SeedAdmin, SeedRbac, ResetAdmins, OperatorAssigns
  <2> QED  BY <1>2, <2>1, SeedIsTableStep
<1>4. ASSUME NEW q \in Calls, InsertRole(q)
      PROVE  [RoleTable!Next]_[r \in RoleIds |-> roles[r].name]
  <2>1. call[q].role \in RoleIds /\ call[q].new \in RoleRow
    BY <1>1, <1>4, JobData DEF InsertRole
  <2> QED  BY <1>1, <1>2, <1>4, <2>1, RoleStoredIsTableStep DEF InsertRole
<1>5. ASSUME NEW q \in Calls, SaveRole(q)
      PROVE  [RoleTable!Next]_[r \in RoleIds |-> roles[r].name]
  <2> DEFINE row == WrittenRole(roles[call[q].role], call[q].old, call[q].new)
  <2>1. call[q].role \in RoleIds /\ call[q].old \in RoleRow /\ call[q].new \in RoleRow
    BY <1>1, <1>5, JobData DEF SaveRole
  <2>2. roles[call[q].role] \in RoleRow
    BY <1>1, <1>5, <2>1 DEF IInv, JobsOK, JobOK, SaveRole, TypeOK
  <2>3. row \in RoleRow
    BY <2>1, <2>2 DEF WrittenRole, Column, RoleRow
  <2> QED  BY <1>1, <1>2, <1>5, <2>1, <2>3, RoleStoredIsTableStep DEF SaveRole
<1>6. ASSUME NEW q \in Calls, RoleCall(q) \/ ScreenCall(q) PROVE UNCHANGED roles
  BY <1>6 DEF RoleCall, ScreenCall, CreateRole, UpdateRole, DeleteRole,
              UpdateRoleGrants, CreateNextScreen, CreateScreen, UpdateScreen,
              DeleteScreen, Begin
<1>7. ASSUME NEW q \in Calls, Continue(q) \/ Abort(q), ~InsertRole(q), ~SaveRole(q)
      PROVE  UNCHANGED roles
  BY <1>1, <1>7, EarlySteps DEF Continue, EarlyStep, Abort, CheckName, CommitGrants,
                                CheckCode, InsertScreen, SaveScreen
<1>8. CASE UNCHANGED vars
  BY <1>2, <1>8 DEF vars
<1> QED  BY <1>2, <1>3, <1>4, <1>5, <1>6, <1>7, <1>8 DEF Next, CallStep

(* Whatever creations and renames race, a role takes a name only while it  *)
(* is free, and none is ever removed (InsertRole, SaveRole, the scripts).  *)
THEOREM RolesAreATable == Spec => ImplementsTable
<1>1. Init => RoleTable!Init
  BY DEF Init, NoRole, RoleTable!Init
<1>2. IInv /\ [Next]_vars => [RoleTable!Next]_[r \in RoleIds |-> roles[r].name]
  BY StepIsTableStep
<1> QED
  BY <1>1, <1>2, AlwaysIInv, PTL DEF Spec, ImplementsTable, RoleTable!Spec

(* So two roles never share a name. *)
THEOREM RoleNamesStayUnique == Spec => []NamesUnique
<1>1. IInv => NamesUnique
  BY DEF IInv
<1> QED  BY <1>1, AlwaysIInv, PTL

(* No rename, status change or deletion, however late its commit, takes    *)
(* super_admin away (UpdateRole, DeleteRole, SaveRole).                    *)
THEOREM SuperAdminIsKept == Spec => []SuperAdminKept
<1>1. IInv => SuperAdminKept
  BY DEF IInv
<1> QED  BY <1>1, AlwaysIInv, PTL

(* The API and the scripts always leave an admin who may manage roles and  *)
(* one who may manage screens (PROTECTED_SCREEN_CODES, update_role).       *)
THEOREM ManagementIsNeverLost == Spec => []ManagementNeverLost
BY AlwaysIInv, IInvKeepsManagement, PTL

(* A screen appears with its grant to super_admin and the grant stays      *)
(* (create_screen, ensure_catalog, replace_role_grants).                   *)
THEOREM ScreensAreGranted == Spec => []EveryScreenGranted
<1>1. IInv => EveryScreenGranted
  BY DEF IInv
<1> QED  BY <1>1, AlwaysIInv, PTL

(* Every stored grant that allows writing allows reading, of replacements  *)
(* that overlap too (replace_role_grants).                                 *)
THEOREM WritesImplyReads == Spec => []WriteImpliesRead
<1>1. IInv => WriteImpliesRead
  BY DEF IInv
<1> QED  BY <1>1, AlwaysIInv, PTL

(* No update in flight revives a role or a screen deleted meanwhile        *)
(* (update_role, update_screen and the ORM's write of changed columns).    *)
THEOREM NothingRevivedByAccident == Spec => RevivedOnlyKnowingly
<1>1. IInv /\ [Next]_vars => [RevivedKnowingly]_vars
  BY StepRevivesKnowingly
<1> QED  BY <1>1, AlwaysIInv, PTL DEF Spec, RevivedOnlyKnowingly

-----------------------------------------------------------------------------
(* At most one replacement of each role's grants is being served. *)
ReplacedInTurn ==
    \A p, q \in Calls :
       /\ call[p].at \in Replacing /\ call[q].at \in Replacing
       /\ call[p].role = call[q].role
       => p = q

(* A replacement deletes all the rows there are. *)
DeletesAll ==
    \A q \in Calls :
       /\ call[q].at = "lockGrants" =>
             DOMAIN grants[call[q].role] \subseteq call[q].rows \cup call[q].holds
       /\ call[q].at = "insertGrants" =>
             DOMAIN grants[call[q].role] \subseteq call[q].holds

(* While replacements of its grants do not overlap, only CommitGrants      *)
(* changes a role's grants, and to what was asked for.                     *)
LEMMA OneReplacement ==
    ASSUME IInv, DeletesAll, NEW q \in Calls, CommitGrants(q)
    PROVE  /\ call[q].role \in RoleIds
           /\ grants' = [grants EXCEPT ![call[q].role] = call[q].asked]
<1> DEFINE job == call[q]
           kept == [c \in {} |-> grants[job.role][c]]
<1>1. /\ job.at = "insertGrants" /\ job.role \in RoleIds /\ job.asked \in Grants
      /\ grants \in [RoleIds -> Grants]
      /\ DOMAIN grants[job.role] \ job.holds = {}
  BY JobData DEF CommitGrants, IInv, TypeOK, DeletesAll, Replacing, Replacements
<1>2. grants' = [grants EXCEPT ![job.role] = Joined(job.asked, [c \in {} |-> @[c]])]
  BY <1>1 DEF CommitGrants
<1>3. Joined(job.asked, kept) = job.asked
  <2>1. \E some \in SUBSET Codes : job.asked \in [some -> Access]
    BY <1>1 DEF Grants
  <2> QED  BY <2>1 DEF Joined
<1> QED  BY <1>1, <1>2, <1>3

(* No other step touches the grants of a role but super_admin's.           *)
LEMMA GrantsOfOthers ==
    ASSUME IInv, [Next]_vars, NEW r \in RoleIds \ {SuperRole}, grants'[r] # grants[r]
    PROVE  \E q \in Calls : CommitGrants(q)
<1>1. TypeOK /\ grants \in [RoleIds -> Grants]
  BY DEF IInv, TypeOK
<1>2. EnsureCatalog => grants'[r] = grants[r]
  BY <1>1 DEF EnsureCatalog
<1>3. \A q \in Calls : InsertScreen(q) => grants'[r] = grants[r]
  BY <1>1 DEF InsertScreen
<1>4. ~Scripts
  BY <1>2 DEF Scripts, SeedAdmin, SeedRbac, ResetAdmins, OperatorAssigns
<1>5. PICK q \in Calls : CallStep(q)
  BY <1>4 DEF Next, vars
<1>6. ~(RoleCall(q) \/ ScreenCall(q) \/ Abort(q))
  BY DEF RoleCall, CreateRole, UpdateRole, DeleteRole, UpdateRoleGrants, ScreenCall,
         CreateNextScreen, CreateScreen, UpdateScreen, DeleteScreen, Begin, Abort
<1>7. ~EarlyStep(q)
  BY <1>1, EarlySteps
<1>8. CommitGrants(q)
  BY <1>3, <1>5, <1>6, <1>7 DEF CallStep, Continue, EarlyStep, InsertRole, CheckName,
       SaveRole, CheckCode, SaveScreen
<1> QED  BY <1>8

(* What can bring a slot to its deletion or insertion, or leave it there,  *)
(* but a COMMIT.                                                           *)
LEMMA StillReplacing ==
    ASSUME IInv, [Next]_vars, \A p \in Calls : ~CommitGrants(p), NEW q \in Calls,
           call'[q].at \in {"lockGrants", "insertGrants"}
    PROVE  call'[q] = call[q] \/ EarlyStep(q)
<1>1. TypeOK /\ call \in [Calls -> Jobs] /\ Idle.at = "idle"
  BY DEF IInv, TypeOK, Idle
<1>2. ASSUME NEW p \in Calls, CallStep(p), p # q PROVE call'[q] = call[q]
  <2>1. CASE EarlyStep(p)
    BY <1>1, <1>2, <2>1, EarlySteps DEF End
  <2>2. CASE ~EarlyStep(p)
    BY <1>1, <1>2, <2>2
       DEF CallStep, RoleCall, CreateRole, UpdateRole, DeleteRole, UpdateRoleGrants,
           ScreenCall, CreateNextScreen, CreateScreen, UpdateScreen, DeleteScreen,
           Begin, Continue, EarlyStep, InsertRole, CheckName, SaveRole, CheckCode,
           InsertScreen, SaveScreen, Abort, End, Goto
  <2> QED  BY <2>1, <2>2
<1>3. ~(RoleCall(q) \/ ScreenCall(q))
  BY <1>1 DEF RoleCall, CreateRole, UpdateRole, DeleteRole, UpdateRoleGrants,
     ScreenCall, CreateNextScreen, CreateScreen, UpdateScreen, DeleteScreen, Begin
<1>4. ~(InsertRole(q) \/ SaveRole(q) \/ InsertScreen(q) \/ SaveScreen(q) \/ Abort(q))
  BY <1>1 DEF InsertRole, SaveRole, InsertScreen, SaveScreen, Abort, End
<1>5. ~(CheckName(q) \/ CheckCode(q))
  <2>1. CheckName(q) =>
          call[q] \in [at : {"checkName", "saveRole"}, role : RoleIds, old : RoleRow,
                       new : RoleRow]
    BY JobData DEF CheckName, IInv
  <2>2. CheckCode(q) =>
          call[q] \in [at : {"checkCode", "insertScreen"}, code : Codes,
                       status : Statuses]
    BY JobData DEF CheckCode, IInv
  <2> QED  BY <1>1, <2>1, <2>2 DEF CheckName, CheckCode, End, Goto
<1>6. Scripts => UNCHANGED call
  BY DEF Scripts, SeedAdmin, SeedRbac, ResetAdmins, OperatorAssigns
<1> QED
  BY <1>2, <1>3, <1>4, <1>5, <1>6 DEF Next, CallStep, Continue, EarlyStep, vars

(* A replacement that goes on has deleted, or will delete, every row.      *)
LEMMA EarlyStepDeletesAll ==
    ASSUME IInv, DeletesAll, NEW q \in Calls, EarlyStep(q)
    PROVE  /\ call'[q].at = "lockGrants" =>
                DOMAIN grants[call'[q].role] \subseteq call'[q].rows \cup call'[q].holds
           /\ call'[q].at = "insertGrants" =>
                DOMAIN grants[call'[q].role] \subseteq call'[q].holds
<1>1. TypeOK /\ call \in [Calls -> Jobs] /\ Idle.at = "idle"
  BY DEF IInv, TypeOK, Idle
<1>2. CASE End(q)
  BY <1>1, <1>2 DEF End
<1>3. CASE DeleteGrants(q)
  <2>1. call[q] \in Replacements
    BY <1>1, <1>3, JobData DEF DeleteGrants, Replacing
  <2> QED  BY <1>1, <1>3, <2>1 DEF DeleteGrants, Replacements
<1>4. CASE GrantsDeleted(q)
  <2>1. call[q] \in Replacements
    BY <1>1, <1>4, JobData DEF GrantsDeleted, Replacing
  <2> QED  BY <1>1, <1>4, <2>1 DEF GrantsDeleted, Replacements, DeletesAll
<1>5. ASSUME NEW c \in Codes, AwaitRow(q, c) \/ LockGrant(q, c) \/ InsertGrant(q, c),
             ~End(q)
      PROVE  /\ call'[q].at = call[q].at /\ call'[q].role = call[q].role
             /\ call[q].holds \subseteq call'[q].holds
             /\ call[q].rows \cup call[q].holds
                   \subseteq call'[q].rows \cup call'[q].holds
             /\ call[q].at \in {"lockGrants", "insertGrants"}
  <2>1. call[q].at \in {"lockGrants", "insertGrants"}
    BY <1>5 DEF AwaitRow, LockGrant, InsertGrant
  <2>2. call[q] \in Replacements
    BY <1>1, <2>1, JobData DEF Replacing
  <2>3. CASE AwaitRow(q, c)
    BY <1>1, <2>1, <2>2, <2>3 DEF AwaitRow, Replacements
  <2>4. CASE TakeRow(q, c)
    BY <1>1, <2>1, <2>2, <2>4 DEF TakeRow, Replacements
  <2> QED  BY <1>5, <2>3, <2>4 DEF LockGrant, InsertGrant, RolledBack
<1>6. ASSUME NEW c \in Codes, AwaitRow(q, c) \/ LockGrant(q, c) \/ InsertGrant(q, c),
             ~End(q)
      PROVE  /\ call'[q].at = "lockGrants" =>
                  DOMAIN grants[call'[q].role]
                     \subseteq call'[q].rows \cup call'[q].holds
             /\ call'[q].at = "insertGrants" =>
                  DOMAIN grants[call'[q].role] \subseteq call'[q].holds
  BY <1>5, <1>6 DEF DeletesAll
<1> QED  BY <1>2, <1>3, <1>4, <1>6 DEF EarlyStep, DeadlockVictim, RolledBack

LEMMA NextKeepsDeletesAll ==
    IInv /\ DeletesAll /\ ReplacedInTurn /\ [Next]_vars => DeletesAll'
<1> DEFINE All(job, table) ==
              /\ job.at = "lockGrants" =>
                   DOMAIN table[job.role] \subseteq job.rows \cup job.holds
              /\ job.at = "insertGrants" => DOMAIN table[job.role] \subseteq job.holds
<1> SUFFICES ASSUME IInv, DeletesAll, ReplacedInTurn, [Next]_vars, NEW q \in Calls,
                    call'[q].at \in {"lockGrants", "insertGrants"}
             PROVE  All(call'[q], grants')
  BY DEF DeletesAll
<1>1. call \in [Calls -> Jobs] /\ Idle.at = "idle"
  BY DEF IInv, TypeOK, Idle
<1>2. call'[q].role \in RoleIds \ {SuperRole}
  <2>1. IInv'
    BY NextKeepsIInv
  <2>2. call'[q] \in Jobs /\ JobOK(call[q])'
    BY <2>1 DEF IInv, JobsOK, TypeOK
  <2>3. call'[q].role \in RoleIds
    BY <2>2, <1>1 DEF Jobs
  <2> QED  BY <2>2, <2>3 DEF JobOK, Replacing
<1>3. ASSUME NEW p \in Calls, CommitGrants(p) PROVE All(call'[q], grants')
  <2>1. q # p
    BY <1>1, <1>3 DEF CommitGrants
  <2>2. call'[q].at = call[q].at
    <3>1. ASSUME call[q].at = "lockGrants"
          PROVE  \A x, y : [call[q] EXCEPT !.rows = x, !.waits = y].at = call[q].at
      BY <3>1, JobData DEF IInv, Replacing, Replacements
    <3> QED  BY <1>3, <2>1, <3>1 DEF CommitGrants
  <2>3. call[p].role # call[q].role
    BY <1>3, <2>1, <2>2 DEF ReplacedInTurn, Replacing, CommitGrants
  <2>4. call'[q] = call[q]
    BY <1>1, <1>3, <2>1, <2>3 DEF CommitGrants
  <2>5. grants'[call[q].role] = grants[call[q].role]
    BY <1>2, <1>3, <2>3, <2>4, OneReplacement DEF IInv, TypeOK
  <2> QED  BY <2>4, <2>5 DEF DeletesAll
<1>4. CASE \A p \in Calls : ~CommitGrants(p)
  <2>1. grants'[call'[q].role] = grants[call'[q].role]
    BY <1>2, <1>4, GrantsOfOthers
  <2>2. CASE call'[q] = call[q]
    BY <2>1, <2>2 DEF DeletesAll
  <2>3. CASE EarlyStep(q)
    BY <2>1, <2>3, EarlyStepDeletesAll
  <2> QED  BY <1>4, <2>2, <2>3, StillReplacing
<1> QED  BY <1>3, <1>4

(* As long as the replacements of one role's grants do not overlap, its    *)
(* grants change only to the whole set that a request asked for, whatever  *)
(* else runs or is cut short (replace_role_grants, "in one commit").       *)
THEOREM GrantsAreReplacedWhole == Spec /\ []ReplacedInTurn => GrantsReplacedWhole
<1>1. Init => DeletesAll
  BY DEF Init, DeletesAll, Idle
<1>2. ASSUME IInv, DeletesAll, [Next]_vars,
             NEW r \in RoleIds \ {SuperRole}, grants'[r] # grants[r]
      PROVE  \E q \in Calls : /\ call[q].at = "insertGrants" /\ call[q].role = r
                              /\ call[q].asked = grants'[r]
  <2>1. PICK q \in Calls : CommitGrants(q)
    BY <1>2, GrantsOfOthers
  <2>2. /\ call[q].role \in RoleIds
        /\ grants' = [grants EXCEPT ![call[q].role] = call[q].asked]
    BY <1>2, <2>1, OneReplacement
  <2>3. call[q].role = r /\ grants'[r] = call[q].asked
    BY <1>2, <2>2 DEF IInv, TypeOK
  <2> QED  BY <2>1, <2>3 DEF CommitGrants
<1>3. IInv /\ DeletesAll /\ [Next]_vars =>
        [ \A r \in RoleIds \ {SuperRole} :
            grants'[r] # grants[r] =>
               \E q \in Calls : /\ call[q].at = "insertGrants"
                                /\ call[q].role = r
                                /\ call[q].asked = grants'[r] ]_vars
  BY <1>2
<1>4. IInv /\ DeletesAll /\ ReplacedInTurn /\ [Next]_vars => DeletesAll'
  BY NextKeepsDeletesAll
<1> QED
  BY <1>1, <1>3, <1>4, AlwaysIInv, PTL DEF Spec, GrantsReplacedWhole
=============================================================================
