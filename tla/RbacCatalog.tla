----------------------------- MODULE RbacCatalog -----------------------------
(***************************************************************************)
(* Roles, screens and the grants between them: role_service.py,            *)
(* screen_service.py, rbac_service.py, their repositories, the permission  *)
(* check of api/deps.py and the seed scripts that fill the catalog.        *)
(*                                                                         *)
(* A call is served in a task and a database session of its own; it is     *)
(* checked for its permission, reads, and later commits.  Each await that  *)
(* another call can slip into ends a step here.  The database runs at READ *)
(* COMMITTED: a statement sees what was committed when it started.  A      *)
(* DELETE takes its rows one by one: it waits for one that another         *)
(* transaction has deleted and skips it once that one commits; an INSERT   *)
(* waits for a key that another has deleted or inserted.                   *)
(*                                                                         *)
(* The screen "S<n>" is the number n; 0 is a code of any other form.       *)
(***************************************************************************)
EXTENDS Integers, FiniteSets, FiniteSetsExt, Orm

CONSTANTS
    Calls,          \* slots in which calls are served; reused
    Admins,         \* platform admins that may be seeded
    RoleIds,        \* ids of roles, SuperRole among them
    SuperRole,      \* the id the seed script gives to super_admin
    Names,          \* names of roles, SUPER_ADMIN_ROLE_NAME among them
    MaxCode,        \* bound: screens S1 .. S<MaxCode>
    Items,          \* bound: the flags that items of a PUT may carry
    Asked,          \* bound: the screens that items of a PUT may name
    Catalog,        \* the screens seeded: SCREENS of seed_rbac.py
    ReadOnly,       \* those seeded without write
    Protected,      \* PROTECTED_SCREEN_CODES
    RolesScreen,    \* the screen whose write permission role calls need
    ScreensScreen   \* the one that screen calls need

SUPER_ADMIN_ROLE_NAME == "super_admin"

ASSUME CatalogAssumption ==
    /\ MaxCode \in Nat
    /\ Catalog \subseteq 1..MaxCode
    /\ Protected \subseteq Catalog
    /\ ReadOnly \subseteq Catalog
    /\ {RolesScreen, ScreensScreen} \subseteq Protected \ ReadOnly

ASSUME RolesAssumption ==
    /\ SuperRole \in RoleIds
    /\ SUPER_ADMIN_ROLE_NAME \in Names
    /\ Unset \notin Names

Codes == 0..MaxCode

RoleRow == [name : Names, status : Statuses]
NoRole == [name |-> Unset, status |-> Unset]

(* The flags of a row of role_screens, or of an item of a request. *)
Access == [read : BOOLEAN, write : BOOLEAN]
Grants == UNION {[some -> Access] : some \in SUBSET Codes}
NoGrants == [c \in {} |-> [read |-> FALSE, write |-> FALSE]]

ASSUME ItemsAssumption == Items \subseteq Access /\ Asked \subseteq Codes

VARIABLES
    screens,    \* screens[c]: status of screen c, or Unset
    roles,      \* roles[r]: the row of role r, or NoRole
    grants,     \* grants[r]: the rows of role_screens of role r, by screen
    admins,     \* the rows of platform_admins
    assigned,   \* assigned[a]: the rows of platform_admin_roles of admin a
    call        \* call[q]: what slot q is serving and how far it is

vars == <<screens, roles, grants, admins, assigned, call>>

Idle == [at |-> "idle"]

-----------------------------------------------------------------------------
(* rbac_service.permissions_for_admin: the active grants of active roles   *)
(* that allow writing.  Reading is asked for by routes that change nothing.*)
MayWrite(a) ==
    {c \in Codes : screens[c] = "active"
                   /\ \E r \in assigned[a] : /\ roles[r].status = "active"
                                             /\ c \in DOMAIN grants[r]
                                             /\ grants[r][c].write}

(* require_permission, for a call of any admin. *)
Authorised(c) == \E a \in admins : c \in MayWrite(a)

NameFree(name, r) == \A o \in RoleIds \ {r} : roles[o].name # name

(* next_screen_code: one past the largest number, inactive screens counted. *)
NextCode == Max({0} \cup {c \in Codes : screens[c] # Unset}) + 1

(* Defect: the flags are stored as they were sent. *)
NotNormalised(item) == item

(* The rows of first, and those of more for which first has none. *)
Joined(first, more) ==
    [c \in DOMAIN first \cup DOMAIN more |->
        IF c \in DOMAIN first THEN first[c] ELSE more[c]]

(* A write needs a read; an item says so in either way. *)
Normalised(item) == [read |-> item.read \/ item.write, write |-> item.write]

(* A PATCH sets the fields it was given. *)
Patched(row, payload) ==
    [name   |-> Given(payload.name, row.name),
     status |-> Given(payload.status, row.status)]

WrittenRole(stored, read, value) ==
    [name   |-> Column(stored.name, read.name, value.name),
     status |-> Column(stored.status, read.status, value.status)]

-----------------------------------------------------------------------------
Init ==
    /\ screens = [c \in Codes |-> Unset]
    /\ roles = [r \in RoleIds |-> NoRole]
    /\ grants = [r \in RoleIds |-> NoGrants]
    /\ admins = {}
    /\ assigned = [a \in Admins |-> {}]
    /\ call = [q \in Calls |-> Idle]

(* ensure_catalog creates what is missing and touches nothing else. *)
EnsureCatalog ==
    /\ roles' = [roles EXCEPT ![SuperRole] =
                   IF @ = NoRole
                   THEN [name |-> SUPER_ADMIN_ROLE_NAME, status |-> "active"]
                   ELSE @]
    /\ screens' = [c \in Codes |-> IF c \in Catalog /\ screens[c] = Unset
                                   THEN "active" ELSE screens[c]]
    /\ grants' = [grants EXCEPT ![SuperRole] =
                    Joined(@, [c \in Catalog |-> [read |-> TRUE,
                                                  write |-> c \notin ReadOnly]])]

(* Each script is one transaction. *)
SeedAdmin(a) ==
    /\ EnsureCatalog
    /\ admins' = admins \cup {a}
    /\ assigned' = [assigned EXCEPT ![a] = @ \cup {SuperRole}]
    /\ UNCHANGED call

SeedRbac ==
    /\ EnsureCatalog
    /\ assigned' = [a \in Admins |-> IF a \in admins
                                     THEN assigned[a] \cup {SuperRole}
                                     ELSE assigned[a]]
    /\ UNCHANGED <<admins, call>>

ResetAdmins ==
    /\ admins' = {}
    /\ assigned' = [a \in Admins |-> {}]
    /\ UNCHANGED <<screens, roles, grants, call>>

(* No route assigns roles: an operator does, and leaves some admin to be   *)
(* super_admin.                                                            *)
OperatorAssigns(a, some) ==
    /\ a \in admins
    /\ some \subseteq {r \in RoleIds : roles[r] # NoRole}
    /\ assigned' = [assigned EXCEPT ![a] = some]
    /\ \E b \in admins : SuperRole \in assigned'[b]
    /\ UNCHANGED <<screens, roles, grants, admins, call>>

-----------------------------------------------------------------------------
(* Slot q takes up a call that needs to write screen c. *)
Begin(q, c, job) ==
    /\ call[q] = Idle
    /\ Authorised(c)
    /\ call' = [call EXCEPT ![q] = job]
    /\ UNCHANGED <<screens, roles, grants, admins, assigned>>

Goto(q, next) == call' = [call EXCEPT ![q].at = next]
End(q) == call' = [call EXCEPT ![q] = Idle]

(* POST /roles, the name found free; r is a fresh uuid. *)
CreateRole(q, r, row) ==
    /\ NameFree(row.name, r)
    /\ roles[r] = NoRole
    /\ \A o \in Calls : call[o].at = "insertRole" => call[o].role # r
    /\ Begin(q, RolesScreen, [at |-> "insertRole", role |-> r, new |-> row])

(* Defect: super_admin is not protected from a change of status. *)
UpdateRoleByName(q, r, payload) ==
    /\ roles[r] # NoRole
    /\ roles[r].name = SUPER_ADMIN_ROLE_NAME =>
          payload.name \in {Unset, SUPER_ADMIN_ROLE_NAME}
    /\ Begin(q, RolesScreen,
             [at |-> IF payload.name = Unset THEN "saveRole" ELSE "checkName",
              role |-> r, old |-> roles[r], new |-> Patched(roles[r], payload)])

(* PATCH /roles/{id} *)
UpdateRole(q, r, payload) ==
    /\ roles[r] # NoRole
    /\ roles[r].name = SUPER_ADMIN_ROLE_NAME =>
          /\ payload.name \in {Unset, SUPER_ADMIN_ROLE_NAME}
          /\ payload.status # "inactive"
    /\ Begin(q, RolesScreen,
             [at |-> IF payload.name = Unset THEN "saveRole" ELSE "checkName",
              role |-> r, old |-> roles[r], new |-> Patched(roles[r], payload)])

(* DELETE /roles/{id} *)
DeleteRole(q, r) ==
    /\ roles[r] # NoRole
    /\ roles[r].name # SUPER_ADMIN_ROLE_NAME
    /\ Begin(q, RolesScreen,
             [at |-> "saveRole", role |-> r, old |-> roles[r],
              new |-> [roles[r] EXCEPT !.status = "inactive"]])

(* PUT /roles/{id}/grants, its screens found active. *)
UpdateRoleGrants(q, r, items) ==
    /\ roles[r] # NoRole
    /\ roles[r].name # SUPER_ADMIN_ROLE_NAME
    /\ \A c \in DOMAIN items : screens[c] = "active"
    /\ Begin(q, RolesScreen,
             [at |-> "deleteGrants", role |-> r, rows |-> {}, holds |-> {}, waits |-> {},
              asked |-> [c \in DOMAIN items |-> Normalised(items[c])]])

(* POST /screens, with a code or without; the new screen's status is s. *)
CreateScreen(q, c, s) ==
    Begin(q, ScreensScreen, [at |-> "checkCode", code |-> c, status |-> s])

CreateNextScreen(q, s) ==
    /\ NextCode \in Codes
    /\ CreateScreen(q, NextCode, s)

(* PATCH /screens/{id} with a status; its other fields are not modelled. *)
UpdateScreen(q, c, s) ==
    /\ screens[c] # Unset
    /\ ~(c \in Protected /\ s = "inactive")
    /\ Begin(q, ScreensScreen,
             [at |-> "saveScreen", code |-> c, old |-> screens[c], new |-> s])

(* Defect: a protected screen can be deleted. *)
DeleteAnyScreen(q, c) ==
    /\ screens[c] # Unset
    /\ Begin(q, ScreensScreen,
             [at |-> "saveScreen", code |-> c, old |-> screens[c],
              new |-> "inactive"])

(* DELETE /screens/{id} *)
DeleteScreen(q, c) ==
    /\ screens[c] # Unset
    /\ c \notin Protected
    /\ Begin(q, ScreensScreen,
             [at |-> "saveScreen", code |-> c, old |-> screens[c],
              new |-> "inactive"])

-----------------------------------------------------------------------------
(* Defect: the name is checked before the insertion only. *)
InsertRoleUnchecked(q) ==
    /\ call[q].at = "insertRole"
    /\ roles' = [roles EXCEPT ![call[q].role] = call[q].new]
    /\ End(q)
    /\ UNCHANGED <<screens, grants, admins, assigned>>

(* The unique index on the name refuses what the check let through. *)
InsertRole(q) ==
    LET job == call[q]
    IN  /\ job.at = "insertRole"
        /\ roles' = IF NameFree(job.new.name, job.role)
                    THEN [roles EXCEPT ![job.role] = job.new] ELSE roles
        /\ End(q)
        /\ UNCHANGED <<screens, grants, admins, assigned>>

CheckName(q) ==
    /\ call[q].at = "checkName"
    /\ IF NameFree(call[q].new.name, call[q].role) THEN Goto(q, "saveRole")
       ELSE End(q)
    /\ UNCHANGED <<screens, roles, grants, admins, assigned>>

SaveRole(q) ==
    LET job == call[q]
        row == WrittenRole(roles[job.role], job.old, job.new)
    IN  /\ job.at = "saveRole"
        /\ roles' = IF NameFree(row.name, job.role)
                    THEN [roles EXCEPT ![job.role] = row] ELSE roles
        /\ End(q)
        /\ UNCHANGED <<screens, grants, admins, assigned>>

(* replace_role_grants.  The DELETE finds the rows committed by now.       *)
DeleteGrants(q) ==
    /\ call[q].at = "deleteGrants"
    /\ call' = [call EXCEPT ![q].at = "lockGrants",
                            ![q].rows = DOMAIN grants[call[q].role]]
    /\ UNCHANGED <<screens, roles, grants, admins, assigned>>

(* Transaction o has deleted row c of role r, or inserted its key.         *)
Holds(o, r, c) ==
    /\ call[o].at \in {"lockGrants", "insertGrants"}
    /\ call[o].role = r
    /\ c \in call[o].holds

Blocked(q, c) == \E o \in Calls \ {q} : Holds(o, call[q].role, c)

(* The statement of q has come to row c, in whatever order it goes through *)
(* its rows; once it waits for a row it goes on with that one.             *)
ComesTo(q, c) == c \in call[q].rows /\ call[q].waits \subseteq {c}

AwaitRow(q, c) ==
    /\ call[q].at \in {"lockGrants", "insertGrants"}
    /\ ComesTo(q, c) /\ Blocked(q, c)
    /\ call[q].waits = {}
    /\ call' = [call EXCEPT ![q].waits = {c}]
    /\ UNCHANGED <<screens, roles, grants, admins, assigned>>

TakeRow(q, c) ==
    call' = [call EXCEPT ![q].rows = @ \ {c}, ![q].holds = @ \cup {c},
                         ![q].waits = {}]

LockGrant(q, c) ==
    /\ call[q].at = "lockGrants"
    /\ ComesTo(q, c) /\ ~Blocked(q, c)
    /\ TakeRow(q, c)
    /\ UNCHANGED <<screens, roles, grants, admins, assigned>>

GrantsDeleted(q) ==
    /\ call[q].at = "lockGrants"
    /\ call[q].rows = {}
    /\ call' = [call EXCEPT ![q].at = "insertGrants",
                            ![q].rows = DOMAIN call[q].asked]
    /\ UNCHANGED <<screens, roles, grants, admins, assigned>>

(* Defect: a refused replacement is tried again, without end. *)
RetriedAtOnce(q) ==
    call' = [call EXCEPT ![q].at = "deleteGrants", ![q].rows = {},
                         ![q].holds = {}, ![q].waits = {}]

(* A statement failed: the error is answered (409 for a conflict, else     *)
(* 500) and the session closed, which rolls the transaction back.          *)
RolledBack(q) == End(q)

(* A row that is still there, or was inserted since, is a conflict on the  *)
(* primary key.                                                            *)
InsertGrant(q, c) ==
    /\ call[q].at = "insertGrants"
    /\ ComesTo(q, c) /\ ~Blocked(q, c)
    /\ IF c \in DOMAIN grants[call[q].role] \ call[q].holds
       THEN RolledBack(q) ELSE TakeRow(q, c)
    /\ UNCHANGED <<screens, roles, grants, admins, assigned>>

(* The COMMIT; a DELETE that waits for a deleted row finds it gone.        *)
CommitGrants(q) ==
    LET job == call[q]
        spared == DOMAIN grants[job.role] \ job.holds
        Rest(o) == IF call[o].at = "lockGrants" /\ call[o].role = job.role
                   THEN [call[o] EXCEPT !.rows = @ \ job.holds,
                                        !.waits = @ \ job.holds] ELSE call[o]
    IN  /\ job.at = "insertGrants"
        /\ job.rows = {}
        /\ grants' = [grants EXCEPT ![job.role] =
                         Joined(job.asked, [c \in spared |-> @[c]])]
        /\ call' = [o \in Calls |-> IF o = q THEN Idle ELSE Rest(o)]
        /\ UNCHANGED <<screens, roles, admins, assigned>>

WaitsFor(q, o) ==
    /\ call[q].at \in {"lockGrants", "insertGrants"}
    /\ o # q
    /\ \E c \in call[q].waits : Holds(o, call[q].role, c)

(* q is on a cycle of waits.  A row is held once, so each call waits for   *)
(* one other at most.                                                      *)
Deadlocked(q) ==
    \E ring \in SUBSET Calls :
       /\ q \in ring
       /\ \A o \in ring : /\ \E p \in ring : WaitsFor(o, p)
                         /\ \E p \in ring : WaitsFor(p, o)

(* The database looks for cycles of waits and fails one of the statements. *)
DeadlockVictim(q) ==
    /\ Deadlocked(q)
    /\ RolledBack(q)
    /\ UNCHANGED <<screens, roles, grants, admins, assigned>>

CheckCode(q) ==
    /\ call[q].at = "checkCode"
    /\ IF screens[call[q].code] = Unset THEN Goto(q, "insertScreen") ELSE End(q)
    /\ UNCHANGED <<screens, roles, grants, admins, assigned>>

(* Defect: the bootstrap grant is left out. *)
InsertScreenAlone(q) ==
    /\ call[q].at = "insertScreen"
    /\ screens' = IF screens[call[q].code] = Unset
                  THEN [screens EXCEPT ![call[q].code] = call[q].status]
                  ELSE screens
    /\ End(q)
    /\ UNCHANGED <<roles, grants, admins, assigned>>

(* The screen and its grant to super_admin, in one transaction; the unique *)
(* index on the code has the last word.                                    *)
InsertScreen(q) ==
    LET job == call[q]
    IN  /\ job.at = "insertScreen"
        /\ IF screens[job.code] = Unset
           THEN /\ screens' = [screens EXCEPT ![job.code] = job.status]
                /\ grants' = [grants EXCEPT ![SuperRole] =
                     Joined(@, [c \in {job.code} |-> [read |-> TRUE,
                                                      write |-> TRUE]])]
           ELSE UNCHANGED <<screens, grants>>
        /\ End(q)
        /\ UNCHANGED <<roles, admins, assigned>>

SaveScreen(q) ==
    LET job == call[q]
    IN  /\ job.at = "saveScreen"
        /\ screens' = [screens EXCEPT ![job.code] = Column(@, job.old, job.new)]
        /\ End(q)
        /\ UNCHANGED <<roles, grants, admins, assigned>>

(* The connection or the process is lost; the transaction is rolled back. *)
Abort(q) ==
    /\ call[q] # Idle
    /\ End(q)
    /\ UNCHANGED <<screens, roles, grants, admins, assigned>>

-----------------------------------------------------------------------------
Scripts ==
    \/ \E a \in Admins : SeedAdmin(a)
    \/ SeedRbac
    \/ ResetAdmins
    \/ \E a \in Admins, some \in SUBSET RoleIds : OperatorAssigns(a, some)

RoleCall(q) ==
    \E r \in RoleIds :
       \/ \E row \in RoleRow : CreateRole(q, r, row)
       \/ \E payload \in [name : Names \cup {Unset}, status : Statuses \cup {Unset}] :
             UpdateRole(q, r, payload)
       \/ DeleteRole(q, r)
       \/ \E some \in SUBSET Asked : \E items \in [some -> Items] :
             UpdateRoleGrants(q, r, items)

ScreenCall(q) ==
    \/ \E s \in Statuses : \/ CreateNextScreen(q, s)
                           \/ \E c \in Codes : \/ CreateScreen(q, c, s)
                                               \/ UpdateScreen(q, c, s)
    \/ \E c \in Codes : DeleteScreen(q, c)

Continue(q) ==
    \/ InsertRole(q) \/ CheckName(q) \/ SaveRole(q)
    \/ DeleteGrants(q) \/ GrantsDeleted(q) \/ CommitGrants(q)
    \/ \E c \in Codes : AwaitRow(q, c) \/ LockGrant(q, c) \/ InsertGrant(q, c)
    \/ DeadlockVictim(q)
    \/ CheckCode(q) \/ InsertScreen(q) \/ SaveScreen(q)

CallStep(q) == RoleCall(q) \/ ScreenCall(q) \/ Continue(q) \/ Abort(q)

Next == Scripts \/ \E q \in Calls : CallStep(q)

Spec == Init /\ [][Next]_vars

(* The event loop runs every task that can go on, and the database serves  *)
(* the waiters for a row in turn.                                          *)
FairSpec ==
    /\ Spec
    /\ \A q \in Calls :
          /\ WF_vars(Continue(q))
          /\ SF_vars(\E c \in Codes : LockGrant(q, c) \/ InsertGrant(q, c))

-----------------------------------------------------------------------------
Jobs ==
    {Idle}
    \cup [at : {"insertRole"}, role : RoleIds, new : RoleRow]
    \cup [at : {"checkName", "saveRole"}, role : RoleIds, old : RoleRow,
          new : RoleRow]
    \cup [at : {"deleteGrants", "lockGrants", "insertGrants"}, role : RoleIds,
          rows : SUBSET Codes, holds : SUBSET Codes, waits : SUBSET Codes,
          asked : Grants]
    \cup [at : {"checkCode", "insertScreen"}, code : Codes, status : Statuses]
    \cup [at : {"saveScreen"}, code : Codes, old : Statuses, new : Statuses]

(* Every table holds rows of its columns' types, every call its own data. *)
TypeOK ==
    /\ screens \in [Codes -> Statuses \cup {Unset}]
    /\ roles \in [RoleIds -> RoleRow \cup {NoRole}]
    /\ grants \in [RoleIds -> Grants]
    /\ admins \subseteq Admins
    /\ assigned \in [Admins -> SUBSET RoleIds]
    /\ call \in [Calls -> Jobs]

(* Once seeded, super_admin keeps its name and stays active, whatever      *)
(* renames and deletions are in flight (update_role, delete_role).         *)
SuperAdminKept ==
    roles[SuperRole] \in
        {NoRole, [name |-> SUPER_ADMIN_ROLE_NAME, status |-> "active"]}

(* As long as there are admins, one of them may manage roles and one may   *)
(* manage screens: the API never locks everybody out of repairing it       *)
(* (PROTECTED_SCREEN_CODES, the super_admin protections).                  *)
ManagementNeverLost ==
    admins # {} => Authorised(RolesScreen) /\ Authorised(ScreensScreen)

(* No screen exists without its grant to super_admin: whoever creates it,  *)
(* super admins can use it at once (screen_repository.create_screen).      *)
EveryScreenGranted ==
    \A c \in Codes : screens[c] # Unset =>
        /\ c \in DOMAIN grants[SuperRole]
        /\ grants[SuperRole][c].read
        /\ grants[SuperRole][c].write = (c \notin ReadOnly)

(* However creations and renames race, the roles are a table with a unique *)
(* name from which nothing is ever removed, and so no other role is ever   *)
(* taken for super_admin (_ensure_name_available, the unique index behind  *)
(* it, delete_role).                                                       *)
RoleTable == INSTANCE UniqueTable
    WITH Ids <- RoleIds, Keys <- Names, NoKey <- Unset,
         key <- [r \in RoleIds |-> roles[r].name]
ImplementsTable == RoleTable!Spec

(* A stored grant that allows writing allows reading (update_role_grants,  *)
(* screen_repository.create_screen, _get_or_create_grant).                 *)
WriteImpliesRead ==
    \A r \in RoleIds : \A c \in DOMAIN grants[r] :
        grants[r][c].write => grants[r][c].read

(* What comes back to active was inactive when its update read it. *)
RevivedKnowingly ==
    /\ \A r \in RoleIds :
         roles[r].status = "inactive" /\ roles'[r].status = "active" =>
            \E q \in Calls : /\ call[q].at = "saveRole" /\ call[q].role = r
                             /\ call[q].old.status = "inactive"
    /\ \A c \in Codes :
         screens[c] = "inactive" /\ screens'[c] = "active" =>
            \E q \in Calls : /\ call[q].at = "saveScreen" /\ call[q].code = c
                             /\ call[q].old = "inactive"

(* A role or screen that was deleted comes back only by a PATCH that saw   *)
(* it inactive and asked for active: no update in flight revives it by     *)
(* writing back what it had read (update_role, update_screen).             *)
RevivedOnlyKnowingly == [][RevivedKnowingly]_vars

(* The grants of a role change only to the whole set some request asked    *)
(* for: "Replace the role's grants: delete all, insert the new set, in one *)
(* commit" (replace_role_grants).                                          *)
GrantsReplacedWhole ==
    [][ \A r \in RoleIds \ {SuperRole} :
          grants'[r] # grants[r] =>
             \E q \in Calls : /\ call[q].at = "insertGrants"
                              /\ call[q].role = r
                              /\ call[q].asked = grants'[r] ]_vars

(* A rerun of the seed script leaves the roles of an admin who has some as *)
(* they are: "assign super_admin to every admin that has no roles" (seed). *)
SeedSparesAssigned ==
    [][ SeedRbac => \A a \in admins : assigned[a] # {} =>
                       assigned'[a] = assigned[a] ]_vars

(* Every call ends, although two replacements of the same grants can wait  *)
(* for each other, for rows to delete and for keys inserted and not yet    *)
(* committed: whoever is failed for it, or refused, gives up all it holds  *)
(* and does not begin again (replace_role_grants, get_db).                 *)
CallsEnd == \A q \in Calls : call[q] # Idle ~> call[q] = Idle
=============================================================================
