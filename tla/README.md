# platform-admin in TLA+

A model of the state-changing core of the platform-admin backend (FastAPI, async
SQLAlchemy, PostgreSQL): logins and sessions, password resets, roles and screens,
users and query categories, the audit trail they leave and the paginated reading of
it. TLC checks it on small instances; TLAPS proves the
theorems listed below for every value of the constants. Paths are relative to the
repository.

## How the program runs, and what a step is

The server runs one task per request on one event loop, each with a database session
of its own (`app/database/database.py`). Tasks interleave where they await; between
awaits the code is sequential. Several server processes only add interleavings of the
same kind. The database runs at READ COMMITTED.

An operation is therefore a few steps, one per await another request can slip into:

* **read**: a SELECT and the synchronous code after it, with one reading of the clock.
* **commit**: flush and COMMIT. SQLAlchemy's unit of work writes only the columns whose
  value differs from the one that was loaded (`Column` in `Orm.tla`). Most of the hard
  behaviour of this program comes from it: nothing locks a row between its read and its
  commit, so a commit may rest on a row that is no longer the stored one.
* **respond**: refresh, audit row, answer.

A request may end between any two of its steps (cancelled, connection lost, process
killed): its uncommitted changes are gone, its committed ones stay. These are the
`Abort` actions. Nothing is kept in memory across requests, so a restart of the server
is the abort of every request in flight.

Details the modules rely on:

* Autoflush inside `_authenticate` takes the row lock early, but other sessions see the
  old row until the commit: flush and commit are one step.
* The login timeout covers `_authenticate` as a whole. Before the commit it cancels the
  statement, nothing is stored and the audit write on the broken connection fails and
  is swallowed. After the commit the row has changed all the same (`LoginTimeout`).
* A refused login that changed its object (an expired lock cleared, an account
  inactive) does not commit, but its audit row does, in the same session: the pending
  change is stored with it unless the audit write fails (`Save`, `AuditFails`).
* The two lookups of a logout read one object (identity map): one read.
* Expired or malformed tokens, unknown emails and invalid bodies are refused without
  any effect; they are not actions. Token expiry is one such refusal.
* No route changes an admin's status or roles; an operator or the scripts do.
* Time is in minutes; `0` stands for a NULL timestamp and the clock starts at 1.

## Inventory

| component | state | operations | interacts with | hard behaviour |
|---|---|---|---|---|
| Login and sessions (`services/auth_service.py`, `api/deps.py`, `core/security.py`) | `platform_admins`: hash, failure counter, lock, current session | login, refresh, logout, token check | resets clear its columns; permissions go into the tokens | lost updates of counter and lock, stale saves over the session pointer, timeout after commit |
| OTP (`auth_service.generate_otp`, `verify_otp`) | `password_reset_otps` | request, verify | read and deleted by resets | throttle under concurrency, verify against re-issue or deletion |
| Password reset and history (`auth_service.update_password`) | `password_history`, the admin's row, the OTP row | reset: four commits | all of the above | partial failure between commits, trim in two statements, racing logins |
| Roles, screens, grants (`role_service`, `screen_service`, `rbac_service`) | `roles`, `screens`, `role_screens`, `platform_admin_roles` | CRUD, replacement of grants, permission check | every route asks for a permission | replacement at READ COMMITTED, row-lock waits, protection against lock-out, revived rows |
| Seed scripts (`database/scripts`) | the same tables | catalog, admins, assignment | run beside the server | idempotence, rows already there |
| Users (`user_service`) | `users` | create, PATCH, PUT, DELETE | permission check | check-then-write of the email, stale partial writes |
| Query categories (`services/query_category.py`) | `query_categories` | create, PATCH, DELETE | permission check; names admins | the same, and who is named as last changer |
| Audit trail (`audit_service`) | `audit_logs` | insert, list | called by every operation after its commit | two transactions: others run in between, the entry may be lost, its failure must not fail the operation |
| Pagination (`utils/pagination.py`, `schemas/common.py`) | none | total of pages, page of a list | every list | the list moves while it is read, and reading the audit log adds to it |
| Redaction (`utils/redact.py`) | none | pure function | audit | nesting |
| Sessions, error handlers (`database`, `exceptions`) | one session per request | open, roll back, map errors | everything | unique violations become 409 |
| Middleware, logging, tracing, settings, routers, schemas, health, zones, migrations | none that is read back | | | not modelled, reasons in `PROJECT.json` |

What makes each correct: a session that was replaced or logged out stays dead; a lock
runs its course and the counter bounds the guesses; a code is single-use and throttled;
a recent password is not accepted again and the history never lies; somebody can
always manage roles and screens; a replacement of grants is whole; names, emails and
keys are unique; a deleted row comes back only on purpose; a change is attributed to
who made it; the audit trail says nothing that was not so, and reading it page by
page skips nothing. Where the code does less than its words promise, a `violation` run or
the list below it says so.

## Modules

| module | models |
|---|---|
| `SessionRegister` | abstract: a session pointer that issues each session once and never returns to one it left |
| `Orm` | `Column`, `Given`: what a commit writes and what a PATCH applies |
| `AuthService` | login, refresh, logout on one admin's row (admins do not interact) |
| `AuthHistory` | `AuthService` with observers: session families, lock ends, wrong guesses |
| `OtpService` | extends `AuthService` with the OTP rows, one per spelling of the email |
| `PasswordReset` | extends `OtpService` with `update_password`, step by step |
| `ResetHistory` | `PasswordReset` with observers: the passwords replaced, in order, the codes sent and what each was used for |
| `RbacCatalog` | roles, screens, grants, assignments, seed scripts, permission check |
| `UniqueTable` | abstract: a table with a unique key from which nothing is removed |
| `UserDirectory` | users |
| `AuditedUsers` | composes `UserDirectory` with the audit entries its calls record after their commits |
| `QueryCategories` | query categories |
| `AuditPages` | a client paging through the audit log while it grows |
| `AuthServiceProofs`, `AuthHistoryProofs`, `PasswordResetProofs`, `ResetHistoryProofs`, `RbacCatalogProofs`, `AuditedUsersProofs`, `QueryCategoriesProofs`, `AuditPagesProofs` | theorems about the module of the same name; those about `UserDirectory` are in `AuditedUsersProofs` |
| `MC*` | symmetry sets and small constants for the runs |

Correspondence. `AuthService.admin` is the row of `platform_admins`; `loaded[r]` and
`object[r]` are what request `r` loaded and its ORM object; `stage`, `outcome` and
`token` are where it is, what it will answer and the session its token names.
`LoginLocked`, `LoginWrongPassword`, `LoginInactive` and `LoginAccepted` are the paths
of `_authenticate`; `TokenRefused`, `RefreshAccepted` and `LogoutAccepted` those of a
presented token; `Save` is `save_admin`. `delivered` holds the sessions whose tokens
reached the client, the only ones it can present; `retired` is a history variable that
guards nothing. In `PasswordReset`, `step[q]` names the next await of
`update_password`; in `OtpService`, `otpStage[q]` that of a request for a code or a
verification, which takes the admin and, for a code, the clock (`otpClock`) before it
reads its row. In `RbacCatalog`, `UserDirectory` and `QueryCategories`, `call[q]` is
what slot `q` is serving: the row it read (`old`), what it will write, and `at`, the
await it is in. A replacement of grants goes through the rows of its DELETE, and then
through those of its INSERT, one at a time and in any order (`LockGrant`,
`InsertGrant`): `rows` are those still ahead of the statement, at first the rows the
DELETE saw at READ COMMITTED, `holds` those its transaction has deleted or inserted and
not committed. A row another transaction holds is waited for (`AwaitRow`, `waits`): a
locked row as well as a key inserted and not committed. Waits can form a cycle; the
database then fails one of the statements (`DeadlockVictim`), the call answers the error
and its transaction is rolled back (`RolledBack`), which nothing tries again.
In `AuditedUsers`, `pending[q]` is the entry that call `q` owes once its commit went
through; an entry is the set of facts "user u was given this value in this column" that
its `details` name, and `trail` is the union of them. In `AuditPages`, `log` is the set
of `created_at` of the stored entries, `at` the next statement of the listing; a page is
`Count`, `Select`, then the entry the listing records of itself (`Record`,
`RecordStored`).

Definitions commented `Defect:` are plausible errors in the definition that follows
each; no specification uses them. They are the mutants of `PROJECT.json`: with any of
them in place of the definition, the named run finds its property violated.

## Runs

Runs that pass:

| run | bounds | shows |
|---|---|---|
| `AuthConcurrent` | 2 requests, 3 sessions, limit 2, clock to 3 | types; `IndInv`; a retired session never returns; the counter stays below the limit; a lock in force is lifted only by a login that read an older, expired one; the pointer implements `SessionRegister` |
| `AuthSequential` | 1 request, limit 3, lock of 2, clock to 5 | exact counter, lock for its full time, logout ends the session and its refreshes |
| `ResetSequential` | 1 slot for logins and logouts (1 session: a refresh would need a second), 1 OTP slot, 1 reset, 4 passwords, depth 2, clock to 2, login limit 2, 1 code per window | types; throttle within a window; single use; a reset clears what it read, and the pointer is still a session register; the history is the latest past passwords in order; no recent password accepted; a trim keeps the most recent |
| `ResetRace` | 2 resets, 2 OTP slots, 1 abort, depth 1 | the history holds only passwords the admin had, and stays bounded; no row counts more requests than its window allows |
| `RbacConcurrent` | 2 calls, 3 roles, 2 names, screens S1, S2 and one of another form | types; a write grant is a read grant; the roles implement `UniqueTable` by name; super_admin kept and granted every screen; management never lost; revived only knowingly |
| `RbacFair` | 2 calls, 2 roles, grants of up to 2 screens, fairness | every call ends, two replacements that wait for each other included |
| `UsersConcurrent` | 2 calls, 2 users, entries of one of them, 2 emails, a PATCH without a name | types; implements `UniqueTable`; revived only knowingly; the trail is true, and accounts for the rows |
| `CategoriesConcurrent` | 2 calls, 2 admins, 2 categories, 2 keys | types; implements `UniqueTable`; a commit changes only what its call gave |
| `AuditPages` | 2 writers, pages of 2, up to 6 entries before the client starts and 4 of others after it | types; no entry skipped; an entry missed only by the race of count and select; headway |

Runs that find a promise broken, each a finding in `PROJECT.json`:

| run | what happens |
|---|---|
| `AuthLogoutRace` | a refresh validated before a logout stores a session after it |
| `OtpReplay` | two resets on one verified code both change the password |
| `RbacGrantsMerge` | two replacements of a role's grants leave their union |

`LogoutEndsSession`, `OtpSingleUse` and `GrantsReplacedWhole` hold with one request of a
kind at a time (`AuthSequential`, `ResetSequential`, and theorems) and fail with two: the
fault is the race and not the logic.

Other promises that two requests break. No run is kept for them; each property is in
the module named and TLC refutes it on the instance given, within two minutes.

| property | instance | what happens |
|---|---|---|
| `AuthHistory!WrongPasswordsBounded` | `AuthLogoutRace.cfg` | concurrent wrong passwords count once: more guesses than `max_failed_login_attempts` (`core/config.py:39`) |
| `AuthHistory!LockNotErased` | `AuthLogoutRace.cfg` with limit 1, clock to 4 | a login that read an expired lock erases a newer one (`auth_service.py:72`) |
| `AuthService!TimeoutStoresNothing` | `AuthConcurrent.cfg` | a login answered 504 has stored its change (`tests/unit/services/test_auth_service.py:135` asserts otherwise) |
| `ResetHistory!CodesThrottled` | `ResetRace.cfg`, clock to 2 | concurrent requests for a code write the same count: more codes than the throttle allows (`auth_service.py:217`) |
| `ResetHistory!NoRecentReuse` | `ResetSequential.cfg` with `MaxAborts = 1`, depth 1 | a reset cut short after the history's commit pushes recent passwords out (`auth_service.py:252`) |
| `ResetHistory!ResetClearsAccount` | `OtpReplay.cfg` with one login slot | a session stored during a reset survives it (`auth_service.py:256`) |
| `ResetHistory!TrimSparesRecent` | `OtpReplay.cfg` | a trim deletes an entry newer than those it read (`password_history_repository.py:41`) |
| `RbacCatalog!SeedSparesAssigned` | `RbacFair.cfg` with two admins | the backfill gives super_admin to admins that have a role (`seed_rbac.py:51` says only to those without) |

`CodesThrottled` counts per spelling of the email. The admin behind it is found without
regard to case, so each spelling has a throttle of its own (`auth_service.py:195`).
A PATCH, PUT or DELETE whose value equals the one it read writes nothing over a change
committed meanwhile, and still answers success (`user_repository.py:60`); for the same
reason `updated_by` of a category may name an earlier changer
(`repositories/query_category.py:65`).

A client that pages through the audit log to the end that `total_pages` tells of may
miss entries, but no more than were committed between the count of its last page and
its select (`MissedOnlyByRace`). Every page read records an entry, which pushes the next
page back by one: each page brings `limit - 1` entries the client has not seen, less
what others recorded meanwhile (`HeadwayPerPage`). With a limit of 1 a client is given
the same entry again and again.

How far a code can be used again is itself a promise of the code: never more often than
resets are served at once, and once more for every reset cut short
(`ResetHistory!RedeemedByRaceOnly`, a theorem; TLC agrees on `OtpReplay.cfg` with
`MaxEntries = 4`, `MaxAborts = 1`, `MaxTime = 1` and its symmetry, and refutes it with
one less).

**Bounds.** Slots are reused, so two of them allow any number of requests, two at a
time: the races found are all between two, and the argument of the proofs has no
number of requests in it. Limits of 1 to 3 reach the limit and pass it. `MaxTime`
stops the clock after every window, expiry and lock of the run has ended at least
once; the reset runs with races stop it earlier because their properties are not
about time. `MaxSessions`, `MaxCode`, `MaxEntries`, `MaxAborts`, `MaxFirst` and
`MaxOthers` bound what would otherwise grow; every bound is declared as one where it is
a constant. `PatchNames`, `Items` and `Asked` cut down the payloads, `Watched` the users whose
entries are looked at: entries of other users change nothing of theirs. Six entries and
four of others, on pages of two, let a client read several pages while the end of the
log moves away from it. Symmetry is used for request slots, for the passwords but the
first, for the roles beside super_admin, for the writers of the log, and for the ids,
keys, names and admins of users and categories, in runs without liveness only: no
definition of theirs tells one from another.
Only `AuditPages` turns the deadlock check off: a client that has read the last page
stops. Elsewhere idle slots can always begin something, and waiting for row locks is a
state, not a stop.

**Fairness.** Only `RbacFair` assumes any: weak fairness of the steps of each call
(`Continue`), which is the event loop running every ready task and the deadlock detector
looking at every statement that waits too long; and strong fairness of taking a row,
which is PostgreSQL's queue of waiters: whoever waits is served once the holders let go
often enough. The mutual waits are reachable in the run, and that nothing is retried is
what it rests on: with `RetriedAtOnce` for `RolledBack` replacements can go on failing
for ever. The other liveness of the program (every request ends) needs the same
and nothing else, and is not checked again.

## Proofs

Every proof module EXTENDS the module it is about; no theorem bounds the number of
requests, calls, rows or writers. The assumptions are those declared with the constants.
Every property of a passing run is stated by a theorem, except `CallsEnd`.

`AuthServiceProofs`, assuming a positive limit, that the initial password is one, and
natural times and bounds: `TypesHold`, `RetiredStayRetired`, `CounterStaysBelowLimit`,
`LocksHold`, `AlwaysIndInv` and `AuthImplementsRegister`. `RetiredNeverCurrent` is not
inductive: it says nothing of the objects in flight, which later commits write. `IndInv`
adds `SessionsStoredOnce` (an object either leaves the pointer as it read it, clears it,
or carries a session that nobody stored and no other object carries) and
`ObjectsBelowLimit`. The step that matters is `Save` (`SaveKeepsIndInv`): by `Column` the
pointer stays, is cleared, or becomes the carried session, which is then retired
nowhere. `LocksHold` needs `LockInv`: an object without the lock it was read with has
read an expired one. TLC checks `IndInv` in `AuthConcurrent`.

`AuthHistoryProofs`: `ObserverOnlyWatches` says that the observer restrains no step.
`CountsEveryWrongPassword`, `LocksRunTheirCourse`, `LogoutIsFinal` and `FewWrongPasswords`
hold of every behaviour in which at most one request is between its read and its commit
(`Alone`). They need it: without it `LogoutEndsSession` is refuted by `AuthLogoutRace`,
and the lost updates listed above break the others. Nothing else is assumed of the
requests: they may be cancelled, time out, fail their audit write, or be any number.
`HistoryInv` relates what the observer remembers to the stored row and to the one object
in flight: a stored lock is the last one imposed and leaves no failures
(`LockRecorded`); an object rests on the row that is still stored (`Undisturbed`) and
carries the count, the lock (`AsCounted`) and the session (`AsSessions`) that its answer
stands for.

`PasswordResetProofs`, assuming besides that there is an email and finitely many resets:
`ResetTypesHold`, `ResetsReviveNoSession`, `CountsStayWithinLimit`,
`StoreClearsWhatItRead`, `ResetImplementsRegister`, `HistoryStaysBounded`. `ResetInv` is
`IndInv` kept by the resets too, with the counts of OTP objects in flight, which a later
commit stores. The bound of the history rests on `HistoryInv`: entries have distinct
times, `keep` of a trim in flight is what it read, and the history exceeds its depth by
no more than the resets that have yet to trim and those that died before it.

`ResetHistoryProofs`: `WatcherOnlyWatches` as above, and

| theorem | holds while | inductive invariant |
|---|---|---|
| `HistoryStaysReal` | always | `RealInv`: no request but a reset assigns to the hash, and what a reset read was the password of the admin then |
| `OnlyRacesRedeemAgain` | always | `RedeemedInv`: as long as the row of a code is stored, whoever redeemed it is about to delete it or was cut short; once it is gone nobody else begins to rely on it |
| `TrimsSpareRecent` | resets do not overlap (`ResetsAlone`) | `KeptInv`: the entries about to be spared are still the latest |
| `HistoryIsExact`, `NoPasswordReused` | resets do not overlap and none is cut short (`ResetsInTurn`) | `PastInv`: at each step of the reset the history is the latest passwords, the one being replaced added, or not yet trimmed (`Entries`), and the chosen password is none of them (`Checked`) |
| `CodesAreSingleUse` | `ResetsInTurn` | `SingleUseInv`: a code redeemed is gone or about to be; while a reset rests on a code nobody redeemed it |
| `ThrottleHolds` | requests for codes do not overlap (`CodesAlone`); resets race and die as they like | `ThrottleInv`: a row counts the codes sent in its window, none was sent after it, and a request in hand sends none, one more, or the first of a new window |

The hypotheses are needed: `OtpReplay` and the table of broken promises above violate
each of these properties without its own. Logins, refreshes and logouts race with the
resets in all of them. `HistoryIsExact` assumes a positive depth (with 0 the code keeps
every entry) and `ThrottleHolds` a positive window (with 0 every request starts a new
one, and two in one minute are two codes). What is proved of a set of entries counted by
their times goes through the bijection of `CountLater` and `RecentOfRows`.

`RbacCatalogProofs`: `TypesCorrect`, `RolesAreATable`, `SuperAdminIsKept`,
`ManagementIsNeverLost`, `ScreensAreGranted`, `WritesImplyReads`,
`NothingRevivedByAccident`, `GrantsAreReplacedWhole`. `IInv` adds `NamesUnique`, `Bootstrap` (nothing happens
before the catalog is seeded; protected screens are active; super_admin is granted only
stored screens) and `JobsOK`, what a call in flight may rely on at its commit although
others have run since it was checked: a rename that read a role other than super_admin
still finds it another role, a replacement of grants is not one of super_admin's, a
screen update does not deactivate a protected screen. That the seed script takes a free
name when it creates super_admin is `Bootstrap` again: there is no other role yet.
`GrantsAreReplacedWhole` states what `RbacGrantsMerge` refutes, for behaviours in which
the replacements of one role's grants do not overlap (`ReplacedInTurn`; those of
different roles may): the rows a replacement deleted are then still all there are
(`DeletesAll`).

`AuditedUsersProofs`, of `UserDirectory` and assuming only that `Unset` is no email:
`UsersTyped`, `UsersAreATable`, `UsersRevivedKnowingly`. The strengthening is
`ChangedIsStored`: a user being changed is stored, as rows are never removed; without it
a stale commit could write columns over no row. A commit that changes an email found it
free under the unique index, which is a `Take` of the table; any other commit leaves the
emails alone. That a creation revives nobody needs `FreshUsers`: two creations never have
one id, and no stored user has it. `QueryCategoriesProofs` proves `CategoriesTyped` and
`CategoriesAreATable` in the same way, and `CommitsWriteOnlyGiven` from it.

Of the composition: `TrailNeverLies`, `TrailAccountsForEveryRow` and
`AuditedUsersAreUsers`, which says that recording changes nothing of the user calls, so
the theorems of `UserDirectory` hold of it. `AuditInv` adds that whatever is stored, was
read or is to be recorded was stored once, and that a stored value is named by the trail,
by an entry still owed, or is the status the user was created with.

`AuditPagesProofs`: `PagesTyped`, `PagingSkipsNothing`, `OnlyTheRaceMisses`,
`ReadingMakesHeadway`. An entry keeps its rank or gains one when another is stored
(`RankGrows`), so what lies below the pages sent stays there. `PagesInv` adds what the
statements of a page know of the log: the count is of a smaller log, and the entries
unseen after the select all lie below the page (`PagesHoldAll`, `FewBelow`). Headway
relates two histories by a count of pages; `HeadwayInv` adds that the log grew by no more
than what others and the client's own pages recorded (`GrowthKnown`), and that after a
select short of the end what was sent and what was recorded make up the pages
(`PagesSent`).

Only model-checked: `CallsEnd`, as liveness under fairness and ENABLED are out of the
prover's reach. TLC checked the inductive invariants whose form was in doubt before they were proved:
`IndInv`, `HeadwayInv`, and `HistoryInv` of `AuthHistoryProofs` and `ThrottleInv` with
their hypotheses as constraints.

## Not modelled

Hashing and token encoding (equality of a password, identity of a session); names of
fields in responses; the lists other than the audit log, which change nothing; schemas,
middleware, logging, tracing, health, zones, migrations. Of the audit entries, the
actor, the request data and the filters of the list; entries of other operations than
the user calls append to the log and are the writers of `AuditPages`. Redaction is a
recursion over nested payloads, data that the model abstracts, and what a recursive
definition computes for every input is out of the prover's reach. Assignments of roles
by an operator are modelled with the assumption that a super_admin is left
(`OperatorAssigns`); the API has no route for them.

Read in the code and outside any model: `LastAdminError`
(`app/exceptions/exceptions.py:112`) is raised nowhere; the migration
`362dc6c64a7c` names a predecessor that is not in the repository; with a history depth
of 0 `trim` keeps every entry; an audit write that fails rolls its session back, which
expires the loaded objects, so that a user creation, PATCH or PUT goes on to answer 500
after its commit while a DELETE, which reads nothing more, succeeds.

## Plan

1. A history depth of 0, a throttle window across a reset, two versions of the catalog.
2. What a role's grants can become when its replacements race: each stored grant was
   asked for by some request.
3. The ambient actor of an audit entry, and the objects expired by a failed write.
4. `redact` as a function checked against a reference definition.
