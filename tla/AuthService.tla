----------------------------- MODULE AuthService -----------------------------
(***************************************************************************)
(* Login, token refresh and logout of one platform admin, as served by     *)
(* app/services/auth_service.py over the row of platform_admins.           *)
(*                                                                         *)
(* Rows of distinct admins never interact, so one row is modelled.  Every  *)
(* request runs in a task and a database session of its own; tasks         *)
(* interleave where they await the database.  A request is three steps:    *)
(*                                                                         *)
(*   read     the SELECT of the row and the synchronous code after it: the *)
(*            decision, the clock reading, the freshly minted session id;  *)
(*   save     flush and COMMIT.  The ORM writes the columns whose value    *)
(*            differs from the value it loaded, and no other (Written);    *)
(*   respond  the refresh after the commit, then the answer.               *)
(*                                                                         *)
(* Between the steps other requests run, so a save can rest on a row that  *)
(* is no longer the stored one.                                            *)
(***************************************************************************)
EXTENDS Integers, Orm

CONSTANTS
    Requests,               \* slots in which requests are served; reused
    Passwords,              \* passwords an admin may have or type
    InitialPassword,        \* the password the admin was created with
    MaxFailedLoginAttempts, \* settings.max_failed_login_attempts
    LockoutMinutes,         \* settings.lockout_minutes
    MaxTime,                \* bound: the clock stops here
    MaxSessions             \* bound: session ids that may be minted

ASSUME MaxFailedAssumption == MaxFailedLoginAttempts \in Nat \ {0}
ASSUME PasswordsAssumption == InitialPassword \in Passwords
ASSUME LockoutAssumption == LockoutMinutes \in Nat
ASSUME BoundsAssumption == MaxTime \in Nat \ {0} /\ MaxSessions \in Nat

NoSession == 0              \* current_refresh_jti IS NULL
NoLock == 0                 \* locked_until IS NULL; the clock starts at 1

SessionIds == 1..MaxSessions

(* The columns of platform_admins that the auth service reads or writes.   *)
(* hash stands for the password it was computed from: verify_password is   *)
(* equality with it.                                                       *)
AdminRow ==
    [hash : Passwords, failed : Nat, lockedUntil : Nat,
     jti : SessionIds \cup {NoSession}, status : Statuses]

(* The row as it is first inserted; an idle slot holds it too. *)
NewAdmin ==
    [hash |-> InitialPassword, failed |-> 0, lockedUntil |-> NoLock,
     jti |-> NoSession, status |-> "active"]

Outcomes ==
    {"LoginOk", "RefreshOk", "LogoutOk", "InvalidCredentials", "AccountLocked",
     "AccountInactive", "AuthenticationError", "AuthTimeout", "None"}

VARIABLES
    admin,      \* the stored row
    now,        \* utcnow(), in minutes
    minted,     \* number of session ids minted so far
    stage,      \* stage[r]: where request r is
    loaded,     \* loaded[r]: the row as request r read it
    object,     \* object[r]: the ORM object of request r, as assigned
    outcome,    \* outcome[r]: what request r is going to be answered
    token,      \* token[r]: the session request r is about to hand out
    delivered,  \* sessions whose tokens have reached a client
    retired     \* history: sessions that were current and no longer are

requestVars == <<stage, loaded, object, outcome, token>>
vars == <<admin, now, minted, requestVars, delivered, retired>>

-----------------------------------------------------------------------------
Written(stored, read, assigned) ==
    [hash        |-> Column(stored.hash, read.hash, assigned.hash),
     failed      |-> Column(stored.failed, read.failed, assigned.failed),
     lockedUntil |-> Column(stored.lockedUntil, read.lockedUntil,
                            assigned.lockedUntil),
     jti         |-> Column(stored.jti, read.jti, assigned.jti),
     status      |-> Column(stored.status, read.status, assigned.status)]

(* The stored row becomes row; the pointer it replaces is retired. *)
Store(row) ==
    /\ admin' = row
    /\ retired' = IF row.jti = admin.jti THEN retired
                  ELSE retired \cup ({admin.jti} \ {NoSession})

(* Defect: the comparison with the clock is turned round. *)
LockedInverted(row, t) == row.lockedUntil # NoLock /\ row.lockedUntil <= t

Locked(row, t) == row.lockedUntil # NoLock /\ row.lockedUntil > t

(* Reading a row whose lock has run out clears the lock and the counter. *)
Unlocked(row) ==
    IF row.lockedUntil = NoLock THEN row
    ELSE [row EXCEPT !.lockedUntil = NoLock, !.failed = 0]

(* Defect: the counter counts down the attempts left. *)
PenalisedDown(row, t) == [row EXCEPT !.failed = row.failed - 1]

(* Defect: one wrong password too many is let through. *)
PenalisedLate(row, t) ==
    IF row.failed + 1 > MaxFailedLoginAttempts
    THEN [row EXCEPT !.lockedUntil = t + LockoutMinutes, !.failed = 0]
    ELSE [row EXCEPT !.failed = row.failed + 1]

(* One more wrong password, typed at time t. *)
Penalised(row, t) ==
    IF row.failed + 1 >= MaxFailedLoginAttempts
    THEN [row EXCEPT !.lockedUntil = t + LockoutMinutes, !.failed = 0]
    ELSE [row EXCEPT !.failed = row.failed + 1]

NewSession == minted + 1

(* Defect: a successful login does not reset the counter. *)
IssuingOnly(row) == [row EXCEPT !.lockedUntil = NoLock, !.jti = NewSession]

(* _issue_session *)
Issuing(row) ==
    [row EXCEPT !.failed = 0, !.lockedUntil = NoLock, !.jti = NewSession]

-----------------------------------------------------------------------------
Init ==
    /\ admin = NewAdmin
    /\ now = 1
    /\ minted = 0
    /\ stage = [r \in Requests |-> "idle"]
    /\ loaded = [r \in Requests |-> NewAdmin]
    /\ object = [r \in Requests |-> NewAdmin]
    /\ outcome = [r \in Requests |-> "None"]
    /\ token = [r \in Requests |-> NoSession]
    /\ delivered = {}
    /\ retired = {}

Tick ==
    /\ now < MaxTime
    /\ now' = now + 1
    /\ UNCHANGED <<admin, minted, requestVars, delivered, retired>>

(* No route changes the status of a platform admin: an operator does. *)
OperatorSetsStatus(status) ==
    /\ status # admin.status
    /\ admin' = [admin EXCEPT !.status = status]
    /\ UNCHANGED <<now, minted, requestVars, delivered, retired>>

(* Request r reads the row, leaves assigned in its ORM object and goes on  *)
(* to save it.                                                             *)
Read(r, assigned, result) ==
    /\ stage[r] = "idle"
    /\ stage' = [stage EXCEPT ![r] = "save"]
    /\ loaded' = [loaded EXCEPT ![r] = admin]
    /\ object' = [object EXCEPT ![r] = assigned]
    /\ outcome' = [outcome EXCEPT ![r] = result]
    /\ UNCHANGED <<admin, now, token, delivered, retired>>

(* Request r reads the row and is refused with nothing to write. *)
Refuse(r, result) ==
    /\ stage[r] = "idle"
    /\ stage' = [stage EXCEPT ![r] = "refused"]
    /\ outcome' = [outcome EXCEPT ![r] = result]
    /\ UNCHANGED <<admin, now, minted, loaded, object, token, delivered, retired>>

(* Request r needs its ORM object no more. *)
Forget(r, next, result) ==
    /\ stage' = [stage EXCEPT ![r] = next]
    /\ loaded' = [loaded EXCEPT ![r] = NewAdmin]
    /\ object' = [object EXCEPT ![r] = NewAdmin]
    /\ outcome' = [outcome EXCEPT ![r] = result]

(* Defect: the session id is not fresh. *)
MintSessionAgain == minted < MaxSessions /\ minted' = minted

(* A uuid that no session had before. *)
MintSession == minted < MaxSessions /\ minted' = NewSession

-----------------------------------------------------------------------------
(* POST /auth/login *)
LoginLocked(r) ==
    /\ Locked(admin, now)
    /\ Refuse(r, "AccountLocked")

LoginWrongPassword(r, typed) ==
    /\ ~Locked(admin, now)
    /\ typed # admin.hash
    /\ LET row == Penalised(Unlocked(admin), now)
       IN  Read(r, row, IF row.lockedUntil # NoLock THEN "AccountLocked"
                        ELSE "InvalidCredentials")
    /\ UNCHANGED minted

(* Nothing is saved here, but a lock found expired was cleared in the      *)
(* object, and the commit of the audit entry writes that too.              *)
LoginInactive(r, typed) ==
    /\ ~Locked(admin, now)
    /\ typed = admin.hash
    /\ admin.status # "active"
    /\ Read(r, Unlocked(admin), "AccountInactive")
    /\ UNCHANGED minted

LoginAccepted(r, typed) ==
    /\ ~Locked(admin, now)
    /\ typed = admin.hash
    /\ admin.status = "active"
    /\ MintSession
    /\ Read(r, Issuing(Unlocked(admin)), "LoginOk")

(* POST /auth/refresh and /auth/logout with a token of session s *)
Validates(s) == admin.status = "active" /\ s = admin.jti

TokenRefused(r, s) ==
    /\ ~Validates(s)
    /\ Refuse(r, IF admin.status = "active" THEN "AuthenticationError"
                 ELSE "AccountInactive")

RefreshAccepted(r, s) ==
    /\ Validates(s)
    /\ MintSession
    /\ Read(r, [admin EXCEPT !.jti = NewSession], "RefreshOk")

(* Defect: the pointer is left where it is. *)
LogoutForgotten(r, s) ==
    /\ Validates(s)
    /\ Read(r, admin, "LogoutOk")
    /\ UNCHANGED minted

LogoutAccepted(r, s) ==
    /\ Validates(s)
    /\ Read(r, [admin EXCEPT !.jti = NoSession], "LogoutOk")
    /\ UNCHANGED minted

-----------------------------------------------------------------------------
(* COMMIT of the columns request r changed. *)
Save(r) ==
    /\ stage[r] = "save"
    /\ Store(Written(admin, loaded[r], object[r]))
    /\ Forget(r, "saved", outcome[r])
    /\ token' = [token EXCEPT ![r] = IF outcome[r] \in {"LoginOk", "RefreshOk"}
                                     THEN object[r].jti ELSE NoSession]
    /\ UNCHANGED <<now, minted, delivered>>

(* record() swallows a failed audit write, and with it the cleared lock of *)
(* an inactive admin.                                                      *)
AuditFails(r) ==
    /\ stage[r] = "save"
    /\ outcome[r] = "AccountInactive"
    /\ Forget(r, "refused", outcome[r])
    /\ UNCHANGED <<admin, now, minted, token, delivered, retired>>

(* asyncio.timeout cancels a login at whatever statement it awaits: before *)
(* the COMMIT took effect, or in the refresh that follows it.              *)
LoginTimeout(r) ==
    /\ stage[r] \in {"save", "saved"}
    /\ outcome[r] \in {"InvalidCredentials", "AccountLocked", "LoginOk"}
    /\ Forget(r, "refused", "AuthTimeout")
    /\ token' = [token EXCEPT ![r] = NoSession]
    /\ UNCHANGED <<admin, now, minted, delivered, retired>>

Respond(r) ==
    /\ stage[r] \in {"saved", "refused"}
    /\ Forget(r, "idle", "None")
    /\ token' = [token EXCEPT ![r] = NoSession]
    /\ delivered' = delivered \cup ({token[r]} \ {NoSession})
    /\ UNCHANGED <<admin, now, minted, retired>>

(* The connection or the whole process is lost: the request vanishes.      *)
(* Nothing but the database outlives it.                                   *)
Abort(r) ==
    /\ stage[r] # "idle"
    /\ Forget(r, "idle", "None")
    /\ token' = [token EXCEPT ![r] = NoSession]
    /\ UNCHANGED <<admin, now, minted, delivered, retired>>

-----------------------------------------------------------------------------
Login(r) ==
    \/ LoginLocked(r)
    \/ \E p \in Passwords : \/ LoginWrongPassword(r, p)
                            \/ LoginInactive(r, p)
                            \/ LoginAccepted(r, p)

PresentToken(r) ==
    \E s \in delivered : TokenRefused(r, s) \/ RefreshAccepted(r, s)
                         \/ LogoutAccepted(r, s)

Finish(r) ==
    Save(r) \/ AuditFails(r) \/ LoginTimeout(r) \/ Respond(r) \/ Abort(r)

RequestStep(r) == Login(r) \/ PresentToken(r) \/ Finish(r)

Next ==
    \/ Tick
    \/ \E status \in Statuses : OperatorSetsStatus(status)
    \/ \E r \in Requests : RequestStep(r)

Spec == Init /\ [][Next]_vars

-----------------------------------------------------------------------------
Stages == {"idle", "save", "saved", "refused"}

(* Every variable has the type its column or its use in the code gives it. *)
TypeOK ==
    /\ admin \in AdminRow
    /\ now \in 1..MaxTime
    /\ minted \in 0..MaxSessions
    /\ stage \in [Requests -> Stages]
    /\ loaded \in [Requests -> AdminRow]
    /\ object \in [Requests -> AdminRow]
    /\ outcome \in [Requests -> Outcomes]
    /\ token \in [Requests -> SessionIds \cup {NoSession}]
    /\ delivered \subseteq SessionIds
    /\ retired \subseteq SessionIds

(* A session that was replaced by a later login or refresh, or cleared by  *)
(* a logout, never becomes current again, whatever stale objects are saved *)
(* after it: its access and refresh tokens are dead for good               *)
(* (_require_current_session, _issue_session, _clear_current_session).     *)
RetiredNeverCurrent == admin.jti \notin retired

(* However wrong logins race, the stored counter stays below the limit:    *)
(* the login that brings it there stores a lock and zero instead, so a     *)
(* failed login always has attempts to report as remaining                 *)
(* (_authenticate lines 75-82).                                            *)
CounterBelowLimit == admin.failed < MaxFailedLoginAttempts

(* The lock in force is taken back by a request that had read an expired   *)
(* one.                                                                    *)
StaleExpiryLifts ==
    Locked(admin, now) /\ admin'.lockedUntil = NoLock
    => \E r \in Requests : /\ stage[r] = "save" /\ stage'[r] = "saved"
                           /\ loaded[r].lockedUntil # NoLock
                           /\ loaded[r].lockedUntil <= now

(* A lock in force is taken back only by a request that had read, before   *)
(* it was imposed, an older lock that had run out; a first lock is safe    *)
(* from every login in flight (_authenticate lines 69-73, 86-87).          *)
LockLiftedOnlyByStaleExpiry == [][StaleExpiryLifts]_vars

(* A login answered with a timeout has stored nothing: no attempt counted, *)
(* no session replaced (login, lines 54-59).                               *)
TimeoutStoresNothing ==
    [][ \A r \in Requests :
          outcome[r] # "AuthTimeout" /\ outcome'[r] = "AuthTimeout"
          => stage[r] = "save" ]_vars

(* Why RetiredNeverCurrent survives stale saves: an object either leaves   *)
(* the pointer as it read it, or clears it, or carries a session that      *)
(* nobody has stored yet and that no other object carries.                 *)
Carries(r) == object[r].jti \notin {NoSession, loaded[r].jti}

SessionsStoredOnce ==
    /\ admin.jti <= minted
    /\ retired \subseteq 1..minted
    /\ \A r \in Requests : Carries(r) =>
          /\ object[r].jti <= minted
          /\ object[r].jti \notin retired \cup {admin.jti}
          /\ \A q \in Requests \ {r} : object[q].jti # object[r].jti
                                       \/ ~Carries(q)

ObjectsBelowLimit ==
    \A r \in Requests : object[r].failed < MaxFailedLoginAttempts

(* The inductive invariant of AuthServiceProofs: types, the two properties *)
(* above, and what the objects in flight must satisfy for a later save to  *)
(* keep them.                                                              *)
IndInv ==
    /\ TypeOK
    /\ RetiredNeverCurrent
    /\ SessionsStoredOnce
    /\ CounterBelowLimit
    /\ ObjectsBelowLimit

(* The stored pointer, however it is reached, is a session register. *)
Register == INSTANCE SessionRegister
    WITH Sessions <- SessionIds, current <- admin.jti
ImplementsRegister == Register!Spec
=============================================================================
