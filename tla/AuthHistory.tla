----------------------------- MODULE AuthHistory -----------------------------
(***************************************************************************)
(* AuthService watched by an observer that remembers what the row forgets: *)
(* which login a session descends from, which of those logins were logged  *)
(* out, how long the account was promised to stay locked, and how many     *)
(* wrong passwords were really stored.  The observer never restrains a     *)
(* step: ObservedNext is Next with the history variables filled in.        *)
(***************************************************************************)
EXTENDS AuthService, FiniteSetsExt

VARIABLES
    family,     \* family[s]: the login that session s descends from
    signedOut,  \* families that a logout has ended
    lockEnd,    \* latest end of any lock imposed so far
    wrong       \* wrong passwords stored since the last lock or success

historyVars == <<family, signedOut, lockEnd, wrong>>
observedVars == <<vars, historyVars>>

ObservedInit ==
    /\ Init
    /\ family = [s \in SessionIds |-> NoSession]
    /\ signedOut = {}
    /\ lockEnd = 0
    /\ wrong = 0

(* The requests whose commit is this step, with the given answer. *)
Saving(result) ==
    {r \in Requests : /\ stage[r] = "save"
                      /\ stage'[r] = "saved"
                      /\ outcome[r] = result}

(* A session minted for a refresh belongs to the family of the session     *)
(* refreshed; one minted for a login starts a family.                      *)
RecordFamily ==
    family' = [s \in SessionIds |->
                 IF s # minted' \/ s = minted THEN family[s]
                 ELSE IF \E r \in Requests : /\ object'[r].jti = s
                                             /\ outcome'[r] = "RefreshOk"
                      THEN family[admin.jti] ELSE s]

RecordLogout ==
    signedOut' = signedOut
                 \cup {family[loaded[r].jti] : r \in Saving("LogoutOk")}

RecordLock ==
    lockEnd' = Max({lockEnd} \cup {object[r].lockedUntil :
                                     r \in Saving("AccountLocked")})

RecordWrong ==
    wrong' = IF Saving("AccountLocked") \cup Saving("LoginOk") # {} THEN 0
             ELSE IF Saving("InvalidCredentials") # {} THEN wrong + 1
             ELSE wrong

ObservedNext ==
    /\ Next
    /\ RecordFamily
    /\ RecordLogout
    /\ RecordLock
    /\ RecordWrong

ObservedSpec == ObservedInit /\ [][ObservedNext]_observedVars

-----------------------------------------------------------------------------
(* A lock, once imposed, stands until its end: the account stays locked    *)
(* for the time the refused login was told (_authenticate lines 69-80).    *)
LockRunsItsCourse == now < lockEnd => admin.lockedUntil = lockEnd

(* A lock that has not run out is never erased: "Your account has been     *)
(* temporarily locked. Please try again after 15 minutes".                 *)
LockNotErased == now < lockEnd => admin.lockedUntil # NoLock

(* The counter is the number of wrong passwords since the last lock or     *)
(* success, so the login is locked at exactly the configured attempt.      *)
CounterExact == admin.failed = wrong

(* No more wrong passwords are tried between two locks than settings       *)
(* allow: max_failed_login_attempts.                                       *)
WrongPasswordsBounded == wrong < MaxFailedLoginAttempts

(* After a logout neither the session it ended nor any session refreshed   *)
(* from it validates (logout, _clear_current_session).                     *)
LogoutEndsSession ==
    admin.jti # NoSession => family[admin.jti] \notin signedOut

=============================================================================
