---------------------------- MODULE PasswordReset ----------------------------
(***************************************************************************)
(* The last step of a password reset, update_password of                   *)
(* app/services/auth_service.py, with the password history it keeps,       *)
(* beside the logins of AuthService and the codes of OtpService.           *)
(*                                                                         *)
(* The statements of a reset are steps of their own: the admin, the code   *)
(* and the history are read; then the old hash is added to the history and *)
(* read back, the history is trimmed, the new hash is stored, the code is  *)
(* deleted.  The admin read first is the object saved last.                *)
(***************************************************************************)
EXTENDS OtpService, FiniteSets

CONSTANTS
    Resets,                 \* slots serving update_password
    PasswordHistoryDepth,   \* settings.password_history_depth
    MaxEntries,             \* bound: history entries that may be created
    MaxAborts               \* bound: resets that may be cut short

ASSUME ResetsAssumption == IsFiniteSet(Resets)
ASSUME HistoryAssumption ==
    PasswordHistoryDepth \in Nat /\ MaxEntries \in Nat /\ MaxAborts \in Nat

(* A row of password_history.  created_at orders the rows; the n-th entry  *)
(* created carries n.                                                      *)
HistoryEntry == [hash : Passwords, createdAt : Nat]

VARIABLES
    history,    \* the stored rows of password_history
    created,    \* number of entries created so far
    step,       \* step[q]: the next statement of reset q
    view,       \* view[q]: the admin as reset q read it
    resetEmail, \* resetEmail[q]: the spelling reset q came with
    chosen,     \* chosen[q]: the new password of reset q
    stamp,      \* stamp[q]: created_at of the entry reset q adds
    keep,       \* keep[q]: the entries the trim of reset q spares
    aborts      \* number of resets cut short so far

resetVars == <<history, created, step, view, resetEmail, chosen, stamp, keep,
               aborts>>
allVars == <<vars, otpVars, resetVars>>

(* Defect: one entry too many. *)
RecentAndOne(n) ==
    {h \in history :
       Cardinality({g \in history : g.createdAt > h.createdAt}) <= n}

(* The n entries created last. *)
Recent(n) ==
    {h \in history :
       Cardinality({g \in history : g.createdAt > h.createdAt}) < n}

(* Defect: the session is left standing. *)
RenewedKeepingSession(row, password) ==
    [row EXCEPT !.hash = password, !.failed = 0, !.lockedUntil = NoLock]

(* The admin object as update_password leaves it. *)
Renewed(row, password) ==
    [row EXCEPT !.hash = password, !.failed = 0, !.lockedUntil = NoLock,
                !.jti = NoSession]

-----------------------------------------------------------------------------
ResetInit ==
    /\ OtpInit
    /\ history = {}
    /\ created = 0
    /\ step = [q \in Resets |-> "idle"]
    /\ view = [q \in Resets |-> NewAdmin]
    /\ resetEmail = [q \in Resets |-> CHOOSE e \in Emails : TRUE]
    /\ chosen = [q \in Resets |-> InitialPassword]
    /\ stamp = [q \in Resets |-> 0]
    /\ keep = [q \in Resets |-> {}]
    /\ aborts = 0

Goto(q, next) == step' = [step EXCEPT ![q] = next]

ResetOver(q) ==
    /\ Goto(q, "idle")
    /\ view' = [view EXCEPT ![q] = NewAdmin]
    /\ resetEmail' = [resetEmail EXCEPT ![q] = CHOOSE e \in Emails : TRUE]
    /\ chosen' = [chosen EXCEPT ![q] = InitialPassword]
    /\ stamp' = [stamp EXCEPT ![q] = 0]
    /\ keep' = [keep EXCEPT ![q] = {}]

(* POST /auth/update-password *)
ResetReadAdmin(q, e, password) ==
    /\ step[q] = "idle"
    /\ admin.status = "active"
    /\ Goto(q, "readOtp")
    /\ view' = [view EXCEPT ![q] = admin]
    /\ resetEmail' = [resetEmail EXCEPT ![q] = e]
    /\ chosen' = [chosen EXCEPT ![q] = password]
    /\ UNCHANGED <<vars, otpVars, history, created, stamp, keep, aborts>>

ResetReadOtp(q) ==
    LET row == otp[resetEmail[q]]
    IN  /\ step[q] = "readOtp"
        /\ IF row.verified /\ Usable(row, now)
           THEN /\ Goto(q, "readHistory")
                /\ UNCHANGED <<view, resetEmail, chosen, stamp, keep>>
           ELSE ResetOver(q)
        /\ UNCHANGED <<vars, otpVars, history, created, aborts>>

(* Defect: the password in use is not looked at. *)
ReusedInHistory(q) == chosen[q] \in {h.hash : h \in Recent(PasswordHistoryDepth)}

(* verify_password against the admin's hash and the recent entries. *)
Reused(q) ==
    chosen[q] \in {view[q].hash}
                  \cup {h.hash : h \in Recent(PasswordHistoryDepth)}

ResetReused(q) ==
    /\ step[q] = "readHistory"
    /\ Reused(q)
    /\ ResetOver(q)
    /\ UNCHANGED <<vars, otpVars, history, created, aborts>>

ResetReadHistory(q) ==
    /\ step[q] = "readHistory"
    /\ ~Reused(q)
    /\ created < MaxEntries
    /\ created' = created + 1
    /\ stamp' = [stamp EXCEPT ![q] = created + 1]
    /\ Goto(q, "addEntry")
    /\ UNCHANGED <<vars, otpVars, history, view, resetEmail, chosen, keep, aborts>>

(* The entry reset q added is among the rows. *)
EntryStored(q) == \E h \in history : h.createdAt = stamp[q]

(* Defect: the new password is remembered instead of the old. *)
ResetAddChosen(q) ==
    /\ step[q] = "addEntry"
    /\ history' = history \cup {[hash |-> chosen[q], createdAt |-> stamp[q]]}
    /\ Goto(q, "refreshEntry")
    /\ UNCHANGED <<vars, otpVars, created, view, resetEmail, chosen, stamp, keep,
                   aborts>>

ResetAddEntry(q) ==
    /\ step[q] = "addEntry"
    /\ history' = history \cup {[hash |-> view[q].hash, createdAt |-> stamp[q]]}
    /\ Goto(q, "refreshEntry")
    /\ UNCHANGED <<vars, otpVars, created, view, resetEmail, chosen, stamp, keep,
                   aborts>>

(* The entry is read back, and no longer found when the trim of another    *)
(* reset has deleted it: the refresh raises and the request fails.         *)
ResetRefreshEntry(q) ==
    /\ step[q] = "refreshEntry"
    /\ IF EntryStored(q)
       THEN /\ Goto(q, "readTrim")
            /\ UNCHANGED <<view, resetEmail, chosen, stamp, keep>>
       ELSE ResetOver(q)
    /\ UNCHANGED <<vars, otpVars, history, created, aborts>>

(* trim returns early when there is nothing to keep. *)
ResetReadTrim(q) ==
    /\ step[q] = "readTrim"
    /\ keep' = [keep EXCEPT ![q] = Recent(PasswordHistoryDepth)]
    /\ Goto(q, IF Recent(PasswordHistoryDepth) = {} THEN "store" ELSE "trim")
    /\ UNCHANGED <<vars, otpVars, history, created, view, resetEmail, chosen, stamp,
                   aborts>>

(* Defect: the entries to keep are the ones deleted. *)
ResetTrimKept(q) ==
    /\ step[q] = "trim"
    /\ history' = history \ keep[q]
    /\ Goto(q, "store")
    /\ UNCHANGED <<vars, otpVars, created, view, resetEmail, chosen, stamp, keep,
                   aborts>>

(* Defect: nothing is trimmed. *)
ResetTrimNothing(q) ==
    /\ step[q] = "trim"
    /\ Goto(q, "store")
    /\ UNCHANGED <<vars, otpVars, history, created, view, resetEmail, chosen,
                   stamp, keep, aborts>>

ResetTrim(q) ==
    /\ step[q] = "trim"
    /\ history' = history \cap keep[q]
    /\ Goto(q, "store")
    /\ UNCHANGED <<vars, otpVars, created, view, resetEmail, chosen, stamp, keep,
                   aborts>>

ResetStore(q) ==
    /\ step[q] = "store"
    /\ Store(Written(admin, view[q], Renewed(view[q], chosen[q])))
    /\ Goto(q, "deleteOtp")
    /\ UNCHANGED <<now, minted, requestVars, delivered, otpVars, history, created,
                   view, resetEmail, chosen, stamp, keep, aborts>>

(* Defect: the code stays. *)
ResetLeaveOtp(q) ==
    /\ step[q] = "deleteOtp"
    /\ ResetOver(q)
    /\ UNCHANGED <<vars, otpVars, history, created, aborts>>

ResetDeleteOtp(q) ==
    /\ step[q] = "deleteOtp"
    /\ otp' = [otp EXCEPT ![resetEmail[q]] = NoOtp]
    /\ ResetOver(q)
    /\ UNCHANGED <<vars, otpRequestVars, history, created, aborts>>

(* The connection or the process is lost; earlier commits stay. *)
ResetAbort(q) ==
    /\ step[q] # "idle"
    /\ aborts < MaxAborts
    /\ aborts' = aborts + 1
    /\ ResetOver(q)
    /\ UNCHANGED <<vars, otpVars, history, created>>

ResetStep(q) ==
    \/ \E e \in Emails, p \in Passwords : ResetReadAdmin(q, e, p)
    \/ ResetReadOtp(q)
    \/ ResetReused(q)
    \/ ResetReadHistory(q)
    \/ ResetAddEntry(q)
    \/ ResetRefreshEntry(q)
    \/ ResetReadTrim(q)
    \/ ResetTrim(q)
    \/ ResetStore(q)
    \/ ResetDeleteOtp(q)
    \/ ResetAbort(q)

ResetNext ==
    \/ \E q \in Resets : ResetStep(q)
    \/ OtpNext /\ UNCHANGED resetVars

ResetSpec == ResetInit /\ [][ResetNext]_allVars

-----------------------------------------------------------------------------
Steps == {"idle", "readOtp", "readHistory", "addEntry", "refreshEntry",
          "readTrim", "trim", "store", "deleteOtp"}

ResetTypeOK ==
    /\ TypeOK
    /\ OtpTypeOK
    /\ history \subseteq HistoryEntry
    /\ created \in 0..MaxEntries
    /\ step \in [Resets -> Steps]
    /\ view \in [Resets -> AdminRow]
    /\ resetEmail \in [Resets -> Emails]
    /\ chosen \in [Resets -> Passwords]
    /\ stamp \in [Resets -> 0..MaxEntries]
    /\ keep \in [Resets -> SUBSET HistoryEntry]
    /\ aborts \in 0..MaxAborts

(* Whatever logins ran meanwhile, the store of a reset takes away the      *)
(* session, the lock and the failures the reset saw when it read the       *)
(* admin: those columns are among the ones it writes (update_password,     *)
(* lines 254-258).                                                         *)
ResetClearsWhatItRead ==
    [][ \A q \in Resets : step[q] = "store" /\ step'[q] = "deleteOtp" =>
          /\ view[q].jti # NoSession => admin'.jti = NoSession
          /\ view[q].lockedUntil # NoLock => admin'.lockedUntil = NoLock
          /\ view[q].failed # 0 => admin'.failed = 0 ]_allVars

(* The history never outgrows its depth by more than the entries whose     *)
(* resets have not trimmed yet, and those of the resets cut short before   *)
(* their trim (password_history_repository.trim).                          *)
Untrimmed ==
    {q \in Resets : /\ step[q] \in {"refreshEntry", "readTrim", "trim"}
                   /\ EntryStored(q)}

HistoryBounded ==
    PasswordHistoryDepth > 0 =>
        Cardinality(history)
        <= PasswordHistoryDepth + aborts + Cardinality(Untrimmed)
=============================================================================
