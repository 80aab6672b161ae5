---------------------------- MODULE ResetHistory -----------------------------
(***************************************************************************)
(* PasswordReset watched by an observer that remembers the passwords the   *)
(* admin really had, the codes really sent and what each code was used     *)
(* for.  It never restrains a step: WatchedNext is ResetNext with the      *)
(* history variables filled in.                                            *)
(***************************************************************************)
EXTENDS PasswordReset, Sequences

VARIABLES
    past,       \* the passwords replaced so far, oldest first
    granted,    \* granted[e]: the codes sent to e since its row was deleted
    redeemed    \* redeemed[e]: password changes on the code last sent to e

watchVars == <<past, granted, redeemed>>

WatchedInit ==
    /\ ResetInit
    /\ past = <<>>
    /\ granted = [e \in Emails |-> {}]
    /\ redeemed = [e \in Emails |-> 0]

(* The next code sent to e: when, and the how many-eth it is. *)
Code(e, t) == [at |-> t, nth |-> Cardinality(granted[e]) + 1]

(* A commit that sends a code (a verification changes neither field),      *)
(* unless its row appeared or vanished.                                    *)
Grants(q) ==
    /\ \/ otpObject[q].requestCount # otpRead[q].requestCount
       \/ otpObject[q].windowStartedAt # otpRead[q].windowStartedAt
    /\ (otpStage[q] = "insert") = (otp[otpEmail[q]] = NoOtp)

RecordGrant(q) ==
    /\ IF Grants(q)
       THEN LET e == otpEmail[q]
                sentAt == otpObject[q].expiresAt - OtpExpiryMinutes
            IN  /\ granted' = [granted EXCEPT ![e] = @ \cup {Code(e, sentAt)}]
                /\ redeemed' = [redeemed EXCEPT ![e] = 0]
       ELSE UNCHANGED <<granted, redeemed>>
    /\ UNCHANGED past

RecordReset(q) ==
    /\ IF step[q] = "store" /\ step'[q] = "deleteOtp"
       THEN /\ past' = Append(past, admin.hash)
            /\ redeemed' = [redeemed EXCEPT ![resetEmail[q]] = @ + 1]
       ELSE UNCHANGED <<past, redeemed>>
    /\ granted' = [e \in Emails |-> IF otp'[e] = NoOtp THEN {} ELSE granted[e]]

WatchedNext ==
    \/ \E q \in Resets : ResetStep(q) /\ RecordReset(q)
    \/ \E q \in OtpRequests :
          \/ OtpCommit(q) /\ RecordGrant(q) /\ UNCHANGED resetVars
          \/ (OtpPrepare(q) \/ OtpAbort(q)) /\ UNCHANGED <<resetVars, watchVars>>
    \/ Next /\ UNCHANGED <<otpVars, resetVars, watchVars>>

WatchedSpec == WatchedInit /\ [][WatchedNext]_<<allVars, watchVars>>

-----------------------------------------------------------------------------
(* The passwords replaced last, at most n of them. *)
Latest(n) == {i \in DOMAIN past : i > Len(past) - n}
Previous(n) == {past[i] : i \in Latest(n)}

(* A new password is neither the one it replaces nor one of the previous   *)
(* ones that settings tell to remember (update_password, PasswordReuse-    *)
(* Error: "New password must not match a previous password").              *)
NoRecentReuse ==
    [][ past' # past => admin'.hash \notin {admin.hash}
                                     \cup Previous(PasswordHistoryDepth) ]_<<
        allVars, watchVars>>

(* Between resets the history holds the latest replaced passwords, in the  *)
(* order they were replaced, and no more of them than settings say.        *)
HistoryIsPast ==
    (\A q \in Resets : step[q] = "idle") =>
        history = {[hash |-> past[i], createdAt |-> i] :
                     i \in Latest(PasswordHistoryDepth)}

(* However resets race, the history holds only passwords the admin has or  *)
(* had: never one that was chosen and refused, or lost on the way          *)
(* (update_password, line 252).                                            *)
HistoryIsReal ==
    \A h \in history : h.hash = admin.hash \/ \E i \in DOMAIN past : past[i] = h.hash

(* A verified code changes the password at most once: the row is removed   *)
(* "after a successful reset (single-use)" (otp_repository.delete).        *)
OtpSingleUse == \A e \in Emails : redeemed[e] <= 1

(* Resets that race may change the password on one code, but no more of    *)
(* them than are served at once, and one more for every reset cut short    *)
(* before it deleted the row (update_password, lines 242-260).             *)
RedeemedByRaceOnly ==
    \A e \in Emails : redeemed[e] <= Cardinality(Resets) + aborts

(* In the window a row speaks of, and until a finished reset deletes the   *)
(* row, no more codes are sent than the throttle allows (generate_otp,     *)
(* OtpThrottledError).                                                     *)
CodesThrottled ==
    \A e \in Emails : otp[e] # NoOtp =>
        Cardinality({c \in granted[e] : c.at >= otp[e].windowStartedAt})
        <= OtpMaxRequests

(* A reset leaves the account unlocked, with no failures counted and no    *)
(* session: test_update_password_success_clears_lockout_and_session.       *)
ResetClearsAccount ==
    [][ past' # past => /\ admin'.failed = 0
                        /\ admin'.lockedUntil = NoLock
                        /\ admin'.jti = NoSession ]_<<allVars, watchVars>>

(* Trimming spares the most recent entries: "Delete all but the keep most  *)
(* recent entries for an admin" (password_history_repository.trim).        *)
TrimSparesRecent ==
    [][ \A q \in Resets : step[q] = "trim" /\ step'[q] = "store"
          => Recent(PasswordHistoryDepth) \subseteq history' ]_<<
        allVars, watchVars>>
=============================================================================
