----------------------------- MODULE OtpService ------------------------------
(***************************************************************************)
(* Requesting and verifying the one-time code of a password reset:         *)
(* generate_otp and verify_otp of app/services/auth_service.py over the    *)
(* rows of password_reset_otps, beside the logins of AuthService.          *)
(*                                                                         *)
(* A row is keyed by the email as the client spelled it, while the admin   *)
(* behind it is looked up ignoring case, so one admin can have a row for   *)
(* each spelling.  A request reads the admin, then its row, decides, and   *)
(* in a last step commits the columns it changed.                          *)
(***************************************************************************)
EXTENDS AuthService

CONSTANTS
    OtpRequests,            \* slots serving generate_otp and verify_otp
    Emails,                 \* spellings of the admin's email
    OtpExpiryMinutes,       \* settings.otp_expiry_minutes
    OtpThrottleWindow,      \* settings.otp_throttle_window_minutes
    OtpMaxRequests          \* settings.otp_max_requests_per_window

ASSUME EmailsAssumption == Emails # {}
ASSUME OtpSettingsAssumption ==
    /\ OtpExpiryMinutes \in Nat
    /\ OtpThrottleWindow \in Nat
    /\ OtpMaxRequests \in Nat \ {0}

OtpRow == [expiresAt : Nat, requestCount : Nat, windowStartedAt : Nat,
           verified : BOOLEAN]

(* No row under this key.  A stored row counts at least one request. *)
NoOtp == [expiresAt |-> 0, requestCount |-> 0, windowStartedAt |-> 0,
          verified |-> FALSE]

VARIABLES
    otp,        \* otp[e]: the stored row of spelling e, or NoOtp
    otpStage,   \* otpStage[q]: where request q is
    otpEmail,   \* otpEmail[q]: the spelling request q is about
    otpClock,   \* otpClock[q]: the time request q took before it read the row
    otpRead,    \* otpRead[q]: the row as request q read it
    otpObject   \* otpObject[q]: the ORM object of request q, as assigned

otpRequestVars == <<otpStage, otpEmail, otpClock, otpRead, otpObject>>
otpVars == <<otp, otpRequestVars>>

-----------------------------------------------------------------------------
FirstIssue(t) ==
    [expiresAt |-> t + OtpExpiryMinutes, requestCount |-> 1,
     windowStartedAt |-> t, verified |-> FALSE]

WindowOver(row, t) == t >= row.windowStartedAt + OtpThrottleWindow

(* Defect: one request too many is let through. *)
ThrottledLate(row, t) == ~WindowOver(row, t) /\ row.requestCount > OtpMaxRequests

Throttled(row, t) == ~WindowOver(row, t) /\ row.requestCount >= OtpMaxRequests

(* The row after one more code is sent at time t. *)
Reissued(row, t) ==
    IF WindowOver(row, t) THEN FirstIssue(t)
    ELSE [row EXCEPT !.requestCount = row.requestCount + 1,
                     !.expiresAt = t + OtpExpiryMinutes,
                     !.verified = FALSE]

Usable(row, t) == row # NoOtp /\ t < row.expiresAt

WrittenOtp(stored, read, assigned) ==
    [expiresAt       |-> Column(stored.expiresAt, read.expiresAt,
                                assigned.expiresAt),
     requestCount    |-> Column(stored.requestCount, read.requestCount,
                                assigned.requestCount),
     windowStartedAt |-> Column(stored.windowStartedAt, read.windowStartedAt,
                                assigned.windowStartedAt),
     verified        |-> Column(stored.verified, read.verified,
                                assigned.verified)]

-----------------------------------------------------------------------------
OtpInit ==
    /\ Init
    /\ otp = [e \in Emails |-> NoOtp]
    /\ otpStage = [q \in OtpRequests |-> "idle"]
    /\ otpEmail = [q \in OtpRequests |-> CHOOSE e \in Emails : TRUE]
    /\ otpClock = [q \in OtpRequests |-> 0]
    /\ otpRead = [q \in OtpRequests |-> NoOtp]
    /\ otpObject = [q \in OtpRequests |-> NoOtp]

(* An inactive admin is answered without a trace. *)
OtpReadAdmin(q, e) ==
    /\ otpStage[q] = "idle"
    /\ admin.status = "active"
    /\ otpStage' = [otpStage EXCEPT ![q] = "readRow"]
    /\ otpEmail' = [otpEmail EXCEPT ![q] = e]
    /\ otpClock' = [otpClock EXCEPT ![q] = now]
    /\ UNCHANGED <<vars, otp, otpRead, otpObject>>

RowOf(q) == otp[otpEmail[q]]

(* Request q reads its row and goes on to commit row. *)
OtpReadRow(q, row, next) ==
    /\ otpStage[q] = "readRow"
    /\ otpStage' = [otpStage EXCEPT ![q] = next]
    /\ otpClock' = [otpClock EXCEPT ![q] = 0]
    /\ otpRead' = [otpRead EXCEPT ![q] = RowOf(q)]
    /\ otpObject' = [otpObject EXCEPT ![q] = row]
    /\ UNCHANGED <<vars, otp, otpEmail>>

(* POST /auth/generate-otp, by the time taken before the row was read. *)
GenerateOtp(q) ==
    /\ RowOf(q) = NoOtp
    /\ OtpReadRow(q, FirstIssue(otpClock[q]), "insert")

RegenerateOtp(q) ==
    /\ RowOf(q) # NoOtp
    /\ ~Throttled(RowOf(q), otpClock[q])
    /\ OtpReadRow(q, Reissued(RowOf(q), otpClock[q]), "update")

(* POST /auth/verify-otp with the code that was sent. *)
VerifyOtp(q) ==
    /\ Usable(RowOf(q), now)
    /\ OtpReadRow(q, [RowOf(q) EXCEPT !.verified = TRUE], "update")

OtpDone(q) ==
    /\ otpStage' = [otpStage EXCEPT ![q] = "idle"]
    /\ otpEmail' = [otpEmail EXCEPT ![q] = CHOOSE e \in Emails : TRUE]
    /\ otpClock' = [otpClock EXCEPT ![q] = 0]
    /\ otpRead' = [otpRead EXCEPT ![q] = NoOtp]
    /\ otpObject' = [otpObject EXCEPT ![q] = NoOtp]

(* Too many codes, or a code that is not to be verified. *)
OtpRefuse(q) ==
    /\ otpStage[q] = "readRow"
    /\ \/ RowOf(q) # NoOtp /\ Throttled(RowOf(q), otpClock[q])
       \/ ~Usable(RowOf(q), now)
    /\ OtpDone(q)
    /\ UNCHANGED <<vars, otp>>

(* INSERT, unless another request was first: the primary key then makes it *)
(* a conflict (409).                                                       *)
OtpInsert(q) ==
    LET e == otpEmail[q]
    IN  /\ otpStage[q] = "insert"
        /\ otp' = IF otp[e] = NoOtp THEN [otp EXCEPT ![e] = otpObject[q]] ELSE otp
        /\ OtpDone(q)
        /\ UNCHANGED vars

(* UPDATE of the changed columns.  When a finished reset has deleted the   *)
(* row meanwhile, the ORM finds no row to update and the request fails.    *)
OtpUpdate(q) ==
    LET e == otpEmail[q]
    IN  /\ otpStage[q] = "update"
        /\ otp' = IF otp[e] = NoOtp THEN otp
                  ELSE [otp EXCEPT ![e] = WrittenOtp(otp[e], otpRead[q],
                                                     otpObject[q])]
        /\ OtpDone(q)
        /\ UNCHANGED vars

OtpAbort(q) ==
    /\ otpStage[q] # "idle"
    /\ OtpDone(q)
    /\ UNCHANGED <<vars, otp>>

OtpPrepare(q) ==
    \/ \E e \in Emails : OtpReadAdmin(q, e)
    \/ GenerateOtp(q) \/ RegenerateOtp(q) \/ VerifyOtp(q) \/ OtpRefuse(q)

OtpCommit(q) == OtpInsert(q) \/ OtpUpdate(q)

OtpStep(q) == OtpPrepare(q) \/ OtpCommit(q) \/ OtpAbort(q)

OtpNext ==
    \/ \E q \in OtpRequests : OtpStep(q)
    \/ Next /\ UNCHANGED otpVars

OtpSpec == OtpInit /\ [][OtpNext]_<<vars, otpVars>>

-----------------------------------------------------------------------------
OtpTypeOK ==
    /\ otp \in [Emails -> OtpRow]
    /\ otpStage \in [OtpRequests -> {"idle", "readRow", "insert", "update"}]
    /\ otpEmail \in [OtpRequests -> Emails]
    /\ otpClock \in [OtpRequests -> 0..MaxTime]
    /\ otpRead \in [OtpRequests -> OtpRow]
    /\ otpObject \in [OtpRequests -> OtpRow]

(* No row ever counts more requests than the window allows, whatever       *)
(* requests race, so the throttle always comes to bite (generate_otp,      *)
(* lines 208-220).                                                         *)
RequestCountWithinLimit ==
    \A e \in Emails : otp[e].requestCount <= OtpMaxRequests
=============================================================================
