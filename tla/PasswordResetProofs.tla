------------------------- MODULE PasswordResetProofs -------------------------
(***************************************************************************)
(* Theorems about PasswordReset, with the logins and the codes beside it,  *)
(* for any number of concurrent requests and any settings.  The session    *)
(* pointer rests on IndInv of AuthService, kept here by the resets too;    *)
(* the throttle on the counts in flight.                                   *)
(***************************************************************************)
EXTENDS PasswordReset, AuthServiceProofs, FiniteSetTheorems, WellFoundedInduction

(* The counts a request has in hand are within the limit as well. *)
CountsInFlight ==
    \A q \in OtpRequests : otpObject[q].requestCount <= OtpMaxRequests

(* What every step of the resets, the codes and the logins keeps. *)
ResetInv ==
    /\ ResetTypeOK
    /\ IndInv
    /\ RequestCountWithinLimit
    /\ CountsInFlight

-----------------------------------------------------------------------------
LEMMA SomeEmail == (CHOOSE e \in Emails : TRUE) \in Emails
BY EmailsAssumption

LEMMA NoOtpRow == NoOtp \in OtpRow /\ NoOtp.requestCount = 0
BY DEF NoOtp, OtpRow

(* The rows a request for a code computes are rows within the limit. *)
LEMMA IssuedRows ==
    ASSUME NEW row \in OtpRow, NEW t \in Nat
    PROVE  /\ FirstIssue(t) \in OtpRow
           /\ FirstIssue(t).requestCount <= OtpMaxRequests
           /\ Reissued(row, t) \in OtpRow
           /\ ~Throttled(row, t) => Reissued(row, t).requestCount <= OtpMaxRequests
           /\ [row EXCEPT !.verified = TRUE] \in OtpRow
           /\ [row EXCEPT !.verified = TRUE].requestCount = row.requestCount
<1>1. /\ t + OtpExpiryMinutes \in Nat
      /\ OtpMaxRequests \in Nat /\ OtpMaxRequests > 0
      /\ row.requestCount \in Nat
  BY OtpSettingsAssumption DEF OtpRow
<1>2. FirstIssue(t) \in OtpRow /\ FirstIssue(t).requestCount = 1
  BY <1>1 DEF FirstIssue, OtpRow
<1>3. CASE WindowOver(row, t)
  <2>1. Reissued(row, t) = FirstIssue(t)
    BY <1>3 DEF Reissued
  <2>2. [row EXCEPT !.verified = TRUE] \in OtpRow
        /\ [row EXCEPT !.verified = TRUE].requestCount = row.requestCount
    BY DEF OtpRow
  <2> QED  BY <1>1, <1>2, <2>1, <2>2
<1>4. CASE ~WindowOver(row, t)
  <2> DEFINE count == [row EXCEPT !.requestCount = row.requestCount + 1,
                                  !.expiresAt = t + OtpExpiryMinutes,
                                  !.verified = FALSE]
  <2>1. count \in OtpRow /\ count.requestCount = row.requestCount + 1
    <3>1. row.requestCount + 1 \in Nat
      BY <1>1
    <3>2. \A n, m \in Nat : LET r == [row EXCEPT !.requestCount = n,
                                       !.expiresAt = m, !.verified = FALSE]
                          IN  r \in OtpRow /\ r.requestCount = n
      BY DEF OtpRow
    <3> QED  BY <1>1, <3>1, <3>2
  <2>2. Reissued(row, t) = count
    BY <1>4 DEF Reissued
  <2>3. ~Throttled(row, t) => row.requestCount < OtpMaxRequests
    BY <1>1, <1>4 DEF Throttled
  <2> HIDE DEF count
  <2>4. ~Throttled(row, t) => count.requestCount <= OtpMaxRequests
    BY <1>1, <2>1, <2>3
  <2>5. [row EXCEPT !.verified = TRUE] \in OtpRow
        /\ [row EXCEPT !.verified = TRUE].requestCount = row.requestCount
    BY DEF OtpRow
  <2>6. FirstIssue(t).requestCount <= OtpMaxRequests
    BY <1>1, <1>2
  <2> QED  BY <1>2, <2>1, <2>2, <2>4, <2>5, <2>6
<1> QED  BY <1>3, <1>4

LEMMA WrittenOtpRow ==
    ASSUME NEW stored \in OtpRow, NEW read \in OtpRow, NEW assigned \in OtpRow
    PROVE  /\ WrittenOtp(stored, read, assigned) \in OtpRow
           /\ WrittenOtp(stored, read, assigned).requestCount
                \in {stored.requestCount, assigned.requestCount}
BY DEF WrittenOtp, Column, OtpRow

-----------------------------------------------------------------------------
LEMMA ResetInvInit == ResetInit => ResetInv
<1> SUFFICES ASSUME ResetInit PROVE ResetInv
  OBVIOUS
<1>1. IndInv
  BY InitIndInv DEF ResetInit, OtpInit
<1>2. OtpTypeOK
  BY NoOtpRow, SomeEmail, BoundsAssumption DEF ResetInit, OtpInit, OtpTypeOK
<1>3. ResetTypeOK
  BY <1>1, <1>2, NewAdminRow, SomeEmail, HistoryAssumption, PasswordsAssumption
     DEF ResetInit, ResetTypeOK, Steps, IndInv
<1>4. RequestCountWithinLimit /\ CountsInFlight
  BY NoOtpRow, OtpSettingsAssumption
     DEF ResetInit, OtpInit, RequestCountWithinLimit, CountsInFlight
<1> QED  BY <1>1, <1>3, <1>4 DEF ResetInv

-----------------------------------------------------------------------------
(* A step that leaves the row and the requests of AuthService alone keeps  *)
(* what is said of them.                                                   *)
LEMMA AuthUntouched ==
    ASSUME IndInv, UNCHANGED vars
    PROVE  IndInv'
BY NextKeepsIndInv

LEMMA ResetUntouched ==
    ASSUME ResetTypeOK, TypeOK', OtpTypeOK', UNCHANGED resetVars
    PROVE  ResetTypeOK'
BY DEF ResetTypeOK, resetVars

(* A request for a code drops its object, the row written being within the *)
(* limit.                                                                  *)
LEMMA OtpDoneKeepsCodes ==
    ASSUME ResetInv, NEW q \in OtpRequests, OtpDone(q), UNCHANGED vars,
           otp' \in [Emails -> OtpRow],
           \A e \in Emails : otp'[e].requestCount <= OtpMaxRequests
    PROVE  OtpTypeOK' /\ RequestCountWithinLimit' /\ CountsInFlight'
<1>1. OtpTypeOK'
  BY NoOtpRow, SomeEmail, BoundsAssumption
     DEF OtpDone, OtpTypeOK, ResetInv, ResetTypeOK
<1>2. RequestCountWithinLimit'
  BY DEF RequestCountWithinLimit
<1>3. CountsInFlight'
  BY NoOtpRow, OtpSettingsAssumption
     DEF OtpDone, CountsInFlight, ResetInv, ResetTypeOK, OtpTypeOK
<1> QED  BY <1>1, <1>2, <1>3

(* Every step of a request for a code keeps the counts within the limit.   *)
LEMMA OtpStepKeepsCodes ==
    ASSUME ResetInv, NEW q \in OtpRequests, OtpStep(q)
    PROVE  OtpTypeOK' /\ RequestCountWithinLimit' /\ CountsInFlight' /\ UNCHANGED vars
<1> USE DEF ResetInv, ResetTypeOK
<1>1. /\ now \in Nat /\ otpClock[q] \in Nat
      /\ otpEmail[q] \in Emails /\ RowOf(q) \in OtpRow
  BY BoundsAssumption DEF TypeOK, OtpTypeOK, RowOf
<1>2. OtpMaxRequests \in Nat
  BY OtpSettingsAssumption
<1>3. ASSUME NEW row \in OtpRow, NEW next \in {"insert", "update"},
             row.requestCount <= OtpMaxRequests, OtpReadRow(q, row, next)
      PROVE  OtpTypeOK' /\ RequestCountWithinLimit' /\ CountsInFlight'
             /\ UNCHANGED vars
  <2>1. OtpTypeOK'
    BY <1>1, <1>3, BoundsAssumption DEF OtpReadRow, OtpTypeOK
  <2>2. RequestCountWithinLimit' /\ UNCHANGED vars
    BY <1>3 DEF OtpReadRow, RequestCountWithinLimit
  <2>3. CountsInFlight'
    BY <1>3 DEF OtpReadRow, CountsInFlight, OtpTypeOK
  <2> QED  BY <2>1, <2>2, <2>3
<1>4. ASSUME GenerateOtp(q)
      PROVE  OtpTypeOK' /\ RequestCountWithinLimit' /\ CountsInFlight'
             /\ UNCHANGED vars
  BY <1>1, <1>3, <1>4, IssuedRows DEF GenerateOtp
<1>5. ASSUME RegenerateOtp(q)
      PROVE  OtpTypeOK' /\ RequestCountWithinLimit' /\ CountsInFlight'
             /\ UNCHANGED vars
  BY <1>1, <1>3, <1>5, IssuedRows DEF RegenerateOtp
<1>6. ASSUME VerifyOtp(q)
      PROVE  OtpTypeOK' /\ RequestCountWithinLimit' /\ CountsInFlight'
             /\ UNCHANGED vars
  BY <1>1, <1>3, <1>6, IssuedRows DEF VerifyOtp, RequestCountWithinLimit, RowOf
<1>8. ASSUME NEW e \in Emails, OtpReadAdmin(q, e)
      PROVE  OtpTypeOK' /\ RequestCountWithinLimit' /\ CountsInFlight'
             /\ UNCHANGED vars
  BY <1>8 DEF OtpReadAdmin, OtpTypeOK, TypeOK, RequestCountWithinLimit,
       CountsInFlight
<1>7. ASSUME OtpCommit(q) \/ OtpAbort(q) \/ OtpRefuse(q)
      PROVE  OtpTypeOK' /\ RequestCountWithinLimit' /\ CountsInFlight'
             /\ UNCHANGED vars
  <2> DEFINE e == otpEmail[q]
             row == WrittenOtp(otp[e], otpRead[q], otpObject[q])
  <2>1. /\ e \in Emails
        /\ otpObject[q] \in OtpRow /\ otpObject[q].requestCount <= OtpMaxRequests
        /\ row \in OtpRow /\ row.requestCount <= OtpMaxRequests
    BY WrittenOtpRow DEF OtpTypeOK, CountsInFlight, RequestCountWithinLimit
  <2>2. OtpDone(q) /\ UNCHANGED vars
    BY <1>7 DEF OtpCommit, OtpInsert, OtpUpdate, OtpAbort, OtpRefuse
  <2>3. \/ otp' = otp
        \/ otp' = [otp EXCEPT ![e] = otpObject[q]]
        \/ otp' = [otp EXCEPT ![e] = row]
    BY <1>7 DEF OtpCommit, OtpInsert, OtpUpdate, OtpAbort, OtpRefuse
  <2> HIDE DEF e, row
  <2>4. /\ otp' \in [Emails -> OtpRow]
        /\ \A f \in Emails : otp'[f].requestCount <= OtpMaxRequests
    BY <2>1, <2>3 DEF OtpTypeOK, RequestCountWithinLimit
  <2> QED  BY <2>2, <2>4, OtpDoneKeepsCodes
<1> QED  BY <1>4, <1>5, <1>6, <1>7, <1>8 DEF OtpStep, OtpPrepare

LEMMA CodesUntouched ==
    ASSUME ResetInv, UNCHANGED otpVars
    PROVE  OtpTypeOK' /\ RequestCountWithinLimit' /\ CountsInFlight'
BY DEF ResetInv, ResetTypeOK, otpVars, otpRequestVars, OtpTypeOK,
       RequestCountWithinLimit, CountsInFlight

-----------------------------------------------------------------------------
(* What a reset saves: it can only clear the pointer and the counter of    *)
(* the stored row, or leave them.                                          *)
LEMMA RenewedRow ==
    ASSUME NEW stored \in AdminRow, NEW read \in AdminRow, NEW p \in Passwords
    PROVE  LET row == Written(stored, read, Renewed(read, p))
           IN  /\ row \in AdminRow
               /\ row.jti \in {stored.jti, NoSession}
               /\ row.failed \in {stored.failed, 0}
               /\ read.jti # NoSession => row.jti = NoSession
               /\ read.lockedUntil # NoLock => row.lockedUntil = NoLock
               /\ read.failed # 0 => row.failed = 0
<1> DEFINE renewed == Renewed(read, p)
<1>1. /\ renewed \in AdminRow /\ renewed.jti = NoSession
      /\ renewed.failed = 0 /\ renewed.lockedUntil = NoLock
  BY DEF Renewed, AdminRow, NoSession, NoLock
<1> HIDE DEF renewed
<1>2. /\ Written(stored, read, renewed).failed
           = Column(stored.failed, read.failed, renewed.failed)
      /\ Written(stored, read, renewed).lockedUntil
           = Column(stored.lockedUntil, read.lockedUntil, renewed.lockedUntil)
  BY DEF Written
<1> QED  BY <1>1, <1>2, WrittenRow DEF Column, renewed

(* The store of a reset keeps what AuthService rests on: it never brings a *)
(* session into play.                                                      *)
LEMMA StoreKeepsIndInv ==
    ASSUME ResetInv, NEW q \in Resets, ResetStore(q)
    PROVE  IndInv'
<1> USE DEF ResetInv, ResetTypeOK, IndInv
<1> DEFINE row == Written(admin, view[q], Renewed(view[q], chosen[q]))
<1>1. admin \in AdminRow /\ view[q] \in AdminRow /\ chosen[q] \in Passwords
  BY DEF TypeOK
<1>2. /\ row \in AdminRow
      /\ row.jti \in {admin.jti, NoSession} /\ row.failed \in {admin.failed, 0}
  BY <1>1, RenewedRow
<1>3. /\ admin' = row
      /\ retired' = IF row.jti = admin.jti THEN retired
                    ELSE retired \cup ({admin.jti} \ {NoSession})
      /\ UNCHANGED <<now, minted, requestVars, delivered>>
  BY DEF ResetStore, Store
<1> HIDE DEF row
<1>4. /\ admin.jti \in SessionIds \cup {NoSession} /\ admin.jti <= minted
      /\ NoSession \notin retired /\ minted \in Nat
  BY <1>1, BoundsAssumption
     DEF AdminRow, SessionsStoredOnce, TypeOK, SessionIds, NoSession
<1>5. {admin.jti} \ {NoSession} \subseteq SessionIds \cap 1..minted
  BY <1>4, BoundsAssumption DEF SessionIds, NoSession
<1>6. TypeOK'
  BY <1>2, <1>3, <1>5 DEF TypeOK, requestVars
<1>7. RetiredNeverCurrent'
  BY <1>2, <1>3, <1>4 DEF RetiredNeverCurrent
<1>8. SessionsStoredOnce'
  <2>1. admin'.jti <= minted' /\ retired' \subseteq 1..minted'
    <3>1. retired \subseteq 1..minted
      BY DEF SessionsStoredOnce
    <3>2. admin'.jti <= minted'
      BY <1>2, <1>3, <1>4 DEF NoSession
    <3>3. retired' \subseteq 1..minted'
      BY <1>3, <1>5, <3>1
    <3> QED  BY <3>2, <3>3
  <2>2. ASSUME NEW r \in Requests, Carries(r)'
        PROVE  /\ object'[r].jti <= minted'
               /\ object'[r].jti \notin retired' \cup {admin'.jti}
               /\ \A p \in Requests \ {r} : object'[p].jti # object'[r].jti
                                            \/ ~Carries(p)'
    <3>1. Carries(r) /\ object' = object /\ loaded' = loaded
      BY <1>3, <2>2 DEF Carries, requestVars
    <3>2. object[r].jti \notin retired \cup {admin.jti, NoSession}
      BY <3>1 DEF Carries, SessionsStoredOnce
    <3> QED
      BY <1>2, <1>3, <3>1, <3>2 DEF Carries, SessionsStoredOnce
  <2> QED  BY <2>1, <2>2 DEF SessionsStoredOnce
<1>9. CounterBelowLimit' /\ ObjectsBelowLimit'
  BY <1>2, <1>3, MaxFailedAssumption
     DEF CounterBelowLimit, ObjectsBelowLimit, requestVars
<1> QED  BY <1>6, <1>7, <1>8, <1>9

(* The variables of the resets keep their types. *)
LEMMA ResetStepTypes ==
    ASSUME ResetInv, NEW q \in Resets, ResetStep(q), TypeOK', OtpTypeOK'
    PROVE  ResetTypeOK'
<1> USE DEF ResetInv, ResetTypeOK
<1>1. admin \in AdminRow /\ created \in Nat
  BY HistoryAssumption DEF TypeOK
<1>2. CASE \E e \in Emails, p \in Passwords : ResetReadAdmin(q, e, p)
  BY <1>1, <1>2 DEF ResetReadAdmin, Goto, Steps
<1>3. ASSUME ResetOver(q), aborts' \in 0..MaxAborts,
             UNCHANGED <<history, created>>
      PROVE  ResetTypeOK'
  BY <1>3, NewAdminRow, SomeEmail, PasswordsAssumption, HistoryAssumption
     DEF ResetOver, Goto, Steps
<1>4. CASE ResetReadOtp(q)
  BY <1>3, <1>4 DEF ResetReadOtp, Goto, Steps
<1>5. CASE ResetReused(q)
  BY <1>3, <1>5 DEF ResetReused
<1>6. CASE ResetReadHistory(q)
  BY <1>1, <1>6, HistoryAssumption DEF ResetReadHistory, Goto, Steps
<1>7. CASE ResetAddEntry(q)
  BY <1>7, HistoryAssumption DEF ResetAddEntry, Goto, Steps, HistoryEntry, AdminRow
<1>8. CASE ResetReadTrim(q)
  <2>1. Recent(PasswordHistoryDepth) \subseteq HistoryEntry
    BY DEF Recent
  <2> QED  BY <1>8, <2>1 DEF ResetReadTrim, Goto, Steps
<1>9. CASE ResetTrim(q)
  BY <1>9 DEF ResetTrim, Goto, Steps
<1>10. CASE ResetStore(q)
  BY <1>10 DEF ResetStore, Goto, Steps
<1>11. CASE ResetDeleteOtp(q)
  BY <1>3, <1>11 DEF ResetDeleteOtp
<1>12. CASE ResetAbort(q)
  BY <1>3, <1>12, HistoryAssumption DEF ResetAbort
<1>13. CASE ResetRefreshEntry(q)
  BY <1>3, <1>13 DEF ResetRefreshEntry, Goto, Steps
<1> QED
  BY <1>2, <1>4, <1>5, <1>6, <1>7, <1>8, <1>9, <1>10, <1>11, <1>12, <1>13
     DEF ResetStep

(* A reset touches neither the requests of AuthService nor the codes,      *)
(* except where it stores the password and deletes the code.               *)
LEMMA ResetStepFrame ==
    ASSUME NEW q \in Resets, ResetStep(q)
    PROVE  /\ ResetStore(q) \/ UNCHANGED vars
           /\ ResetDeleteOtp(q) \/ UNCHANGED otpVars
<1>1. CASE ResetStore(q)
  BY <1>1 DEF ResetStore
<1>2. CASE ResetDeleteOtp(q)
  BY <1>2 DEF ResetDeleteOtp
<1> QED
  BY <1>1, <1>2 DEF ResetStep, ResetReadAdmin, ResetReadOtp, ResetReused,
       ResetReadHistory, ResetAddEntry, ResetRefreshEntry, ResetReadTrim,
       ResetTrim, ResetAbort

LEMMA ResetStepKeepsInv ==
    ASSUME ResetInv, NEW q \in Resets, ResetStep(q)
    PROVE  ResetInv'
<1>1. IndInv'
  BY ResetStepFrame, StoreKeepsIndInv, AuthUntouched DEF ResetInv
<1>2. OtpTypeOK' /\ RequestCountWithinLimit' /\ CountsInFlight'
  <2>1. CASE UNCHANGED otpVars
    BY <2>1, CodesUntouched
  <2>2. CASE ResetDeleteOtp(q)
    <3>1. /\ resetEmail[q] \in Emails /\ otp \in [Emails -> OtpRow]
          /\ otp' = [otp EXCEPT ![resetEmail[q]] = NoOtp]
          /\ UNCHANGED otpRequestVars
      BY <2>2 DEF ResetDeleteOtp, ResetInv, ResetTypeOK, OtpTypeOK
    <3>2. OtpTypeOK'
      BY <3>1, NoOtpRow DEF ResetInv, ResetTypeOK, OtpTypeOK, otpRequestVars
    <3>3. RequestCountWithinLimit' /\ CountsInFlight'
      BY <3>1, NoOtpRow, OtpSettingsAssumption
         DEF ResetInv, RequestCountWithinLimit, CountsInFlight, otpRequestVars
    <3> QED  BY <3>2, <3>3
  <2> QED  BY <2>1, <2>2, ResetStepFrame
<1>3. ResetTypeOK'
  BY <1>1, <1>2, ResetStepTypes DEF IndInv
<1> QED  BY <1>1, <1>2, <1>3 DEF ResetInv

LEMMA OtpNextKeepsInv ==
    ASSUME ResetInv, OtpNext, UNCHANGED resetVars
    PROVE  ResetInv'
<1>1. ASSUME NEW q \in OtpRequests, OtpStep(q)
      PROVE  ResetInv'
  <2>1. OtpTypeOK' /\ RequestCountWithinLimit' /\ CountsInFlight' /\ UNCHANGED vars
    BY <1>1, OtpStepKeepsCodes
  <2>2. IndInv'
    BY <2>1, AuthUntouched DEF ResetInv
  <2>3. ResetTypeOK'
    BY <2>1, <2>2, ResetUntouched DEF ResetInv, IndInv
  <2> QED  BY <2>1, <2>2, <2>3 DEF ResetInv
<1>2. CASE Next /\ UNCHANGED otpVars
  <2>1. IndInv'
    BY <1>2, NextKeepsIndInv DEF ResetInv
  <2>2. OtpTypeOK' /\ RequestCountWithinLimit' /\ CountsInFlight'
    BY <1>2, CodesUntouched
  <2>3. ResetTypeOK'
    BY <2>1, <2>2, ResetUntouched DEF ResetInv, IndInv
  <2> QED  BY <2>1, <2>2, <2>3 DEF ResetInv
<1> QED  BY <1>1, <1>2 DEF OtpNext

LEMMA ResetNextKeepsInv == ResetInv /\ [ResetNext]_allVars => ResetInv'
<1> SUFFICES ASSUME ResetInv, [ResetNext]_allVars PROVE ResetInv'
  OBVIOUS
<1>1. CASE UNCHANGED allVars
  <2>1. UNCHANGED vars /\ UNCHANGED otpVars /\ UNCHANGED resetVars
    BY <1>1 DEF allVars
  <2>2. IndInv' /\ OtpTypeOK' /\ RequestCountWithinLimit' /\ CountsInFlight'
    BY <2>1, AuthUntouched, CodesUntouched DEF ResetInv
  <2>3. ResetTypeOK'
    BY <2>1, <2>2, ResetUntouched DEF ResetInv, IndInv
  <2> QED  BY <2>2, <2>3 DEF ResetInv
<1> QED  BY <1>1, ResetStepKeepsInv, OtpNextKeepsInv DEF ResetNext

LEMMA AlwaysResetInv == ResetSpec => []ResetInv
BY ResetInvInit, ResetNextKeepsInv, PTL DEF ResetSpec

(* Every variable keeps its type, resets, codes and logins together. *)
THEOREM ResetTypesHold == ResetSpec => []ResetTypeOK
BY AlwaysResetInv, PTL DEF ResetInv

(* With resets racing the logins, a session that was replaced, logged out  *)
(* or ended by a reset never validates again, and the failure counter      *)
(* stays below its limit.                                                  *)
THEOREM ResetsReviveNoSession == ResetSpec => [](RetiredNeverCurrent /\ CounterBelowLimit)
BY AlwaysResetInv, PTL DEF ResetInv, IndInv

(* No row counts more requests for a code than the window allows, for any  *)
(* limit and any number of requests racing.                                *)
THEOREM CountsStayWithinLimit == ResetSpec => []RequestCountWithinLimit
BY AlwaysResetInv, PTL DEF ResetInv

-----------------------------------------------------------------------------
(* The store of a reset clears the columns it read, whatever was committed *)
(* in between.                                                             *)
THEOREM StoreClearsWhatItRead == ResetSpec => ResetClearsWhatItRead
<1>1. ASSUME ResetInv, [ResetNext]_allVars, NEW q \in Resets,
             step[q] = "store", step'[q] = "deleteOtp"
      PROVE  /\ view[q].jti # NoSession => admin'.jti = NoSession
             /\ view[q].lockedUntil # NoLock => admin'.lockedUntil = NoLock
             /\ view[q].failed # 0 => admin'.failed = 0
  <2>1. step' # step
    BY <1>1
  <2>2. PICK p \in Resets : ResetStep(p)
    BY <1>1, <2>1 DEF ResetNext, allVars, resetVars
  <2>3. \E next \in Steps : step' = [step EXCEPT ![p] = next]
    BY <2>2 DEF ResetStep, ResetReadAdmin, ResetReadOtp, ResetReused,
         ResetReadHistory, ResetAddEntry, ResetRefreshEntry, ResetReadTrim,
         ResetTrim, ResetStore, ResetDeleteOtp, ResetAbort, ResetOver, Goto, Steps
  <2>4. p = q
    BY <1>1, <2>3 DEF ResetInv, ResetTypeOK
  <2>5. ResetStore(q)
    BY <1>1, <2>2, <2>4 DEF ResetStep, ResetReadAdmin, ResetReadOtp,
         ResetReused, ResetReadHistory, ResetAddEntry, ResetRefreshEntry,
         ResetReadTrim, ResetTrim, ResetStore, ResetDeleteOtp, ResetAbort,
         ResetOver, Goto, ResetInv, ResetTypeOK
  <2>6. admin' = Written(admin, view[q], Renewed(view[q], chosen[q]))
    BY <2>5 DEF ResetStore, Store
  <2>7. admin \in AdminRow /\ view[q] \in AdminRow /\ chosen[q] \in Passwords
    BY <1>1 DEF ResetInv, ResetTypeOK, TypeOK
  <2> QED  BY <2>6, <2>7, RenewedRow
<1>2. ResetInv /\ [ResetNext]_allVars =>
        [ \A q \in Resets : step[q] = "store" /\ step'[q] = "deleteOtp" =>
          /\ view[q].jti # NoSession => admin'.jti = NoSession
          /\ view[q].lockedUntil # NoLock => admin'.lockedUntil = NoLock
          /\ view[q].failed # 0 => admin'.failed = 0 ]_allVars
  BY <1>1
<1> QED
  BY <1>2, AlwaysResetInv, PTL DEF ResetSpec, ResetClearsWhatItRead

(* Resets and logins together still implement the session register.        *)
THEOREM ResetImplementsRegister == ResetSpec => ImplementsRegister
<1>1. ResetInit => Register!Init
  BY DEF ResetInit, OtpInit, Init, NewAdmin, Register!Init
<1>2. ResetInv /\ [ResetNext]_allVars => [Register!Next]_(Register!registerVars)
  <2> SUFFICES ASSUME ResetInv, [ResetNext]_allVars
               PROVE  [Register!Next]_(Register!registerVars)
    OBVIOUS
  <2>1. CASE [Next]_vars
    BY <2>1, StepIsRegisterStep DEF ResetInv
  <2>2. ASSUME NEW q \in Resets, ResetStore(q)
        PROVE  [Register!Next]_(Register!registerVars)
    <3> DEFINE row == Written(admin, view[q], Renewed(view[q], chosen[q]))
    <3>1. row.jti \in {admin.jti, NoSession}
      BY RenewedRow DEF ResetInv, ResetTypeOK, TypeOK
    <3>2. /\ admin' = row
          /\ retired' = IF row.jti = admin.jti THEN retired
                        ELSE retired \cup ({admin.jti} \ {NoSession})
      BY <2>2 DEF ResetStore, Store
    <3> HIDE DEF row
    <3> QED
      BY <3>1, <3>2 DEF Register!Next, Register!Revoke, Register!Leaving,
           Register!registerVars
  <2>3. ASSUME NEW q \in OtpRequests, OtpStep(q)
        PROVE  UNCHANGED vars
    BY <2>3, OtpStepKeepsCodes
  <2> QED
    BY <2>1, <2>2, <2>3, ResetStepFrame DEF ResetNext, OtpNext, allVars
<1> QED
  BY <1>1, <1>2, AlwaysResetInv, PTL
     DEF ResetSpec, ImplementsRegister, Register!Spec

-----------------------------------------------------------------------------
(* The entries are finitely many and their stamps tell them apart: each    *)
(* stamp is given once, and a reset that holds one has not added its entry *)
(* yet.  A reset about to trim spares at most PasswordHistoryDepth of them.*)
DistinctStamps ==
    /\ IsFiniteSet(history)
    /\ \A g, h \in history : g.createdAt = h.createdAt => g = h
    /\ \A h \in history : h.createdAt <= created
    /\ \A q \in Resets : step[q] = "addEntry" =>
          /\ stamp[q] <= created
          /\ \A h \in history : h.createdAt # stamp[q]
          /\ \A p \in Resets \ {q} : step[p] = "addEntry" => stamp[p] # stamp[q]

FewKept ==
    \A q \in Resets : step[q] = "trim" =>
        /\ IsFiniteSet(keep[q])
        /\ Cardinality(keep[q]) <= PasswordHistoryDepth

HistoryInv ==
    /\ ResetInv
    /\ DistinctStamps
    /\ FewKept
    /\ HistoryBounded

(* A nonempty set of naturals has a least element. *)
LEMMA LeastNatural ==
    ASSUME NEW T \in SUBSET Nat, T # {}
    PROVE  \E x \in T : \A y \in T : x <= y
<1> DEFINE R == {p \in Nat \X Nat : p[1] < p[2]}
<1>1. IsWellFoundedOn(R, Nat)
  BY NatLessThanWellFounded, Zenon DEF OpToRel
<1>2. \E x \in T : \A y \in T : ~(<<y, x>> \in R)
  BY <1>1, WFMin, Zenon
<1>3. PICK x \in T : \A y \in T : ~(<<y, x>> \in R)
  BY <1>2
<1>4. ASSUME NEW y \in T
      PROVE  x <= y
  <2>1. x \in Nat /\ y \in Nat
    OBVIOUS
  <2>2. ~(y < x)
    BY <1>3, <2>1
  <2> QED  BY <2>1, <2>2
<1> QED  BY <1>4

(* A nonempty set of entries has an oldest one. *)
LEMMA OldestEntry ==
    ASSUME NEW S \in SUBSET HistoryEntry, S # {}
    PROVE  \E h \in S : \A g \in S : h.createdAt <= g.createdAt
<1> DEFINE T == {h.createdAt : h \in S}
<1>1. T \subseteq Nat /\ T # {}
  BY DEF HistoryEntry
<1>2. \E x \in T : \A y \in T : x <= y
  BY <1>1, LeastNatural
<1> QED  BY <1>2

(* A nonempty set of entries stamped up to n has a latest one. *)
LEMMA LatestEntry ==
    ASSUME NEW n \in Nat, NEW S \in SUBSET HistoryEntry, S # {},
           \A h \in S : h.createdAt <= n
    PROVE  \E h \in S : \A g \in S : g.createdAt <= h.createdAt
<1> DEFINE T == {n - h.createdAt : h \in S}
<1>1. T \subseteq Nat /\ T # {} /\ \A h \in S : h.createdAt \in Nat
  BY DEF HistoryEntry
<1>2. PICK m \in T : \A y \in T : m <= y
  BY <1>1, LeastNatural
<1>3. PICK h \in S : m = n - h.createdAt
  OBVIOUS
<1>4. ASSUME NEW g \in S
      PROVE  g.createdAt <= h.createdAt
  <2>1. n - h.createdAt <= n - g.createdAt
    BY <1>2, <1>3
  <2> QED  BY <1>1, <2>1
<1> QED  BY <1>4

(* The n latest entries are at most n.                                     *)
LEMMA FewRecent ==
    ASSUME NEW n \in Nat, history \subseteq HistoryEntry, DistinctStamps
    PROVE  IsFiniteSet(Recent(n)) /\ Cardinality(Recent(n)) <= n
<1>1. Recent(n) \subseteq history /\ IsFiniteSet(Recent(n))
  BY FS_Subset DEF Recent, DistinctStamps
<1>2. CASE Recent(n) = {}
  BY <1>2, FS_EmptySet
<1>3. CASE Recent(n) # {}
  <2>1. PICK h \in Recent(n) : \A g \in Recent(n) : h.createdAt <= g.createdAt
    BY <1>1, <1>3, OldestEntry
  <2> DEFINE later == {g \in history : g.createdAt > h.createdAt}
             others == Recent(n) \ {h}
  <2>2. IsFiniteSet(later) /\ Cardinality(later) \in Nat /\ Cardinality(later) < n
    BY FS_Subset, FS_CardinalityType DEF Recent, DistinctStamps
  <2>3. others \subseteq later
    BY <1>1, <2>1 DEF DistinctStamps, HistoryEntry
  <2>4. Cardinality(others) <= Cardinality(later)
    BY <2>2, <2>3, FS_Subset
  <2>5. Cardinality(others) = Cardinality(Recent(n)) - 1
    BY <1>1, <2>1, FS_RemoveElement
  <2>6. Cardinality(Recent(n)) \in Nat
    BY <1>1, FS_CardinalityType
  <2> HIDE DEF later, others
  <2>7. Cardinality(Recent(n)) <= n
    BY <2>2, <2>4, <2>5, <2>6
  <2> QED  BY <1>1, <2>7
<1> QED  BY <1>2, <1>3

(* With a depth above zero there is nothing to keep only when there is no  *)
(* entry at all, so the early return of the trim leaves nothing behind.    *)
LEMMA NothingRecentNothingStored ==
    ASSUME NEW n \in Nat, n > 0, history \subseteq HistoryEntry,
           created \in Nat, DistinctStamps, Recent(n) = {}
    PROVE  history = {}
<1> SUFFICES ASSUME history # {} PROVE FALSE
  OBVIOUS
<1>1. PICK h \in history : \A g \in history : g.createdAt <= h.createdAt
  BY LatestEntry DEF DistinctStamps
<1>2. {g \in history : g.createdAt > h.createdAt} = {}
  BY <1>1 DEF HistoryEntry
<1>3. h \in Recent(n)
  BY <1>1, <1>2, FS_EmptySet DEF Recent
<1> QED  BY <1>3

(* What the steps of HistoryInv are argued from. *)
LEMMA HistoryFacts ==
    ASSUME HistoryInv
    PROVE  /\ history \subseteq HistoryEntry /\ created \in Nat
           /\ step \in [Resets -> Steps]
           /\ stamp \in [Resets -> Nat] /\ keep \in [Resets -> SUBSET HistoryEntry]
           /\ IsFiniteSet(history) /\ Cardinality(history) \in Nat
           /\ IsFiniteSet(Untrimmed) /\ Cardinality(Untrimmed) \in Nat
           /\ aborts \in Nat /\ PasswordHistoryDepth \in Nat
           /\ PasswordHistoryDepth > 0 =>
                Cardinality(history)
                  <= PasswordHistoryDepth + aborts + Cardinality(Untrimmed)
<1> USE DEF HistoryInv, ResetInv, ResetTypeOK
<1>1. IsFiniteSet(Untrimmed)
  BY ResetsAssumption, FS_Subset DEF Untrimmed
<1>2. IsFiniteSet(history)
  BY DEF DistinctStamps
<1>3. stamp \in [Resets -> Nat]
  BY HistoryAssumption
<1> QED
  BY <1>1, <1>2, <1>3, FS_CardinalityType, HistoryAssumption
     DEF HistoryBounded

LEMMA HistoryInvInit == ResetInit => HistoryInv
<1> SUFFICES ASSUME ResetInit PROVE HistoryInv
  OBVIOUS
<1>1. ResetInv
  BY ResetInvInit
<1>2. DistinctStamps /\ FewKept
  BY FS_EmptySet DEF ResetInit, DistinctStamps, FewKept
<1>3. HistoryBounded
  <2>1. Untrimmed = {}
    BY DEF ResetInit, Untrimmed
  <2> QED
    BY <2>1, FS_EmptySet, HistoryAssumption DEF ResetInit, HistoryBounded
<1> QED  BY <1>1, <1>2, <1>3 DEF HistoryInv

(* Steps that neither touch the history nor are about to. *)
LEMMA QuietStepKeepsHistory ==
    ASSUME HistoryInv, NEW q \in Resets, NEW next \in Steps, Goto(q, next),
           UNCHANGED <<history, created>>,
           next \notin {"addEntry", "refreshEntry", "readTrim", "trim"},
           \A p \in Resets \ {q} : stamp'[p] = stamp[p] /\ keep'[p] = keep[p],
           aborts' \in Nat,
           \/ aborts' = aborts /\ q \notin Untrimmed
           \/ aborts' = aborts + 1
    PROVE  DistinctStamps' /\ FewKept' /\ HistoryBounded'
<1>1. step' = [step EXCEPT ![q] = next] /\ step \in [Resets -> Steps]
  BY HistoryFacts DEF Goto
<1>2. DistinctStamps'
  BY <1>1 DEF HistoryInv, DistinctStamps
<1>3. FewKept'
  BY <1>1 DEF HistoryInv, FewKept
<1>4. HistoryBounded'
  <2>1. Untrimmed' = Untrimmed \ {q}
    BY <1>1 DEF Untrimmed, EntryStored
  <2>2. Cardinality(Untrimmed') = IF q \in Untrimmed THEN Cardinality(Untrimmed) - 1
                                  ELSE Cardinality(Untrimmed)
    BY <2>1, HistoryFacts, FS_RemoveElement
  <2>3. PasswordHistoryDepth > 0 =>
          Cardinality(history)
            <= PasswordHistoryDepth + aborts' + Cardinality(Untrimmed')
    BY <2>2, HistoryFacts
  <2> QED  BY <2>3 DEF HistoryBounded
<1> QED  BY <1>2, <1>3, <1>4

(* A stamp is drawn. *)
LEMMA ReadHistoryKeepsHistory ==
    ASSUME HistoryInv, NEW q \in Resets, ResetReadHistory(q)
    PROVE  DistinctStamps' /\ FewKept' /\ HistoryBounded'
<1>1. /\ step' = [step EXCEPT ![q] = "addEntry"] /\ step[q] = "readHistory"
      /\ stamp' = [stamp EXCEPT ![q] = created + 1] /\ created' = created + 1
      /\ UNCHANGED <<history, keep, aborts>>
      /\ step \in [Resets -> Steps] /\ stamp \in [Resets -> Nat]
      /\ history \subseteq HistoryEntry /\ created \in Nat
  BY HistoryFacts DEF ResetReadHistory, Goto
<1>2. DistinctStamps'
  <2>1. \A h \in history : h.createdAt \in Nat /\ h.createdAt <= created
    BY <1>1 DEF HistoryEntry, HistoryInv, DistinctStamps
  <2>2. \A h \in history' : h.createdAt <= created'
    BY <1>1, <2>1
  <2>3. ASSUME NEW p \in Resets, step'[p] = "addEntry"
        PROVE  /\ stamp'[p] <= created'
               /\ \A h \in history' : h.createdAt # stamp'[p]
               /\ \A o \in Resets \ {p} :
                     step'[o] = "addEntry" => stamp'[o] # stamp'[p]
    <3>1. \A o \in Resets \ {q} : step'[o] = "addEntry" =>
             /\ stamp'[o] = stamp[o] /\ stamp[o] <= created
             /\ stamp[o] \in Nat
             /\ \A h \in history : h.createdAt # stamp[o]
             /\ \A r \in Resets \ {o, q} : step'[r] = "addEntry"
                                           => stamp'[r] # stamp[o]
      BY <1>1 DEF HistoryInv, DistinctStamps
    <3>2. stamp'[q] = created + 1
      BY <1>1
    <3>3. CASE p = q
      <4>1. \A o \in Resets \ {q} : step'[o] = "addEntry" => stamp'[o] # created + 1
        BY <1>1, <3>1
      <4> QED  BY <1>1, <2>1, <3>2, <3>3, <4>1
    <3>4. CASE p # q
      <4>1. stamp'[p] <= created'
        BY <1>1, <3>1, <3>4, <2>3
      <4>2. stamp'[q] # stamp'[p]
        BY <1>1, <2>3, <3>1, <3>2, <3>4
      <4> QED  BY <1>1, <2>3, <3>1, <3>4, <4>1, <4>2
    <3> QED  BY <3>3, <3>4
  <2> QED  BY <1>1, <2>2, <2>3 DEF HistoryInv, DistinctStamps
<1>3. FewKept'
  BY <1>1 DEF HistoryInv, FewKept
<1>4. HistoryBounded'
  <2>1. Untrimmed' = Untrimmed
    BY <1>1 DEF Untrimmed, EntryStored
  <2> QED  BY <1>1, <2>1, HistoryFacts DEF HistoryBounded
<1> QED  BY <1>2, <1>3, <1>4

(* The entry is added under a stamp nobody else has. *)
LEMMA AddEntryKeepsHistory ==
    ASSUME HistoryInv, NEW q \in Resets, ResetAddEntry(q)
    PROVE  DistinctStamps' /\ FewKept' /\ HistoryBounded'
<1> DEFINE entry == [hash |-> view[q].hash, createdAt |-> stamp[q]]
<1>1. /\ step' = [step EXCEPT ![q] = "refreshEntry"] /\ step[q] = "addEntry"
      /\ history' = history \cup {entry}
      /\ UNCHANGED <<created, stamp, keep, aborts>>
      /\ step \in [Resets -> Steps]
  BY HistoryFacts DEF ResetAddEntry, Goto
<1>2. /\ stamp[q] <= created /\ \A h \in history : h.createdAt # stamp[q]
      /\ \A p \in Resets \ {q} : step[p] = "addEntry" => stamp[p] # stamp[q]
  BY <1>1 DEF HistoryInv, DistinctStamps
<1>3. entry.createdAt = stamp[q]
  OBVIOUS
<1> HIDE DEF entry
<1>4. /\ IsFiniteSet(history')
      /\ Cardinality(history') <= Cardinality(history) + 1
  <2>1. IsFiniteSet(history) /\ Cardinality(history) \in Nat
    BY HistoryFacts
  <2>2. /\ IsFiniteSet(history \cup {entry})
        /\ Cardinality(history \cup {entry})
             \in {Cardinality(history), Cardinality(history) + 1}
    BY <2>1, FS_AddElement
  <2> QED  BY <1>1, <2>1, <2>2
<1>5. DistinctStamps'
  <2>1. \A g, h \in history' : g.createdAt = h.createdAt => g = h
    BY <1>1, <1>2, <1>3 DEF HistoryInv, DistinctStamps
  <2>2. \A h \in history' : h.createdAt <= created'
    BY <1>1, <1>2, <1>3 DEF HistoryInv, DistinctStamps
  <2>3. \A p \in Resets : step'[p] = "addEntry" => p # q /\ step[p] = "addEntry"
    BY <1>1
  <2>4. ASSUME NEW p \in Resets, step'[p] = "addEntry"
        PROVE  /\ stamp'[p] <= created'
               /\ \A h \in history' : h.createdAt # stamp'[p]
               /\ \A o \in Resets \ {p} :
                     step'[o] = "addEntry" => stamp'[o] # stamp'[p]
    BY <1>1, <1>2, <1>3, <2>3, <2>4 DEF HistoryInv, DistinctStamps
  <2> QED  BY <1>4, <2>1, <2>2, <2>4 DEF DistinctStamps
<1>6. FewKept'
  BY <1>1 DEF HistoryInv, FewKept
<1>7. HistoryBounded'
  <2>1. Untrimmed \cup {q} \subseteq Untrimmed' /\ q \notin Untrimmed
    BY <1>1, <1>3 DEF Untrimmed, EntryStored
  <2>2. /\ Cardinality(Untrimmed) + 1 <= Cardinality(Untrimmed')
        /\ Cardinality(Untrimmed') \in Nat
    <3>1. IsFiniteSet(Untrimmed')
      BY ResetsAssumption, FS_Subset DEF Untrimmed
    <3>2. Cardinality(Untrimmed \cup {q}) = Cardinality(Untrimmed) + 1
      BY <2>1, HistoryFacts, FS_AddElement
    <3> QED  BY <2>1, <3>1, <3>2, FS_Subset, FS_CardinalityType
  <2>3. Cardinality(history') \in Nat
    BY <1>4, FS_CardinalityType
  <2>4. PasswordHistoryDepth > 0 =>
          Cardinality(history')
            <= PasswordHistoryDepth + aborts' + Cardinality(Untrimmed')
    BY <1>1, <1>4, <2>2, <2>3, HistoryFacts
  <2> QED  BY <2>4 DEF HistoryBounded
<1> QED  BY <1>5, <1>6, <1>7

(* The entry is read back; a reset that finds it gone no longer counts.    *)
LEMMA RefreshKeepsHistory ==
    ASSUME HistoryInv, NEW q \in Resets, ResetRefreshEntry(q)
    PROVE  DistinctStamps' /\ FewKept' /\ HistoryBounded'
<1>1. /\ step[q] = "refreshEntry" /\ step \in [Resets -> Steps]
      /\ stamp \in [Resets -> Nat] /\ keep \in [Resets -> SUBSET HistoryEntry]
      /\ aborts \in Nat /\ UNCHANGED <<history, created, aborts>>
  BY HistoryFacts DEF ResetRefreshEntry
<1>2. CASE EntryStored(q)
  <2>1. step' = [step EXCEPT ![q] = "readTrim"] /\ UNCHANGED <<stamp, keep>>
    BY <1>2 DEF ResetRefreshEntry, Goto
  <2>2. DistinctStamps' /\ FewKept'
    BY <1>1, <2>1 DEF HistoryInv, DistinctStamps, FewKept
  <2>3. Untrimmed' = Untrimmed
    BY <1>1, <2>1 DEF Untrimmed, EntryStored
  <2>4. HistoryBounded'
    BY <1>1, <2>3, HistoryFacts DEF HistoryBounded
  <2> QED  BY <2>2, <2>4
<1>3. CASE ~EntryStored(q)
  <2>1. /\ Goto(q, "idle")
        /\ \A p \in Resets \ {q} : stamp'[p] = stamp[p] /\ keep'[p] = keep[p]
    BY <1>1, <1>3 DEF ResetRefreshEntry, ResetOver
  <2>2. q \notin Untrimmed
    BY <1>3 DEF Untrimmed
  <2> QED  BY <1>1, <2>1, <2>2, QuietStepKeepsHistory DEF Steps
<1> QED  BY <1>2, <1>3

(* The entries to keep are read, or there are none. *)
LEMMA ReadTrimKeepsHistory ==
    ASSUME HistoryInv, NEW q \in Resets, ResetReadTrim(q)
    PROVE  DistinctStamps' /\ FewKept' /\ HistoryBounded'
<1> DEFINE recent == Recent(PasswordHistoryDepth)
<1>1. /\ keep' = [keep EXCEPT ![q] = recent]
      /\ step' = [step EXCEPT ![q] = IF recent = {} THEN "store" ELSE "trim"]
      /\ step[q] = "readTrim"
      /\ UNCHANGED <<history, created, stamp, aborts>>
      /\ step \in [Resets -> Steps] /\ keep \in [Resets -> SUBSET HistoryEntry]
  BY HistoryFacts DEF ResetReadTrim, Goto
<1>2. IsFiniteSet(recent) /\ Cardinality(recent) <= PasswordHistoryDepth
  BY HistoryFacts, FewRecent DEF HistoryInv
<1>3. PasswordHistoryDepth > 0 /\ recent = {} => history = {}
  BY HistoryFacts, NothingRecentNothingStored DEF HistoryInv
<1> HIDE DEF recent
<1>4. DistinctStamps'
  BY <1>1 DEF HistoryInv, DistinctStamps
<1>5. FewKept'
  BY <1>1, <1>2 DEF HistoryInv, FewKept
<1>6. HistoryBounded'
  <2>1. CASE recent = {}
    <3>1. Untrimmed' \subseteq Untrimmed
      BY <1>1, <2>1 DEF Untrimmed, EntryStored
    <3>2. Cardinality(Untrimmed') \in Nat
      BY <3>1, HistoryFacts, FS_Subset, FS_CardinalityType
    <3>3. PasswordHistoryDepth > 0 => Cardinality(history') = 0
      BY <1>1, <1>3, <2>1, FS_EmptySet
    <3>4. PasswordHistoryDepth > 0 =>
            Cardinality(history')
              <= PasswordHistoryDepth + aborts' + Cardinality(Untrimmed')
      BY <1>1, <3>2, <3>3, HistoryFacts
    <3> QED  BY <3>4 DEF HistoryBounded
  <2>2. CASE recent # {}
    <3>1. Untrimmed' = Untrimmed
      BY <1>1, <2>2 DEF Untrimmed, EntryStored
    <3> QED  BY <1>1, <3>1, HistoryFacts DEF HistoryBounded
  <2> QED  BY <2>1, <2>2
<1> QED  BY <1>4, <1>5, <1>6

(* The trim leaves at most the entries kept. *)
LEMMA TrimKeepsHistory ==
    ASSUME HistoryInv, NEW q \in Resets, ResetTrim(q)
    PROVE  DistinctStamps' /\ FewKept' /\ HistoryBounded'
<1>1. /\ history' = history \cap keep[q]
      /\ step' = [step EXCEPT ![q] = "store"] /\ step[q] = "trim"
      /\ UNCHANGED <<created, stamp, keep, aborts>>
      /\ step \in [Resets -> Steps]
  BY HistoryFacts DEF ResetTrim, Goto
<1>2. IsFiniteSet(keep[q]) /\ Cardinality(keep[q]) <= PasswordHistoryDepth
  BY <1>1 DEF HistoryInv, FewKept
<1>3. /\ IsFiniteSet(history')
      /\ Cardinality(history') <= Cardinality(keep[q])
      /\ Cardinality(history') \in Nat /\ Cardinality(keep[q]) \in Nat
  BY <1>1, <1>2, FS_Subset, FS_CardinalityType
<1>4. DistinctStamps'
  <2>1. history' \subseteq history
    BY <1>1
  <2>2. \A p \in Resets : step'[p] = "addEntry" => p # q /\ step[p] = "addEntry"
    BY <1>1
  <2> QED  BY <1>1, <1>3, <2>1, <2>2 DEF HistoryInv, DistinctStamps
<1>5. FewKept'
  BY <1>1 DEF HistoryInv, FewKept
<1>6. HistoryBounded'
  <2>1. IsFiniteSet(Untrimmed')
    BY ResetsAssumption, FS_Subset DEF Untrimmed
  <2>2. Cardinality(Untrimmed') \in Nat
    BY <2>1, FS_CardinalityType
  <2>3. Cardinality(history')
          <= PasswordHistoryDepth + aborts' + Cardinality(Untrimmed')
    BY <1>1, <1>2, <1>3, <2>2, HistoryFacts
  <2> QED  BY <2>3 DEF HistoryBounded
<1> QED  BY <1>4, <1>5, <1>6

LEMMA ResetStepKeepsHistory ==
    ASSUME HistoryInv, NEW q \in Resets, ResetStep(q)
    PROVE  DistinctStamps' /\ FewKept' /\ HistoryBounded'
<1>1. /\ aborts \in Nat /\ aborts + 1 \in Nat /\ step \in [Resets -> Steps]
      /\ stamp \in [Resets -> Nat] /\ keep \in [Resets -> SUBSET HistoryEntry]
  BY HistoryFacts
<1>2. CASE \E e \in Emails, p \in Passwords : ResetReadAdmin(q, e, p)
  BY <1>1, <1>2, QuietStepKeepsHistory DEF ResetReadAdmin, Untrimmed, Steps
<1>3. ASSUME ResetOver(q)
      PROVE  /\ Goto(q, "idle")
             /\ \A p \in Resets \ {q} : stamp'[p] = stamp[p] /\ keep'[p] = keep[p]
  BY <1>1, <1>3 DEF ResetOver
<1>4. CASE ResetReadOtp(q)
  BY <1>1, <1>3, <1>4, QuietStepKeepsHistory DEF ResetReadOtp, Untrimmed, Steps
<1>5. CASE ResetReused(q)
  BY <1>1, <1>3, <1>5, QuietStepKeepsHistory DEF ResetReused, Untrimmed, Steps
<1>6. CASE ResetStore(q)
  BY <1>1, <1>6, QuietStepKeepsHistory DEF ResetStore, Untrimmed, Steps
<1>7. CASE ResetDeleteOtp(q)
  BY <1>1, <1>3, <1>7, QuietStepKeepsHistory DEF ResetDeleteOtp, Untrimmed, Steps
<1>8. CASE ResetAbort(q)
  BY <1>1, <1>3, <1>8, QuietStepKeepsHistory DEF ResetAbort, Steps
<1> QED
  BY <1>2, <1>4, <1>5, <1>6, <1>7, <1>8, ReadHistoryKeepsHistory,
     AddEntryKeepsHistory, RefreshKeepsHistory, ReadTrimKeepsHistory,
     TrimKeepsHistory DEF ResetStep

LEMMA NextKeepsHistoryInv == HistoryInv /\ [ResetNext]_allVars => HistoryInv'
<1> SUFFICES ASSUME HistoryInv, [ResetNext]_allVars PROVE HistoryInv'
  OBVIOUS
<1>1. ResetInv'
  BY ResetNextKeepsInv DEF HistoryInv
<1>2. CASE UNCHANGED resetVars
  BY <1>1, <1>2 DEF resetVars, HistoryInv, DistinctStamps, FewKept, HistoryBounded,
       Untrimmed, EntryStored
<1>3. ASSUME NEW q \in Resets, ResetStep(q)
      PROVE  HistoryInv'
  BY <1>1, <1>3, ResetStepKeepsHistory DEF HistoryInv
<1> QED  BY <1>2, <1>3 DEF ResetNext, allVars

(* However many resets race or are cut short, the history stays within its *)
(* depth, but for the resets that have still to trim or never came to.     *)
THEOREM HistoryStaysBounded == ResetSpec => []HistoryBounded
BY HistoryInvInit, NextKeepsHistoryInv, PTL DEF ResetSpec, HistoryInv

=============================================================================
