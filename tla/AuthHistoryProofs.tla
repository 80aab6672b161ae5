-------------------------- MODULE AuthHistoryProofs --------------------------
(***************************************************************************)
(* Theorems about the observed AuthService.  The observer only watches, so *)
(* what AuthServiceProofs shows of any number of racing requests holds of  *)
(* it too.  What it watches for (the count of wrong passwords, the lock,   *)
(* the end of a session) is proved of every behaviour in which no two      *)
(* requests are between their read and their commit at the same time;      *)
(* AuthLogoutRace shows that it may be lost otherwise.                     *)
(***************************************************************************)
EXTENDS AuthHistory, AuthServiceProofs

(* The observer only watches: whatever holds of AuthService holds of the   *)
(* observed one (the history variables restrain no step).                  *)
THEOREM ObserverOnlyWatches == ObservedSpec => Spec
<1>1. ObservedInit => Init
  BY DEF ObservedInit
<1>2. [ObservedNext]_observedVars => [Next]_vars
  BY DEF ObservedNext, observedVars
<1> QED  BY <1>1, <1>2, PTL DEF ObservedSpec, Spec

-----------------------------------------------------------------------------
(* At most one request is between its read and its commit. *)
Alone == \A p, q \in Requests : stage[p] = "save" /\ stage[q] = "save" => p = q

HistoryTypes ==
    /\ family \in [SessionIds -> 0..minted]
    /\ signedOut \subseteq 0..minted
    /\ lockEnd \in Nat
    /\ wrong \in Nat

(* A stored lock is the last one imposed and leaves no failures behind.    *)
LockRecorded ==
    IF admin.lockedUntil = NoLock THEN lockEnd <= now
    ELSE admin.failed = 0 /\ admin.lockedUntil = lockEnd

(* What the row a request is about to store says, next to the stored row,  *)
(* given what it is going to be answered.                                  *)
AsCounted(row, result) ==
    \/ /\ result = "AccountLocked"
       /\ row.failed = 0
       /\ row.lockedUntil # NoLock
       /\ lockEnd <= row.lockedUntil
    \/ /\ \/ result = "InvalidCredentials" /\ row.failed = admin.failed + 1
          \/ result = "AccountInactive" /\ row.failed = admin.failed
          \/ result = "LoginOk" /\ row.failed = 0
       /\ row.lockedUntil = NoLock
       /\ lockEnd <= now
    \/ /\ result \in {"RefreshOk", "LogoutOk"}
       /\ row.failed = admin.failed
       /\ row.lockedUntil = admin.lockedUntil

AsSessions(row, result, families) ==
    \/ /\ result \in {"AccountLocked", "InvalidCredentials", "AccountInactive"}
       /\ row.jti = admin.jti
    \/ /\ result \in {"LoginOk", "RefreshOk"}
       /\ row.jti \in SessionIds
       /\ families[row.jti] \notin signedOut
    \/ /\ result = "LogoutOk"
       /\ row.jti = NoSession
       /\ admin.jti \in SessionIds

(* What request r read is still stored, but for the status, which only an  *)
(* operator changes and no request writes.                                 *)
Undisturbed(r) ==
    /\ loaded[r].failed = admin.failed
    /\ loaded[r].lockedUntil = admin.lockedUntil
    /\ loaded[r].jti = admin.jti

InFlight(r) ==
    /\ Undisturbed(r)
    /\ AsCounted(object[r], outcome[r])
    /\ AsSessions(object[r], outcome[r], family)

Objects ==
    \A r \in Requests : IF stage[r] = "save" THEN InFlight(r)
                        ELSE object[r] = NewAdmin

(* The inductive invariant of a behaviour in which requests do not overlap.*)
HistoryInv ==
    /\ IndInv
    /\ HistoryTypes
    /\ CounterExact
    /\ LockRecorded
    /\ LogoutEndsSession
    /\ Objects

-----------------------------------------------------------------------------
(* The later of two times. *)
LEMMA LaterOf ==
    ASSUME NEW a \in Nat, NEW b \in Nat
    PROVE  /\ Max({a}) = a
           /\ a <= b => Max({a} \cup {b}) = b
<1>1. Max({a}) = a
  BY DEF Max
<1>2. ASSUME a <= b PROVE Max({a} \cup {b}) = b
  <2>1. b \in {a} \cup {b} /\ \A y \in {a} \cup {b} : b >= y
    BY <1>2
  <2> DEFINE m == Max({a} \cup {b})
  <2>2. m \in {a} \cup {b} /\ \A y \in {a} \cup {b} : m >= y
    BY <2>1 DEF Max
  <2> HIDE DEF m
  <2>3. m = b
    BY <1>2, <2>2
  <2> QED  BY <2>3 DEF m
<1> QED  BY <1>1, <1>2

(* A step with no commit and no new session changes nothing the observer   *)
(* remembers; a new session only gets a family.                            *)
LEMMA NothingSaved ==
    ASSUME HistoryTypes, TypeOK,
           RecordFamily, RecordLogout, RecordLock, RecordWrong,
           \A r \in Requests : stage[r] = "save" => stage'[r] # "saved"
    PROVE  /\ UNCHANGED <<signedOut, lockEnd, wrong>>
           /\ minted' = minted => UNCHANGED family
<1>1. \A result : Saving(result) = {}
  BY DEF Saving
<1>2. signedOut' = signedOut /\ wrong' = wrong
  BY <1>1 DEF RecordLogout, RecordWrong
<1>3. lockEnd' = Max({lockEnd})
  <2>1. {object[r].lockedUntil : r \in Saving("AccountLocked")} = {}
    BY <1>1
  <2>2. {lockEnd} \cup {} = {lockEnd}
    OBVIOUS
  <2> QED  BY <2>1, <2>2 DEF RecordLock
<1>4. minted' = minted => family' = family
  BY DEF RecordFamily, HistoryTypes
<1> QED  BY <1>2, <1>3, <1>4, LaterOf DEF HistoryTypes

(* A new session is remembered with the family it belongs to. *)
LEMMA FamilyOfNew ==
    ASSUME TypeOK, HistoryTypes, RecordFamily, MintSession
    PROVE  /\ NewSession \in SessionIds
           /\ \A s \in SessionIds \ {NewSession} : family'[s] = family[s]
           /\ family'[NewSession]
                = IF \E r \in Requests : /\ object'[r].jti = NewSession
                                         /\ outcome'[r] = "RefreshOk"
                  THEN family[admin.jti] ELSE NewSession
           /\ admin.jti \in SessionIds
                => family' \in [SessionIds -> 0..minted']
<1>1. /\ minted \in Nat /\ minted' = minted + 1 /\ NewSession = minted'
      /\ NewSession \in SessionIds
  BY BoundsAssumption DEF TypeOK, MintSession, NewSession, SessionIds
<1>2. \A s \in SessionIds \ {NewSession} : family'[s] = family[s]
  BY <1>1 DEF RecordFamily
<1>3. family'[NewSession]
        = IF \E r \in Requests : /\ object'[r].jti = NewSession
                                 /\ outcome'[r] = "RefreshOk"
          THEN family[admin.jti] ELSE NewSession
  BY <1>1 DEF RecordFamily
<1>4. ASSUME admin.jti \in SessionIds
      PROVE  family' \in [SessionIds -> 0..minted']
  <2>1. \A s \in SessionIds : family[s] \in 0..minted'
    BY <1>1 DEF HistoryTypes
  <2>2. family'[NewSession] \in 0..minted'
    <3>1. family'[NewSession] \in {family[admin.jti], NewSession}
      BY <1>3
    <3>2. family[admin.jti] \in 0..minted'
      BY <1>4, <2>1
    <3>3. NewSession \in 0..minted'
      BY <1>1
    <3> QED  BY <3>1, <3>2, <3>3
  <2>3. \A s \in SessionIds : family'[s] \in 0..minted'
    BY <1>2, <2>1, <2>2
  <2> QED  BY <2>3 DEF RecordFamily
<1> QED  BY <1>1, <1>2, <1>3, <1>4

(* What a login computes from the row it read. *)
LEMMA LoginColumns ==
    ASSUME NEW row \in AdminRow, NEW t \in Nat, t > 0
    PROVE  /\ Unlocked(row) \in AdminRow
           /\ Unlocked(row).lockedUntil = NoLock
           /\ Unlocked(row).jti = row.jti
           /\ row.lockedUntil = NoLock => Unlocked(row).failed = row.failed
           /\ row.lockedUntil # NoLock => Unlocked(row).failed = 0
           /\ Penalised(row, t).jti = row.jti
           /\ \/ /\ Penalised(row, t).failed = 0
                 /\ Penalised(row, t).lockedUntil = t + LockoutMinutes
              \/ /\ Penalised(row, t).failed = row.failed + 1
                 /\ Penalised(row, t).lockedUntil = row.lockedUntil
           /\ Issuing(row).failed = 0
           /\ Issuing(row).lockedUntil = NoLock
           /\ Issuing(row).jti = NewSession
<1>1. /\ Unlocked(row) \in AdminRow
      /\ Unlocked(row).lockedUntil = NoLock
      /\ Unlocked(row).jti = row.jti
      /\ row.lockedUntil = NoLock => Unlocked(row).failed = row.failed
      /\ row.lockedUntil # NoLock => Unlocked(row).failed = 0
  BY DEF Unlocked, AdminRow, NoLock
<1>2. /\ Penalised(row, t).jti = row.jti
      /\ \/ /\ Penalised(row, t).failed = 0
            /\ Penalised(row, t).lockedUntil = t + LockoutMinutes
         \/ /\ Penalised(row, t).failed = row.failed + 1
            /\ Penalised(row, t).lockedUntil = row.lockedUntil
  <2> DEFINE lock == [row EXCEPT !.lockedUntil = t + LockoutMinutes, !.failed = 0]
             count == [row EXCEPT !.failed = row.failed + 1]
  <2>1. /\ lock.failed = 0 /\ lock.lockedUntil = t + LockoutMinutes
        /\ lock.jti = row.jti
    BY DEF AdminRow
  <2>2. /\ count.failed = row.failed + 1 /\ count.lockedUntil = row.lockedUntil
        /\ count.jti = row.jti
    BY DEF AdminRow
  <2>3. Penalised(row, t) = lock \/ Penalised(row, t) = count
    BY DEF Penalised
  <2> HIDE DEF lock, count
  <2> QED  BY <2>1, <2>2, <2>3
<1>3. /\ Issuing(row).failed = 0
      /\ Issuing(row).lockedUntil = NoLock
      /\ Issuing(row).jti = NewSession
  BY DEF Issuing, AdminRow
<1> QED  BY <1>1, <1>2, <1>3

-----------------------------------------------------------------------------
(* A request that reads the row and computes one that fits what it is      *)
(* going to be answered keeps the invariant, if nobody else is in flight.  *)
LEMMA ReadKeepsHistory ==
    ASSUME HistoryInv, IndInv', Alone', ObservedNext,
           NEW r \in Requests, NEW row, NEW result, Read(r, row, result),
           AsCounted(row, result), AsSessions(row, result, family'),
           \/ minted' = minted
           \/ /\ MintSession
              /\ family' \in [SessionIds -> 0..minted']
              /\ admin.jti \in SessionIds => family'[admin.jti] = family[admin.jti]
    PROVE  HistoryInv'
<1> USE DEF HistoryInv
<1>1. TypeOK /\ minted \in Nat
  BY BoundsAssumption DEF IndInv, TypeOK
<1>2. /\ UNCHANGED <<signedOut, lockEnd, wrong>>
      /\ minted' = minted => UNCHANGED family
  <2>1. \A q \in Requests : stage[q] = "save" => stage'[q] # "saved"
    BY <1>1 DEF Read, TypeOK
  <2> QED  BY <1>1, <2>1, NothingSaved DEF ObservedNext
<1>3. admin' = admin /\ now' = now
  BY DEF Read
<1>4. HistoryTypes'
  BY <1>1, <1>2 DEF HistoryTypes, MintSession, NewSession
<1>5. CounterExact' /\ LockRecorded'
  BY <1>2, <1>3 DEF CounterExact, LockRecorded
<1>6. LogoutEndsSession'
  <2>1. admin.jti \in SessionIds \cup {NoSession}
    BY <1>1 DEF TypeOK, AdminRow
  <2>2. admin.jti \in SessionIds => family'[admin.jti] = family[admin.jti]
    BY <1>2
  <2> QED  BY <1>2, <1>3, <2>1, <2>2 DEF LogoutEndsSession
<1>7. Objects'
  <2>1. /\ stage'[r] = "save" /\ loaded'[r] = admin
        /\ object'[r] = row /\ outcome'[r] = result
    BY <1>1 DEF Read, TypeOK
  <2>2. AsCounted(row, result)'
    BY <1>2, <1>3 DEF AsCounted
  <2>3. InFlight(r)'
    <3>1. AsSessions(row, result, family)'
      BY <1>2, <1>3 DEF AsSessions
    <3>2. Undisturbed(r)'
      BY <1>3, <2>1 DEF Undisturbed
    <3> QED  BY <2>1, <2>2, <3>1, <3>2 DEF InFlight
  <2>4. ASSUME NEW q \in Requests, q # r
        PROVE  stage'[q] # "save" /\ object'[q] = NewAdmin
    <3>1. stage'[q] # "save"
      BY <2>1, <2>4 DEF Alone
    <3>2. stage'[q] = stage[q] /\ object'[q] = object[q]
      BY <1>1, <2>4 DEF Read, TypeOK
    <3> QED  BY <3>1, <3>2 DEF Objects
  <2> QED  BY <2>1, <2>3, <2>4 DEF Objects
<1> QED  BY <1>4, <1>5, <1>6, <1>7

(* A step that touches neither the row nor a session, and after which each *)
(* request has the object it had or none, keeps the invariant.             *)
LEMMA QuietKeepsHistory ==
    ASSUME HistoryInv, IndInv',
           UNCHANGED historyVars,
           UNCHANGED <<admin.failed, admin.lockedUntil, admin.jti, minted>>,
           now' \in Nat, now <= now',
           \A q \in Requests :
              \/ UNCHANGED <<stage[q], loaded[q], object[q], outcome[q]>>
              \/ stage'[q] # "save" /\ object'[q] = NewAdmin
    PROVE  HistoryInv'
<1> USE DEF HistoryInv
<1>1. now \in Nat /\ UNCHANGED <<family, signedOut, lockEnd, wrong>>
      /\ lockEnd \in Nat
  BY BoundsAssumption DEF historyVars, IndInv, TypeOK, HistoryTypes
<1>2. HistoryTypes' /\ CounterExact' /\ LogoutEndsSession'
  BY <1>1 DEF HistoryTypes, CounterExact, LogoutEndsSession
<1>3. LockRecorded'
  BY <1>1 DEF LockRecorded
<1>4. Objects'
  <2>1. ASSUME NEW q \in Requests, InFlight(q),
               UNCHANGED <<stage[q], loaded[q], object[q], outcome[q]>>
        PROVE  InFlight(q)'
    <3>1. Undisturbed(q)'
      BY <2>1 DEF InFlight, Undisturbed
    <3>2. AsCounted(object[q], outcome[q])'
      BY <1>1, <2>1 DEF InFlight, AsCounted
    <3>3. AsSessions(object[q], outcome[q], family)'
      BY <1>1, <2>1 DEF InFlight, AsSessions
    <3> QED  BY <3>1, <3>2, <3>3 DEF InFlight
  <2> QED  BY <2>1 DEF Objects
<1> QED  BY <1>2, <1>3, <1>4

(* What the observer notes of the commit of request r. *)
LEMMA SaveNoted ==
    ASSUME TypeOK, HistoryTypes, NEW r \in Requests, Save(r),
           RecordFamily, RecordLogout, RecordLock, RecordWrong
    PROVE  /\ family' = family
           /\ signedOut' = IF outcome[r] = "LogoutOk"
                           THEN signedOut \cup {family[loaded[r].jti]}
                           ELSE signedOut
           /\ lockEnd' = IF outcome[r] = "AccountLocked"
                         THEN Max({lockEnd} \cup {object[r].lockedUntil})
                         ELSE lockEnd
           /\ wrong' = IF outcome[r] \in {"AccountLocked", "LoginOk"} THEN 0
                       ELSE IF outcome[r] = "InvalidCredentials" THEN wrong + 1
                       ELSE wrong
<1>1. /\ stage[r] = "save" /\ stage'[r] = "saved"
      /\ \A q \in Requests \ {r} : stage'[q] = stage[q]
  BY DEF Save, Forget, TypeOK
<1>2. \A result : Saving(result) = IF outcome[r] = result THEN {r} ELSE {}
  BY <1>1 DEF Saving
<1>3. family' = family
  BY DEF RecordFamily, HistoryTypes, Save
<1>4. signedOut' = IF outcome[r] = "LogoutOk"
                   THEN signedOut \cup {family[loaded[r].jti]} ELSE signedOut
  BY <1>2 DEF RecordLogout
<1>5. lockEnd' = IF outcome[r] = "AccountLocked"
                 THEN Max({lockEnd} \cup {object[r].lockedUntil}) ELSE lockEnd
  <2>1. CASE outcome[r] = "AccountLocked"
    <3>1. {object[q].lockedUntil : q \in Saving("AccountLocked")}
            = {object[r].lockedUntil}
      BY <1>2, <2>1
    <3> QED  BY <2>1, <3>1 DEF RecordLock
  <2>2. CASE outcome[r] # "AccountLocked"
    <3>1. {lockEnd} \cup {object[q].lockedUntil : q \in Saving("AccountLocked")}
            = {lockEnd}
      BY <1>2, <2>2
    <3> QED  BY <2>2, <3>1, LaterOf DEF RecordLock, HistoryTypes
  <2> QED  BY <2>1, <2>2
<1>6. wrong' = IF outcome[r] \in {"AccountLocked", "LoginOk"} THEN 0
               ELSE IF outcome[r] = "InvalidCredentials" THEN wrong + 1
               ELSE wrong
  BY <1>2 DEF RecordWrong
<1> QED  BY <1>3, <1>4, <1>5, <1>6

(* The commit of the only request in flight.                               *)
LEMMA SaveKeepsHistory ==
    ASSUME HistoryInv, IndInv', Alone, ObservedNext,
           NEW r \in Requests, Save(r)
    PROVE  HistoryInv'
<1> USE DEF HistoryInv
<1>1. /\ TypeOK /\ minted' = minted /\ now' = now
      /\ object[r] \in AdminRow /\ admin \in AdminRow
  BY DEF IndInv, TypeOK, Save
<1>2. stage[r] = "save" /\ InFlight(r)
  BY DEF Save, Objects
<1>3. /\ admin'.failed = object[r].failed
      /\ admin'.lockedUntil = object[r].lockedUntil
      /\ admin'.jti = object[r].jti
  BY <1>2 DEF Save, Store, Written, Column, InFlight, Undisturbed
<1>4. /\ family' = family
      /\ signedOut' = IF outcome[r] = "LogoutOk"
                      THEN signedOut \cup {family[loaded[r].jti]}
                      ELSE signedOut
      /\ lockEnd' = IF outcome[r] = "AccountLocked"
                    THEN Max({lockEnd} \cup {object[r].lockedUntil})
                    ELSE lockEnd
      /\ wrong' = IF outcome[r] \in {"AccountLocked", "LoginOk"} THEN 0
                  ELSE IF outcome[r] = "InvalidCredentials" THEN wrong + 1
                  ELSE wrong
  BY <1>1, SaveNoted DEF ObservedNext
<1>5. /\ object[r].failed \in Nat /\ object[r].lockedUntil \in Nat
      /\ admin.failed \in Nat /\ lockEnd \in Nat
  BY <1>1 DEF AdminRow, HistoryTypes
<1>6. outcome[r] = "AccountLocked" => lockEnd' = object[r].lockedUntil
  <2>1. outcome[r] = "AccountLocked" => lockEnd <= object[r].lockedUntil
    BY <1>2 DEF InFlight, AsCounted
  <2> QED  BY <1>4, <1>5, <2>1, LaterOf
<1>7. HistoryTypes'
  <2>1. outcome[r] = "LogoutOk" => loaded[r].jti \in SessionIds
    BY <1>2 DEF InFlight, Undisturbed, AsSessions
  <2>2. signedOut' \subseteq 0..minted'
    BY <1>1, <1>4, <2>1 DEF HistoryTypes
  <2>3. lockEnd' \in Nat /\ wrong' \in Nat
    BY <1>4, <1>5, <1>6 DEF HistoryTypes
  <2> QED  BY <1>1, <1>4, <2>2, <2>3 DEF HistoryTypes
<1>8. CounterExact'
  BY <1>2, <1>3, <1>4, <1>5 DEF CounterExact, LockRecorded, InFlight, AsCounted
<1>9. LockRecorded'
  BY <1>1, <1>2, <1>3, <1>4, <1>5, <1>6 DEF LockRecorded, InFlight, AsCounted
<1>10. LogoutEndsSession'
  BY <1>2, <1>3, <1>4 DEF LogoutEndsSession, InFlight, AsSessions
<1>11. Objects'
  <2>1. stage'[r] = "saved" /\ object'[r] = NewAdmin
    BY <1>1 DEF Save, Forget, TypeOK
  <2>2. ASSUME NEW q \in Requests, q # r
        PROVE  stage'[q] # "save" /\ object'[q] = NewAdmin
    <3>1. stage[q] # "save" /\ object[q] = NewAdmin
      BY <1>2, <2>2 DEF Alone, Objects
    <3> QED  BY <1>1, <2>2, <3>1 DEF Save, Forget, TypeOK
  <2> QED  BY <2>1, <2>2 DEF Objects
<1> QED  BY <1>7, <1>8, <1>9, <1>10, <1>11

-----------------------------------------------------------------------------
(* A login that reads the row. *)
LEMMA LoginKeepsHistory ==
    ASSUME HistoryInv, IndInv', Alone', ObservedNext,
           NEW r \in Requests, Login(r), ~LoginLocked(r)
    PROVE  HistoryInv'
<1> USE DEF HistoryInv
<1>1. /\ TypeOK /\ admin \in AdminRow
      /\ now \in Nat /\ now > 0 /\ minted \in Nat /\ lockEnd \in Nat
      /\ signedOut \subseteq 0..minted
      /\ admin.failed \in Nat /\ admin.lockedUntil \in Nat
  BY BoundsAssumption DEF IndInv, TypeOK, HistoryTypes, AdminRow
<1> DEFINE row == Unlocked(admin)
<1>2. /\ row \in AdminRow /\ row.lockedUntil = NoLock
      /\ row.jti = admin.jti /\ row.failed = admin.failed
  BY <1>1, LoginColumns DEF LockRecorded
<1>3. ~Locked(admin, now) => lockEnd <= now
  BY <1>1 DEF Locked, LockRecorded
<1>4. ASSUME NEW p \in Passwords, LoginWrongPassword(r, p)
      PROVE  HistoryInv'
  <2> DEFINE counted == Penalised(row, now)
             result == IF counted.lockedUntil # NoLock THEN "AccountLocked"
                       ELSE "InvalidCredentials"
  <2>1. Read(r, counted, result) /\ minted' = minted /\ lockEnd <= now
    BY <1>3, <1>4 DEF LoginWrongPassword
  <2>2. counted.jti = admin.jti
        /\ \/ counted.failed = 0 /\ counted.lockedUntil = now + LockoutMinutes
           \/ counted.failed = row.failed + 1 /\ counted.lockedUntil = NoLock
    BY <1>1, <1>2, LoginColumns
  <2> HIDE DEF counted
  <2>3. AsCounted(counted, result)
    BY <1>1, <1>2, <2>1, <2>2, LockoutAssumption DEF AsCounted, NoLock
  <2>4. AsSessions(counted, result, family')
    BY <2>1, <2>2 DEF AsSessions, Read
  <2> QED  BY <2>1, <2>3, <2>4, ReadKeepsHistory
<1>5. ASSUME NEW p \in Passwords, LoginInactive(r, p)
      PROVE  HistoryInv'
  <2>1. /\ Read(r, row, "AccountInactive") /\ minted' = minted
        /\ lockEnd <= now
    BY <1>3, <1>5 DEF LoginInactive
  <2>2. AsCounted(row, "AccountInactive")
    BY <1>2, <2>1 DEF AsCounted
  <2>3. AsSessions(row, "AccountInactive", family')
    BY <1>2, <2>1 DEF AsSessions, Read
  <2> QED  BY <2>1, <2>2, <2>3, ReadKeepsHistory
<1>6. ASSUME NEW p \in Passwords, LoginAccepted(r, p)
      PROVE  HistoryInv'
  <2> DEFINE issued == Issuing(row)
  <2>1. Read(r, issued, "LoginOk") /\ MintSession /\ lockEnd <= now
    BY <1>3, <1>6 DEF LoginAccepted
  <2>2. /\ issued.failed = 0 /\ issued.lockedUntil = NoLock
        /\ issued.jti = NewSession
    BY <1>1, <1>2, LoginColumns
  <2> HIDE DEF issued
  <2>3. /\ NewSession \in SessionIds /\ NewSession = minted + 1
        /\ minted' = minted + 1
        /\ \A s \in SessionIds \ {NewSession} : family'[s] = family[s]
    BY <1>1, <2>1, FamilyOfNew DEF ObservedNext, MintSession, NewSession
  <2>4. ~\E q \in Requests : /\ object'[q].jti = NewSession
                             /\ outcome'[q] = "RefreshOk"
    <3>1. stage'[r] = "save" /\ outcome'[r] = "LoginOk"
      BY <1>1, <2>1 DEF Read, TypeOK
    <3>2. ASSUME NEW q \in Requests, q # r PROVE object'[q] = NewAdmin
      <4>1. stage'[q] # "save"
        BY <3>1, <3>2 DEF Alone
      <4>2. stage'[q] = stage[q] /\ object'[q] = object[q]
        BY <1>1, <2>1, <3>2 DEF Read, TypeOK
      <4> QED  BY <4>1, <4>2 DEF Objects
    <3>3. NewSession # NoSession
      BY <1>1, <2>3 DEF NoSession
    <3> QED  BY <3>1, <3>2, <3>3, NewAdminRow
  <2>5. family'[NewSession] = NewSession
    BY <1>1, <2>1, <2>4, FamilyOfNew DEF ObservedNext
  <2>6. /\ admin.jti \in SessionIds \cup {NoSession}
        /\ admin.jti <= minted
    BY <1>1 DEF IndInv, SessionsStoredOnce, TypeOK, AdminRow
  <2>7. /\ family' \in [SessionIds -> 0..minted']
        /\ admin.jti \in SessionIds => family'[admin.jti] = family[admin.jti]
    <3>1. admin.jti # NewSession
      BY <1>1, <2>3, <2>6 DEF NoSession, SessionIds
    <3>2. family' \in [SessionIds -> 0..minted']
      <4>1. \A s \in SessionIds : family'[s] \in 0..minted'
        BY <1>1, <2>3, <2>5 DEF HistoryTypes
      <4> QED  BY <4>1 DEF ObservedNext, RecordFamily
    <3> QED  BY <2>3, <3>1, <3>2
  <2>8. AsCounted(issued, "LoginOk")
    BY <2>1, <2>2 DEF AsCounted
  <2>9. AsSessions(issued, "LoginOk", family')
    <3>1. signedOut' = signedOut
      <4>1. \A q \in Requests : stage[q] = "save" => stage'[q] # "saved"
        BY <1>1, <2>1 DEF Read, TypeOK
      <4> QED  BY <1>1, <4>1, NothingSaved DEF ObservedNext
    <3>2. NewSession \notin signedOut
      BY <1>1, <2>3
    <3> QED  BY <2>2, <2>3, <2>5, <3>1, <3>2 DEF AsSessions
  <2> QED  BY <2>1, <2>7, <2>8, <2>9, ReadKeepsHistory
<1> QED  BY <1>4, <1>5, <1>6 DEF Login

(* A refresh or a logout that reads the row. *)
LEMMA TokenKeepsHistory ==
    ASSUME HistoryInv, IndInv', Alone', ObservedNext, NEW r \in Requests,
           NEW s \in delivered, RefreshAccepted(r, s) \/ LogoutAccepted(r, s)
    PROVE  HistoryInv'
<1> USE DEF HistoryInv
<1>1. /\ TypeOK /\ admin \in AdminRow /\ minted \in Nat
      /\ admin.jti \in SessionIds /\ admin.jti <= minted
      /\ admin.jti # NoSession
  BY BoundsAssumption
     DEF IndInv, TypeOK, SessionsStoredOnce, RefreshAccepted, LogoutAccepted,
         Validates, SessionIds, NoSession
<1>2. UNCHANGED <<signedOut, admin>>
  <2>1. \A q \in Requests : stage[q] = "save" => stage'[q] # "saved"
    BY <1>1 DEF RefreshAccepted, LogoutAccepted, Read, TypeOK
  <2> QED
    BY <1>1, <2>1, NothingSaved DEF ObservedNext, RefreshAccepted, LogoutAccepted, Read
<1>3. \A jti : LET row == [admin EXCEPT !.jti = jti]
               IN  /\ row.failed = admin.failed
                   /\ row.lockedUntil = admin.lockedUntil
                   /\ row.jti = jti
  BY <1>1 DEF AdminRow
<1>4. CASE LogoutAccepted(r, s)
  <2> DEFINE row == [admin EXCEPT !.jti = NoSession]
  <2>1. Read(r, row, "LogoutOk") /\ minted' = minted
    BY <1>4 DEF LogoutAccepted
  <2>2. AsCounted(row, "LogoutOk")
    BY <1>3 DEF AsCounted
  <2>3. AsSessions(row, "LogoutOk", family')
    BY <1>1, <1>2, <1>3 DEF AsSessions
  <2> HIDE DEF row
  <2> QED  BY <2>1, <2>2, <2>3, ReadKeepsHistory
<1>5. CASE RefreshAccepted(r, s)
  <2> DEFINE row == [admin EXCEPT !.jti = NewSession]
  <2>1. Read(r, row, "RefreshOk") /\ MintSession
    BY <1>5 DEF RefreshAccepted
  <2>2. row.jti = NewSession /\ AsCounted(row, "RefreshOk")
    BY <1>3 DEF AsCounted
  <2>3. object'[r] = row /\ outcome'[r] = "RefreshOk"
    BY <1>1, <2>1 DEF Read, TypeOK
  <2> HIDE DEF row
  <2>4. /\ NewSession \in SessionIds
        /\ \A x \in SessionIds \ {NewSession} : family'[x] = family[x]
        /\ family'[NewSession] = family[admin.jti]
        /\ family' \in [SessionIds -> 0..minted']
    BY <1>1, <2>1, <2>2, <2>3, FamilyOfNew DEF ObservedNext
  <2>5. admin.jti # NewSession
    BY <1>1 DEF NewSession, SessionIds
  <2>6. AsSessions(row, "RefreshOk", family')
    BY <1>1, <1>2, <2>2, <2>4 DEF AsSessions, LogoutEndsSession
  <2> QED  BY <2>1, <2>2, <2>4, <2>5, <2>6, ReadKeepsHistory
<1> QED  BY <1>4, <1>5

(* Every step keeps the invariant as long as requests do not overlap. *)
LEMMA NextKeepsHistory ==
    HistoryInv /\ Alone /\ Alone' /\ [ObservedNext]_observedVars => HistoryInv'
<1> SUFFICES ASSUME HistoryInv, Alone, Alone', [ObservedNext]_observedVars
             PROVE  HistoryInv'
  OBVIOUS
<1>1. /\ IndInv' /\ TypeOK /\ HistoryTypes /\ now \in Nat
      /\ \A q \in Requests : stage[q] # "save" => object[q] = NewAdmin
  BY NextKeepsIndInv, BoundsAssumption
     DEF HistoryInv, ObservedNext, observedVars, IndInv, TypeOK, Objects
<1>2. CASE UNCHANGED observedVars
  BY <1>1, <1>2, QuietKeepsHistory DEF observedVars, vars, requestVars
<1>3. ASSUME ObservedNext, UNCHANGED minted,
             UNCHANGED <<admin.failed, admin.lockedUntil, admin.jti>>,
             now' \in Nat, now <= now',
             \A q \in Requests :
               \/ UNCHANGED <<stage[q], loaded[q], object[q], outcome[q]>>
               \/ stage'[q] \notin {"save", "saved"} /\ object'[q] = NewAdmin
      PROVE  HistoryInv'
  <2>1. \A q \in Requests : stage[q] = "save" => stage'[q] # "saved"
    BY <1>3
  <2>2. UNCHANGED historyVars
    BY <1>1, <1>3, <2>1, NothingSaved DEF ObservedNext, historyVars
  <2> QED  BY <1>1, <1>3, <2>2, QuietKeepsHistory
<1>4. CASE ObservedNext /\ Tick
  <2>1. now' = now + 1 /\ UNCHANGED <<admin, minted, stage, loaded, object, outcome>>
    BY <1>4 DEF Tick, requestVars
  <2> QED  BY <1>1, <1>3, <1>4, <2>1
<1>5. ASSUME ObservedNext, NEW status \in Statuses, OperatorSetsStatus(status)
      PROVE  HistoryInv'
  <2>1. /\ UNCHANGED <<now, minted, stage, loaded, object, outcome>>
        /\ UNCHANGED <<admin.failed, admin.lockedUntil, admin.jti>>
    BY <1>1, <1>5 DEF OperatorSetsStatus, requestVars, TypeOK, AdminRow
  <2> QED  BY <1>1, <1>3, <1>5, <2>1
<1>6. ASSUME ObservedNext, NEW r \in Requests, NEW result, Refuse(r, result)
      PROVE  HistoryInv'
  <2>1. /\ UNCHANGED <<now, admin, minted>>
        /\ stage'[r] = "refused" /\ object'[r] = NewAdmin
        /\ \A q \in Requests \ {r} :
             UNCHANGED <<stage[q], loaded[q], object[q], outcome[q]>>
    BY <1>1, <1>6 DEF Refuse, TypeOK
  <2> QED  BY <1>1, <1>3, <1>6, <2>1
<1>7. ASSUME ObservedNext, NEW r \in Requests, RequestStep(r)
      PROVE  HistoryInv'
  <2>1. CASE Login(r)
    BY <1>1, <1>6, <1>7, <2>1, LoginKeepsHistory DEF LoginLocked
  <2>2. CASE PresentToken(r)
    BY <1>1, <1>6, <1>7, <2>2, TokenKeepsHistory DEF PresentToken, TokenRefused
  <2>3. CASE Save(r)
    BY <1>1, <1>7, <2>3, SaveKeepsHistory
  <2>4. CASE AuditFails(r) \/ LoginTimeout(r) \/ Respond(r) \/ Abort(r)
    <3>1. /\ UNCHANGED <<now, admin, minted>>
          /\ stage'[r] \in {"idle", "refused"} /\ object'[r] = NewAdmin
          /\ \A q \in Requests \ {r} :
               UNCHANGED <<stage[q], loaded[q], object[q], outcome[q]>>
      BY <1>1, <2>4 DEF AuditFails, LoginTimeout, Respond, Abort, Forget, TypeOK
    <3> QED  BY <1>1, <1>3, <1>7, <3>1
  <2> QED  BY <1>7, <2>1, <2>2, <2>3, <2>4 DEF RequestStep, Finish
<1> QED  BY <1>2, <1>4, <1>5, <1>7 DEF ObservedNext, Next

LEMMA AlwaysHistoryInv == ObservedSpec /\ []Alone => []HistoryInv
<1>1. ObservedInit => HistoryInv
  <2> SUFFICES ASSUME ObservedInit PROVE HistoryInv
    OBVIOUS
  <2>1. IndInv
    BY InitIndInv DEF ObservedInit
  <2>2. HistoryTypes /\ CounterExact /\ LockRecorded /\ LogoutEndsSession /\ Objects
    BY DEF ObservedInit, Init, NewAdmin, HistoryTypes, CounterExact, LockRecorded,
         LogoutEndsSession, Objects, NoLock, NoSession
  <2> QED  BY <2>1, <2>2 DEF HistoryInv
<1> QED  BY <1>1, NextKeepsHistory, PTL DEF ObservedSpec

(* As long as requests do not overlap, the stored counter is the number of *)
(* wrong passwords since the last lock or success: none is lost and none   *)
(* counted twice, whatever times out, fails or crashes (_authenticate).    *)
THEOREM CountsEveryWrongPassword == ObservedSpec /\ []Alone => []CounterExact
BY AlwaysHistoryInv, PTL DEF HistoryInv

(* As long as requests do not overlap, a lock stands until its end, for    *)
(* any lockout time and attempt limit.                                     *)
THEOREM LocksRunTheirCourse == ObservedSpec /\ []Alone => []LockRunsItsCourse
<1>1. HistoryInv => LockRunsItsCourse
  <2> SUFFICES ASSUME HistoryInv PROVE LockRunsItsCourse
    OBVIOUS
  <2>1. now \in Nat /\ lockEnd \in Nat
    BY BoundsAssumption DEF HistoryInv, IndInv, TypeOK, HistoryTypes
  <2> QED  BY <2>1 DEF HistoryInv, LockRecorded, LockRunsItsCourse
<1> QED  BY <1>1, AlwaysHistoryInv, PTL

(* As long as requests do not overlap, a logout ends the session it was    *)
(* sent with and every session refreshed from the same login.              *)
THEOREM LogoutIsFinal == ObservedSpec /\ []Alone => []LogoutEndsSession
BY AlwaysHistoryInv, PTL DEF HistoryInv

(* As long as requests do not overlap, fewer wrong passwords than settings *)
(* allow are tried between two locks.                                      *)
THEOREM FewWrongPasswords == ObservedSpec /\ []Alone => []WrongPasswordsBounded
<1>1. HistoryInv => WrongPasswordsBounded
  BY DEF HistoryInv, IndInv, CounterExact, CounterBelowLimit, WrongPasswordsBounded
<1> QED  BY <1>1, AlwaysHistoryInv, PTL

=============================================================================
