-------------------------- MODULE AuthServiceProofs --------------------------
(***************************************************************************)
(* Theorems about AuthService for any number of concurrent requests, any   *)
(* passwords and any value of the settings.  All of them follow from one   *)
(* inductive invariant, IndInv.                                            *)
(***************************************************************************)
EXTENDS AuthService, TLAPS

(* A column that a save writes ends up as it was stored or as it was       *)
(* assigned, and as assigned exactly when it was changed.                  *)
LEMMA WrittenRow ==
    ASSUME NEW stored \in AdminRow, NEW read \in AdminRow,
           NEW assigned \in AdminRow
    PROVE  /\ Written(stored, read, assigned) \in AdminRow
           /\ Written(stored, read, assigned).failed
                \in {stored.failed, assigned.failed}
           /\ Written(stored, read, assigned).jti
                = IF assigned.jti = read.jti THEN stored.jti ELSE assigned.jti
BY DEF Written, Column, AdminRow

(* The rows a login computes are rows, below the limit when the row read   *)
(* was, and only a granted login touches the session pointer.              *)
LEMMA LoginRows ==
    ASSUME NEW row \in AdminRow, row.failed < MaxFailedLoginAttempts,
           NEW t \in Nat, minted \in Nat
    PROVE  /\ Unlocked(row) \in AdminRow
           /\ Unlocked(row).failed < MaxFailedLoginAttempts
           /\ Unlocked(row).jti = row.jti
           /\ Penalised(row, t) \in AdminRow
           /\ Penalised(row, t).failed < MaxFailedLoginAttempts
           /\ Penalised(row, t).jti = row.jti
           /\ NewSession \in SessionIds => Issuing(row) \in AdminRow
           /\ Issuing(row).failed < MaxFailedLoginAttempts
           /\ Issuing(row).jti = NewSession
<1>0. 0 < MaxFailedLoginAttempts /\ row.failed \in Nat /\ t + LockoutMinutes \in Nat
  BY MaxFailedAssumption, LockoutAssumption DEF AdminRow
<1>1. /\ Unlocked(row) \in AdminRow
      /\ Unlocked(row).failed < MaxFailedLoginAttempts
      /\ Unlocked(row).jti = row.jti
  <2>1. [row EXCEPT !.lockedUntil = NoLock, !.failed = 0] \in AdminRow
    BY DEF AdminRow, NoLock
  <2>2. /\ [row EXCEPT !.lockedUntil = NoLock, !.failed = 0].failed = 0
        /\ [row EXCEPT !.lockedUntil = NoLock, !.failed = 0].jti = row.jti
    BY DEF AdminRow
  <2> QED  BY <1>0, <2>1, <2>2 DEF Unlocked
<1>2. /\ Penalised(row, t) \in AdminRow
      /\ Penalised(row, t).failed < MaxFailedLoginAttempts
      /\ Penalised(row, t).jti = row.jti
  <2> DEFINE lock == [row EXCEPT !.lockedUntil = t + LockoutMinutes, !.failed = 0]
             count == [row EXCEPT !.failed = row.failed + 1]
  <2>1. lock \in AdminRow /\ lock.failed = 0 /\ lock.jti = row.jti
    BY <1>0 DEF AdminRow
  <2>2. count \in AdminRow /\ count.failed = row.failed + 1 /\ count.jti = row.jti
    BY <1>0 DEF AdminRow
  <2>3. CASE row.failed + 1 >= MaxFailedLoginAttempts
    <3>1. Penalised(row, t) = lock  BY <2>3 DEF Penalised
    <3> HIDE DEF lock
    <3> QED  BY <1>0, <2>1, <3>1
  <2>4. CASE ~(row.failed + 1 >= MaxFailedLoginAttempts)
    <3>1. Penalised(row, t) = count  BY <2>4 DEF Penalised
    <3> HIDE DEF count
    <3> QED  BY <1>0, <2>2, <2>4, <3>1, MaxFailedAssumption
  <2> QED  BY <2>3, <2>4
<1>3. /\ NewSession \in SessionIds => Issuing(row) \in AdminRow
      /\ Issuing(row).failed < MaxFailedLoginAttempts
      /\ Issuing(row).jti = NewSession
  <2>1. NewSession \in SessionIds => Issuing(row) \in AdminRow
    BY DEF Issuing, AdminRow, NoLock
  <2>2. Issuing(row).failed = 0 /\ Issuing(row).jti = NewSession
    BY DEF Issuing, AdminRow
  <2> QED  BY <1>0, <2>1, <2>2
<1> QED  BY <1>1, <1>2, <1>3

(* The row a new admin starts with is a row, below the limit. *)
LEMMA NewAdminRow ==
    /\ NewAdmin \in AdminRow
    /\ NewAdmin.jti = NoSession
    /\ NewAdmin.failed < MaxFailedLoginAttempts
BY PasswordsAssumption, MaxFailedAssumption
   DEF NewAdmin, AdminRow, Statuses, NoLock, NoSession

(* The invariant holds before any request. *)
LEMMA InitIndInv == Init => IndInv
BY NewAdminRow, BoundsAssumption
   DEF Init, IndInv, TypeOK, RetiredNeverCurrent, SessionsStoredOnce, Carries,
       CounterBelowLimit, ObjectsBelowLimit, Stages, Outcomes, NoSession

-----------------------------------------------------------------------------
(* A step that reads the row keeps IndInv when the object it leaves is     *)
(* below the limit and carries at most a session minted in this very step. *)
LEMMA ReadKeepsIndInv ==
    ASSUME IndInv, NEW r \in Requests, NEW row \in AdminRow,
           NEW result \in Outcomes, Read(r, row, result),
           row.failed < MaxFailedLoginAttempts,
           \/ minted' = minted /\ row.jti \in {admin.jti, NoSession}
           \/ MintSession /\ row.jti = NewSession
    PROVE  IndInv'
<1> USE DEF IndInv
<1>1. TypeOK'
  BY BoundsAssumption DEF TypeOK, Read, MintSession, NewSession, Stages
<1>2. RetiredNeverCurrent'
  BY DEF RetiredNeverCurrent, Read
<1>3. SessionsStoredOnce'
  <2>1. minted' \in Nat /\ minted <= minted' /\ minted \in Nat
    BY BoundsAssumption DEF TypeOK, MintSession, NewSession
  <2>2. admin' = admin /\ retired' = retired
    BY DEF Read
  <2>3. admin'.jti <= minted' /\ retired' \subseteq 1..minted'
    BY <2>1, <2>2 DEF SessionsStoredOnce, TypeOK, AdminRow, SessionIds, NoSession
  <2>4. \A q \in Requests \ {r} : /\ object'[q] = object[q]
                                  /\ Carries(q)' = Carries(q)
    BY DEF Read, Carries, TypeOK
  <2>5. object'[r] = row /\ loaded'[r] = admin
    BY DEF Read, TypeOK
  <2>6. Carries(r)' => row.jti = minted' /\ minted' = minted + 1
    BY <2>5 DEF Carries, MintSession, NewSession
  <2>7. \A q \in Requests : Carries(q) => object[q].jti <= minted
    BY DEF SessionsStoredOnce
  <2>8. \A q \in Requests : object[q].jti \in Int
    BY DEF TypeOK, AdminRow, SessionIds, NoSession
  <2>9. minted + 1 \notin retired \cup {admin.jti}
    BY <2>1 DEF SessionsStoredOnce, TypeOK, AdminRow, SessionIds, NoSession
  <2>10. ASSUME NEW q \in Requests, Carries(q)'
         PROVE  /\ object'[q].jti <= minted'
                /\ object'[q].jti \notin retired' \cup {admin'.jti}
                /\ \A p \in Requests \ {q} : object'[p].jti # object'[q].jti
                                             \/ ~Carries(p)'
    <3>1. CASE q = r
      <4>1. object'[r].jti = minted + 1 /\ minted' = minted + 1
        BY <2>5, <2>6, <2>10, <3>1
      <4>2. \A p \in Requests \ {r} : object[p].jti # minted + 1 \/ ~Carries(p)
        BY <2>1, <2>7, <2>8
      <4> QED  BY <2>1, <2>2, <2>4, <2>9, <3>1, <4>1, <4>2
    <3>2. CASE q # r
      <4>1. Carries(q) /\ object'[q] = object[q]
        BY <2>4, <2>10, <3>2
      <4>2. object'[q].jti <= minted'
        BY <2>1, <2>7, <2>8, <4>1
      <4>3. object'[q].jti \notin retired' \cup {admin'.jti}
        BY <2>2, <4>1 DEF SessionsStoredOnce
      <4>4. object'[r].jti # object'[q].jti \/ ~Carries(r)'
        BY <2>1, <2>5, <2>6, <2>7, <2>8, <4>1
      <4>5. \A p \in Requests \ {q, r} : object[p].jti # object[q].jti
                                         \/ ~Carries(p)
        BY <4>1 DEF SessionsStoredOnce
      <4> QED  BY <2>4, <4>1, <4>2, <4>3, <4>4, <4>5
    <3> QED  BY <3>1, <3>2
  <2> QED  BY <2>3, <2>10 DEF SessionsStoredOnce
<1>4. CounterBelowLimit'
  BY DEF CounterBelowLimit, Read
<1>5. ObjectsBelowLimit'
  BY DEF ObjectsBelowLimit, Read, TypeOK
<1> QED  BY <1>1, <1>2, <1>3, <1>4, <1>5

(* Dropping an object, the row left alone, keeps IndInv. *)
LEMMA ForgetKeepsIndInv ==
    ASSUME IndInv, NEW r \in Requests, NEW next \in Stages,
           NEW result \in Outcomes, Forget(r, next, result),
           UNCHANGED <<admin, now, minted, retired>>,
           token' \in [Requests -> SessionIds \cup {NoSession}],
           delivered' \subseteq SessionIds
    PROVE  IndInv'
<1> USE DEF IndInv
<1>1. TypeOK'
  BY NewAdminRow DEF TypeOK, Forget
<1>2. ~Carries(r)' /\ \A q \in Requests \ {r} :
                         object'[q] = object[q] /\ Carries(q)' = Carries(q)
  BY NewAdminRow DEF Forget, Carries, TypeOK
<1>3. SessionsStoredOnce'
  BY <1>2 DEF SessionsStoredOnce
<1>4. RetiredNeverCurrent' /\ CounterBelowLimit'
  BY DEF RetiredNeverCurrent, CounterBelowLimit
<1>5. ObjectsBelowLimit'
  BY NewAdminRow DEF ObjectsBelowLimit, Forget, TypeOK
<1> QED  BY <1>1, <1>3, <1>4, <1>5

(* The commit: whatever was stored in the meantime, the pointer stays, is  *)
(* cleared, or takes a session seen nowhere else.                          *)
LEMMA SaveKeepsIndInv ==
    ASSUME IndInv, NEW r \in Requests, Save(r)
    PROVE  IndInv'
<1> USE DEF IndInv
<1> DEFINE row == Written(admin, loaded[r], object[r])
<1>1. admin \in AdminRow /\ loaded[r] \in AdminRow /\ object[r] \in AdminRow
  BY DEF TypeOK
<1>2. /\ row \in AdminRow
      /\ row.failed \in {admin.failed, object[r].failed}
      /\ row.jti = IF object[r].jti = loaded[r].jti THEN admin.jti
                   ELSE object[r].jti
  BY <1>1, WrittenRow
<1>3. /\ admin' = row
      /\ retired' = IF row.jti = admin.jti THEN retired
                    ELSE retired \cup ({admin.jti} \ {NoSession})
      /\ minted' = minted
  BY DEF Save, Store
<1>4. /\ ~Carries(r)'
      /\ \A q \in Requests \ {r} :
            object'[q] = object[q] /\ Carries(q)' = Carries(q)
  BY NewAdminRow DEF Save, Forget, Carries, TypeOK
<1>5. row.jti = admin.jti \/ row.jti = NoSession
      \/ (Carries(r) /\ row.jti = object[r].jti)
  BY <1>2 DEF Carries
<1>6. admin.jti \in SessionIds \cup {NoSession}
  BY <1>1 DEF AdminRow
<1>7. TypeOK'
  BY <1>1, <1>2, <1>3, <1>6, NewAdminRow
     DEF TypeOK, Save, Forget, Stages, AdminRow
<1>8. NoSession \notin retired
  BY DEF TypeOK, SessionIds, NoSession
<1>9. RetiredNeverCurrent'
  BY <1>3, <1>5, <1>8 DEF RetiredNeverCurrent, SessionsStoredOnce
<1>10. SessionsStoredOnce'
  <2>1. admin'.jti <= minted'
    BY <1>3, <1>5, BoundsAssumption DEF SessionsStoredOnce, TypeOK, NoSession
  <2>2. retired' \subseteq 1..minted'
    <3>1. {admin.jti} \ {NoSession} \subseteq 1..minted
      BY <1>6, BoundsAssumption
         DEF SessionsStoredOnce, TypeOK, NoSession, SessionIds
    <3> QED  BY <1>3, <3>1 DEF SessionsStoredOnce
  <2>3. ASSUME NEW q \in Requests, Carries(q)'
        PROVE  /\ object'[q].jti <= minted'
               /\ object'[q].jti \notin retired' \cup {admin'.jti}
               /\ \A p \in Requests \ {q} : object'[p].jti # object'[q].jti
                                            \/ ~Carries(p)'
    <3>1. q # r /\ Carries(q) /\ object'[q] = object[q]
      BY <1>4, <2>3
    <3>2. /\ object[q].jti <= minted
          /\ object[q].jti \notin retired \cup {admin.jti}
          /\ \A p \in Requests \ {q} : object[p].jti # object[q].jti
                                       \/ ~Carries(p)
      BY <3>1 DEF SessionsStoredOnce
    <3>3. object[q].jti # row.jti
      BY <1>5, <3>1, <3>2 DEF Carries
    <3> QED  BY <1>3, <1>4, <3>1, <3>2, <3>3
  <2> QED  BY <2>1, <2>2, <2>3 DEF SessionsStoredOnce
<1>11. CounterBelowLimit'
  BY <1>2, <1>3 DEF CounterBelowLimit, ObjectsBelowLimit
<1>12. ObjectsBelowLimit'
  BY NewAdminRow DEF ObjectsBelowLimit, Save, Forget, TypeOK
<1> QED  BY <1>7, <1>9, <1>10, <1>11, <1>12

-----------------------------------------------------------------------------
(* Every step of every request, of the clock and of the operator keeps it. *)
LEMMA NextKeepsIndInv == IndInv /\ [Next]_vars => IndInv'
<1> SUFFICES ASSUME IndInv, [Next]_vars PROVE IndInv'
  OBVIOUS
<1> USE DEF IndInv
<1>1. /\ admin \in AdminRow /\ now \in Nat /\ minted \in Nat
      /\ admin.failed < MaxFailedLoginAttempts
      /\ \A r \in Requests : token[r] \in SessionIds \cup {NoSession}
  BY BoundsAssumption DEF TypeOK, CounterBelowLimit
<1>2. MintSession => NewSession \in SessionIds
  BY BoundsAssumption, <1>1 DEF MintSession, NewSession, SessionIds
<1>3. CASE Tick
  <2>1. now' \in 1..MaxTime
    BY <1>3, BoundsAssumption DEF Tick, TypeOK
  <2>2. UNCHANGED <<admin, minted, requestVars, delivered, retired>>
    BY <1>3 DEF Tick
  <2> QED
    BY <2>1, <2>2 DEF requestVars, TypeOK, RetiredNeverCurrent, Carries,
         SessionsStoredOnce, CounterBelowLimit, ObjectsBelowLimit
<1>4. ASSUME NEW status \in Statuses, OperatorSetsStatus(status)
      PROVE  IndInv'
  <2>1. /\ admin' \in AdminRow
        /\ admin'.jti = admin.jti /\ admin'.failed = admin.failed
    BY <1>1, <1>4 DEF OperatorSetsStatus, AdminRow
  <2>2. UNCHANGED <<now, minted, requestVars, delivered, retired>>
    BY <1>4 DEF OperatorSetsStatus
  <2> QED
    BY <2>1, <2>2 DEF requestVars, TypeOK, RetiredNeverCurrent, Carries,
         SessionsStoredOnce, CounterBelowLimit, ObjectsBelowLimit
<1>5. ASSUME NEW r \in Requests, NEW result \in Outcomes, Refuse(r, result)
      PROVE  IndInv'
  BY <1>5 DEF Refuse, TypeOK, Stages, RetiredNeverCurrent, Carries,
       SessionsStoredOnce, CounterBelowLimit, ObjectsBelowLimit
<1>6. ASSUME NEW r \in Requests, Login(r)
      PROVE  IndInv'
  <2>1. CASE LoginLocked(r)
    BY <1>5, <2>1 DEF LoginLocked, Outcomes
  <2> DEFINE seen == Unlocked(admin)
  <2>2. seen \in AdminRow /\ seen.failed < MaxFailedLoginAttempts
        /\ seen.jti = admin.jti
    BY <1>1, LoginRows
  <2>3. ASSUME NEW p \in Passwords, LoginWrongPassword(r, p)
        PROVE  IndInv'
    <3> DEFINE row == Penalised(seen, now)
    <3>1. row \in AdminRow /\ row.failed < MaxFailedLoginAttempts
          /\ row.jti = admin.jti
      BY <1>1, <2>2, LoginRows
    <3>2. PICK result \in Outcomes : Read(r, row, result)
      BY <2>3 DEF LoginWrongPassword, Outcomes
    <3>3. minted' = minted
      BY <2>3 DEF LoginWrongPassword
    <3> QED  BY <3>1, <3>2, <3>3, ReadKeepsIndInv
  <2>4. ASSUME NEW p \in Passwords, LoginInactive(r, p)
        PROVE  IndInv'
    BY <2>2, <2>4, ReadKeepsIndInv DEF LoginInactive, Outcomes
  <2>5. ASSUME NEW p \in Passwords, LoginAccepted(r, p)
        PROVE  IndInv'
    <3>1. /\ MintSession
          /\ Read(r, Issuing(seen), "LoginOk")
      BY <2>5 DEF LoginAccepted
    <3>2. Issuing(seen) \in AdminRow
          /\ Issuing(seen).failed < MaxFailedLoginAttempts
          /\ Issuing(seen).jti = NewSession
      BY <1>1, <1>2, <2>2, <3>1, LoginRows
    <3> QED  BY <3>1, <3>2, ReadKeepsIndInv DEF Outcomes
  <2> QED  BY <1>6, <2>1, <2>3, <2>4, <2>5 DEF Login
<1>7. ASSUME NEW r \in Requests, PresentToken(r)
      PROVE  IndInv'
  <2> PICK s \in delivered : TokenRefused(r, s) \/ RefreshAccepted(r, s)
                             \/ LogoutAccepted(r, s)
    BY <1>7 DEF PresentToken
  <2>1. CASE TokenRefused(r, s)
    BY <1>5, <2>1 DEF TokenRefused, Outcomes
  <2>2. CASE RefreshAccepted(r, s)
    <3> DEFINE row == [admin EXCEPT !.jti = NewSession]
    <3>1. MintSession /\ Read(r, row, "RefreshOk")
      BY <2>2 DEF RefreshAccepted
    <3>2. row \in AdminRow /\ row.failed < MaxFailedLoginAttempts
          /\ row.jti = NewSession
      BY <1>1, <1>2, <3>1 DEF AdminRow
    <3> QED  BY <3>1, <3>2, ReadKeepsIndInv DEF Outcomes
  <2>3. CASE LogoutAccepted(r, s)
    <3> DEFINE row == [admin EXCEPT !.jti = NoSession]
    <3>1. minted' = minted /\ Read(r, row, "LogoutOk")
      BY <2>3 DEF LogoutAccepted
    <3>2. row \in AdminRow /\ row.failed < MaxFailedLoginAttempts
          /\ row.jti = NoSession
      BY <1>1 DEF AdminRow
    <3> QED  BY <3>1, <3>2, ReadKeepsIndInv DEF Outcomes
  <2> QED  BY <2>1, <2>2, <2>3
<1>8. ASSUME NEW r \in Requests, Finish(r)
      PROVE  IndInv'
  <2>1. CASE Save(r)
    BY <2>1, SaveKeepsIndInv
  <2>2. CASE AuditFails(r)
    BY <2>2, ForgetKeepsIndInv DEF AuditFails, Stages, Outcomes, TypeOK
  <2>3. CASE LoginTimeout(r)
    BY <2>3, ForgetKeepsIndInv DEF LoginTimeout, Stages, Outcomes, TypeOK
  <2>4. CASE Respond(r)
    BY <1>1, <2>4, ForgetKeepsIndInv DEF Respond, Stages, Outcomes, TypeOK
  <2>5. CASE Abort(r)
    BY <2>5, ForgetKeepsIndInv DEF Abort, Stages, Outcomes, TypeOK
  <2> QED  BY <1>8, <2>1, <2>2, <2>3, <2>4, <2>5 DEF Finish
<1>9. CASE UNCHANGED vars
  BY <1>9 DEF vars, requestVars, TypeOK, RetiredNeverCurrent, Carries,
       SessionsStoredOnce, CounterBelowLimit, ObjectsBelowLimit
<1> QED  BY <1>3, <1>4, <1>6, <1>7, <1>8, <1>9 DEF Next, RequestStep

(* Every session is stored at most once, no request carries one that was   *)
(* stored or that another request carries, and no counter, stored or in    *)
(* hand, reaches the limit: what AuthService rests on holds in every state *)
(* of every behaviour.                                                     *)
THEOREM AlwaysIndInv == Spec => []IndInv
BY InitIndInv, NextKeepsIndInv, PTL DEF Spec

(* Every variable keeps its type. *)
THEOREM TypesHold == Spec => []TypeOK
BY AlwaysIndInv, PTL DEF IndInv

(* A session that was replaced or logged out never validates again, with   *)
(* any number of logins, refreshes and logouts racing.                     *)
THEOREM RetiredStayRetired == Spec => []RetiredNeverCurrent
BY AlwaysIndInv, PTL DEF IndInv

(* The stored failure counter stays below the configured limit, for any    *)
(* limit and with any number of wrong logins racing.                       *)
THEOREM CounterStaysBelowLimit == Spec => []CounterBelowLimit
BY AlwaysIndInv, PTL DEF IndInv

-----------------------------------------------------------------------------
(* A request that has a lock it read to take back found it expired. *)
LiftsExpired(r) ==
    loaded[r].lockedUntil # NoLock /\ object[r].lockedUntil # loaded[r].lockedUntil
    => loaded[r].lockedUntil <= now

LockInv == IndInv /\ \A r \in Requests : LiftsExpired(r)

LEMMA NextKeepsLockInv == LockInv /\ [Next]_vars => LockInv'
<1> SUFFICES ASSUME LockInv, [Next]_vars, NEW q \in Requests PROVE LiftsExpired(q)'
  BY NextKeepsIndInv DEF LockInv
<1> USE DEF LockInv, IndInv
<1>1. admin \in AdminRow /\ loaded[q] \in AdminRow /\ object[q] \in AdminRow
      /\ now \in Nat /\ minted \in Nat
  BY BoundsAssumption DEF TypeOK
<1>2. CASE loaded'[q] = loaded[q] /\ object'[q] = object[q]
  <2>1. now' \in Nat /\ now <= now'
    BY <1>1 DEF Next, vars, Tick, OperatorSetsStatus, RequestStep, Login,
         LoginLocked, LoginWrongPassword, LoginInactive, LoginAccepted,
         PresentToken, TokenRefused, RefreshAccepted, LogoutAccepted, Read,
         Refuse, Finish, Save, AuditFails, LoginTimeout, Respond, Abort
  <2>2. loaded[q].lockedUntil \in Nat
    BY <1>1 DEF AdminRow
  <2> QED  BY <1>1, <1>2, <2>1, <2>2 DEF LiftsExpired
<1>3. CASE loaded'[q] = NewAdmin /\ object'[q] = NewAdmin
  BY <1>3 DEF LiftsExpired
<1>4. ASSUME NEW row, NEW result, Read(q, row, result),
             row.lockedUntil = admin.lockedUntil \/ ~Locked(admin, now)
      PROVE  LiftsExpired(q)'
  <2>1. loaded'[q] = admin /\ object'[q] = row /\ now' = now
    BY <1>4 DEF Read, TypeOK
  <2>2. admin.lockedUntil \in Nat
    BY <1>1 DEF AdminRow
  <2> QED  BY <1>1, <1>4, <2>1, <2>2 DEF LiftsExpired, Locked
<1>5. CASE Login(q)
  <2>1. CASE LoginLocked(q)
    BY <1>2, <2>1 DEF LoginLocked, Refuse
  <2>2. ASSUME NEW p \in Passwords, LoginWrongPassword(q, p)
        PROVE  LiftsExpired(q)'
    BY <1>4, <2>2 DEF LoginWrongPassword
  <2>3. ASSUME NEW p \in Passwords, LoginInactive(q, p)
        PROVE  LiftsExpired(q)'
    BY <1>4, <2>3 DEF LoginInactive
  <2>4. ASSUME NEW p \in Passwords, LoginAccepted(q, p)
        PROVE  LiftsExpired(q)'
    BY <1>4, <2>4 DEF LoginAccepted
  <2> QED  BY <1>5, <2>1, <2>2, <2>3, <2>4 DEF Login
<1>6. CASE PresentToken(q)
  <2> PICK s \in delivered : TokenRefused(q, s) \/ RefreshAccepted(q, s)
                             \/ LogoutAccepted(q, s)
    BY <1>6 DEF PresentToken
  <2>1. CASE TokenRefused(q, s)
    BY <1>2, <2>1 DEF TokenRefused, Refuse
  <2>2. \A jti : [admin EXCEPT !.jti = jti].lockedUntil = admin.lockedUntil
    BY <1>1 DEF AdminRow
  <2>3. CASE RefreshAccepted(q, s) \/ LogoutAccepted(q, s)
    BY <1>4, <2>2, <2>3 DEF RefreshAccepted, LogoutAccepted
  <2> QED  BY <2>1, <2>3
<1>7. CASE Finish(q)
  BY <1>3, <1>7 DEF Finish, Save, AuditFails, LoginTimeout, Respond, Abort,
       Forget, TypeOK
<1>8. ASSUME ~RequestStep(q)
      PROVE  loaded'[q] = loaded[q] /\ object'[q] = object[q]
  <2>1. CASE Tick \/ (\E status \in Statuses : OperatorSetsStatus(status))
             \/ UNCHANGED vars
    BY <2>1 DEF Tick, OperatorSetsStatus, vars, requestVars
  <2>2. ASSUME NEW r \in Requests \ {q}, RequestStep(r)
        PROVE  loaded'[q] = loaded[q] /\ object'[q] = object[q]
    BY <2>2 DEF RequestStep, Login, LoginLocked, LoginWrongPassword,
         LoginInactive, LoginAccepted, PresentToken, TokenRefused,
         RefreshAccepted, LogoutAccepted, Read, Refuse, Finish, Save,
         AuditFails, LoginTimeout, Respond, Abort, Forget, TypeOK
  <2> QED  BY <1>8, <2>1, <2>2 DEF Next
<1> QED  BY <1>2, <1>5, <1>6, <1>7, <1>8 DEF RequestStep

(* With any number of requests racing, a lock in force is taken back only  *)
(* by a request that had read an older lock, already expired.              *)
THEOREM LocksHold == Spec => LockLiftedOnlyByStaleExpiry
<1>1. Init => LockInv
  BY InitIndInv DEF Init, LockInv, LiftsExpired
<1>2. ASSUME LockInv, [Next]_vars, Locked(admin, now), admin'.lockedUntil = NoLock
      PROVE  \E r \in Requests : /\ stage[r] = "save" /\ stage'[r] = "saved"
                                 /\ loaded[r].lockedUntil # NoLock
                                 /\ loaded[r].lockedUntil <= now
  <2>1. admin'.lockedUntil # admin.lockedUntil
    BY <1>2 DEF Locked
  <2>2. PICK r \in Requests : Save(r)
    <3>1. \A status \in Statuses : ~OperatorSetsStatus(status)
      BY <1>2, <2>1 DEF OperatorSetsStatus, LockInv, IndInv, TypeOK, AdminRow
    <3> QED
      BY <1>2, <2>1, <3>1 DEF Next, vars, Tick, RequestStep, Login, LoginLocked,
           LoginWrongPassword, LoginInactive, LoginAccepted, PresentToken,
           TokenRefused, RefreshAccepted, LogoutAccepted, Read, Refuse, Finish,
           AuditFails, LoginTimeout, Respond, Abort
  <2>3. admin'.lockedUntil = Column(admin.lockedUntil, loaded[r].lockedUntil,
                                    object[r].lockedUntil)
    BY <2>2 DEF Save, Store, Written
  <2>4. object[r].lockedUntil # loaded[r].lockedUntil /\ object[r].lockedUntil = NoLock
    BY <1>2, <2>1, <2>3 DEF Column
  <2>5. stage[r] = "save" /\ stage'[r] = "saved"
    BY <1>2, <2>2 DEF Save, Forget, LockInv, IndInv, TypeOK
  <2> QED  BY <1>2, <2>4, <2>5 DEF LockInv, LiftsExpired
<1>3. LockInv /\ [Next]_vars => [StaleExpiryLifts]_vars
  BY <1>2 DEF StaleExpiryLifts
<1>4. Spec => []LockInv
  BY <1>1, NextKeepsLockInv, PTL DEF Spec
<1> QED
  BY <1>3, <1>4, PTL DEF Spec, LockLiftedOnlyByStaleExpiry

-----------------------------------------------------------------------------
(* Only a commit moves the pointer, and it moves it as the register does.  *)
LEMMA SaveIsRegisterStep ==
    ASSUME IndInv, NEW r \in Requests, Save(r)
    PROVE  Register!Next \/ UNCHANGED Register!registerVars
<1> DEFINE row == Written(admin, loaded[r], object[r])
<1>1. /\ admin \in AdminRow /\ loaded[r] \in AdminRow /\ object[r] \in AdminRow
  BY DEF IndInv, TypeOK
<1>2. row.jti = IF object[r].jti = loaded[r].jti THEN admin.jti ELSE object[r].jti
  BY <1>1, WrittenRow
<1>3. /\ admin' = row
      /\ retired' = IF row.jti = admin.jti THEN retired
                    ELSE retired \cup ({admin.jti} \ {NoSession})
  BY DEF Save, Store
<1>4. CASE row.jti = admin.jti
  BY <1>3, <1>4 DEF Register!registerVars
<1>5. CASE row.jti # admin.jti /\ row.jti = NoSession
  BY <1>3, <1>5 DEF Register!Next, Register!Revoke, Register!Leaving
<1>6. CASE row.jti # admin.jti /\ row.jti # NoSession
  <2>1. Carries(r) /\ row.jti = object[r].jti
    BY <1>2, <1>6 DEF Carries
  <2>2. row.jti \notin retired \cup {admin.jti, NoSession}
    BY <1>6, <2>1 DEF IndInv, SessionsStoredOnce
  <2>3. row.jti \in SessionIds
    BY <1>1, <1>6, <2>1 DEF AdminRow
  <2>4. Register!Issue(row.jti)
    BY <1>3, <1>6, <2>2 DEF Register!Issue, Register!Leaving
  <2> QED  BY <2>3, <2>4 DEF Register!Next
<1> QED  BY <1>4, <1>5, <1>6

(* Every other step leaves the register as it is. *)
LEMMA StepIsRegisterStep ==
    IndInv /\ [Next]_vars => [Register!Next]_(Register!registerVars)
<1> SUFFICES ASSUME IndInv, [Next]_vars
             PROVE  Register!Next \/ UNCHANGED Register!registerVars
  OBVIOUS
<1>1. ASSUME NEW r \in Requests, Save(r)
      PROVE  Register!Next \/ UNCHANGED Register!registerVars
  BY <1>1, SaveIsRegisterStep
<1>2. CASE Tick \/ UNCHANGED vars
  BY <1>2 DEF Tick, vars, Register!registerVars
<1>3. ASSUME NEW status \in Statuses, OperatorSetsStatus(status)
      PROVE  UNCHANGED Register!registerVars
  BY <1>3 DEF OperatorSetsStatus, IndInv, TypeOK, AdminRow, Register!registerVars
<1>4. ASSUME NEW r \in Requests, Login(r) \/ PresentToken(r)
      PROVE  UNCHANGED Register!registerVars
  BY <1>4 DEF Login, LoginLocked, LoginWrongPassword, LoginInactive,
       LoginAccepted, PresentToken, TokenRefused, RefreshAccepted,
       LogoutAccepted, Read, Refuse, Register!registerVars
<1>5. ASSUME NEW r \in Requests, Finish(r), ~Save(r)
      PROVE  UNCHANGED Register!registerVars
  BY <1>5 DEF Finish, AuditFails, LoginTimeout, Respond, Abort,
       Register!registerVars
<1> QED  BY <1>1, <1>2, <1>3, <1>4, <1>5 DEF Next, RequestStep

(* The row's pointer is a session register: whatever requests race, a      *)
(* session is issued at most once and once replaced never comes back.      *)
THEOREM AuthImplementsRegister == Spec => ImplementsRegister
<1>1. Init => Register!Init
  BY DEF Init, NewAdmin, Register!Init
<1>2. IndInv /\ [Next]_vars => [Register!Next]_(Register!registerVars)
  BY StepIsRegisterStep
<1> QED
  BY <1>1, <1>2, AlwaysIndInv, PTL DEF Spec, ImplementsRegister, Register!Spec

=============================================================================
