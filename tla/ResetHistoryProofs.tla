------------------------- MODULE ResetHistoryProofs --------------------------
(***************************************************************************)
(* Theorems about the watched PasswordReset: what the observer of          *)
(* ResetHistory remembers, compared with what the rows say.  Some hold     *)
(* whatever resets, codes and logins race; the others of every behaviour   *)
(* in which resets, or requests for codes, do not overlap.                 *)
(***************************************************************************)
EXTENDS ResetHistory, PasswordResetProofs, FunctionTheorems

(* The observer only watches: whatever holds of PasswordReset holds of the *)
(* watched one.                                                            *)
THEOREM WatcherOnlyWatches == WatchedSpec => ResetSpec
<1>1. WatchedInit => ResetInit
  BY DEF WatchedInit
<1>2. [WatchedNext]_<<allVars, watchVars>> => [ResetNext]_allVars
  <2> SUFFICES ASSUME [WatchedNext]_<<allVars, watchVars>>
               PROVE  [ResetNext]_allVars
    OBVIOUS
  <2>1. ASSUME NEW q \in OtpRequests,
               \/ OtpCommit(q) /\ RecordGrant(q) /\ UNCHANGED resetVars
               \/ (OtpPrepare(q) \/ OtpAbort(q)) /\ UNCHANGED <<resetVars, watchVars>>
        PROVE  ResetNext
    BY <2>1 DEF ResetNext, OtpNext, OtpStep
  <2>2. CASE Next /\ UNCHANGED <<otpVars, resetVars, watchVars>>
    BY <2>2 DEF ResetNext, OtpNext
  <2>3. ASSUME NEW q \in Resets, ResetStep(q)
        PROVE  ResetNext
    BY <2>3 DEF ResetNext
  <2> QED  BY <2>1, <2>2, <2>3 DEF WatchedNext
<1> QED  BY <1>1, <1>2, PTL DEF WatchedSpec, ResetSpec

-----------------------------------------------------------------------------
(* No request of AuthService assigns to the hash. *)
HashesUntouched == \A r \in Requests : object[r].hash = loaded[r].hash

LEMMA LoginsSpareTheHash ==
    ASSUME IndInv, HashesUntouched, [Next]_vars
    PROVE  HashesUntouched' /\ admin'.hash = admin.hash
<1> USE DEF IndInv
<1>1. admin \in AdminRow /\ TypeOK
  BY DEF TypeOK
<1>2. /\ Unlocked(admin) \in AdminRow /\ Unlocked(admin).hash = admin.hash
      /\ \A jti : [admin EXCEPT !.jti = jti].hash = admin.hash
      /\ \A status : [admin EXCEPT !.status = status].hash = admin.hash
  BY <1>1 DEF Unlocked, AdminRow, NoLock
<1>3. \A row \in AdminRow : /\ Penalised(row, now).hash = row.hash
                            /\ Issuing(row).hash = row.hash
  BY DEF Penalised, Issuing, AdminRow
<1>4. ASSUME NEW r \in Requests, NEW row, NEW result, Read(r, row, result),
             row.hash = admin.hash
      PROVE  HashesUntouched' /\ admin'.hash = admin.hash
  BY <1>1, <1>4 DEF Read, TypeOK, HashesUntouched
<1>5. ASSUME NEW r \in Requests, NEW next, NEW result, Forget(r, next, result)
      PROVE  HashesUntouched'
  BY <1>1, <1>5 DEF Forget, TypeOK, HashesUntouched
<1>6. ASSUME NEW r \in Requests, Login(r)
      PROVE  HashesUntouched' /\ admin'.hash = admin.hash
  <2>1. CASE LoginLocked(r)
    BY <2>1 DEF LoginLocked, Refuse, HashesUntouched
  <2>2. ASSUME NEW p \in Passwords, LoginWrongPassword(r, p)
        PROVE  HashesUntouched' /\ admin'.hash = admin.hash
    BY <1>2, <1>3, <1>4, <2>2 DEF LoginWrongPassword
  <2>3. ASSUME NEW p \in Passwords, LoginInactive(r, p) \/ LoginAccepted(r, p)
        PROVE  HashesUntouched' /\ admin'.hash = admin.hash
    BY <1>2, <1>3, <1>4, <2>3 DEF LoginInactive, LoginAccepted
  <2> QED  BY <1>6, <2>1, <2>2, <2>3 DEF Login
<1>7. ASSUME NEW r \in Requests, PresentToken(r)
      PROVE  HashesUntouched' /\ admin'.hash = admin.hash
  <2> PICK s \in delivered : TokenRefused(r, s) \/ RefreshAccepted(r, s)
                             \/ LogoutAccepted(r, s)
    BY <1>7 DEF PresentToken
  <2>1. CASE TokenRefused(r, s)
    BY <2>1 DEF TokenRefused, Refuse, HashesUntouched
  <2>2. CASE RefreshAccepted(r, s) \/ LogoutAccepted(r, s)
    BY <1>2, <1>4, <2>2 DEF RefreshAccepted, LogoutAccepted
  <2> QED  BY <2>1, <2>2
<1>8. ASSUME NEW r \in Requests, Finish(r)
      PROVE  HashesUntouched' /\ admin'.hash = admin.hash
  <2>1. HashesUntouched'
    BY <1>5, <1>8 DEF Finish, Save, AuditFails, LoginTimeout, Respond, Abort
  <2>2. CASE Save(r)
    BY <2>1, <2>2 DEF Save, Store, Written, Column, HashesUntouched
  <2>3. CASE ~Save(r)
    BY <1>8, <2>1, <2>3 DEF Finish, AuditFails, LoginTimeout, Respond, Abort
  <2> QED  BY <2>2, <2>3
<1>9. CASE Tick \/ UNCHANGED vars
  BY <1>9 DEF Tick, vars, requestVars, HashesUntouched
<1>10. ASSUME NEW status \in Statuses, OperatorSetsStatus(status)
       PROVE  HashesUntouched' /\ admin'.hash = admin.hash
  BY <1>2, <1>10 DEF OperatorSetsStatus, requestVars, HashesUntouched
<1> QED  BY <1>6, <1>7, <1>8, <1>9, <1>10 DEF Next, RequestStep

(* The observer notes the store of a reset and no other step of it. *)
LEMMA ResetStepWatched ==
    ASSUME ResetTypeOK, NEW q \in Resets, ResetStep(q), RecordReset(q)
    PROVE  /\ ResetStore(q) =>
              /\ past' = Append(past, admin.hash)
              /\ redeemed' = [redeemed EXCEPT ![resetEmail[q]] = @ + 1]
           /\ ~ResetStore(q) => UNCHANGED <<vars, past, redeemed>>
<1>1. ResetStore(q) => step[q] = "store" /\ step'[q] = "deleteOtp"
  BY DEF ResetStore, Goto, ResetTypeOK
<1>2. ~ResetStore(q) => step'[q] # "deleteOtp" \/ step[q] # "store"
  BY DEF ResetStep, ResetReadAdmin, ResetReadOtp, ResetReused, ResetReadHistory,
         ResetAddEntry, ResetRefreshEntry, ResetReadTrim, ResetTrim, ResetDeleteOtp,
         ResetAbort, ResetOver, Goto, ResetTypeOK
<1> QED  BY <1>1, <1>2, ResetStepFrame DEF RecordReset

(* What the row of a reset says after its store. *)
LEMMA StoredHash ==
    ASSUME ResetTypeOK, NEW q \in Resets, ResetStore(q)
    PROVE  /\ admin'.hash = IF chosen[q] = view[q].hash THEN admin.hash
                            ELSE chosen[q]
           /\ UNCHANGED <<requestVars, history, view>>
<1>1. view[q] \in AdminRow
  BY DEF ResetTypeOK
<1>2. Renewed(view[q], chosen[q]).hash = chosen[q]
  BY <1>1 DEF Renewed, AdminRow
<1> QED  BY <1>2 DEF ResetStore, Store, Written, Column

-----------------------------------------------------------------------------
(* A password the admin has or had. *)
Real(password) == password = admin.hash \/ \E i \in DOMAIN past : past[i] = password

(* Every password a reset may still write into the history is real. *)
RealInv ==
    /\ ResetInv
    /\ HashesUntouched
    /\ past \in Seq(Passwords)
    /\ Real(InitialPassword)
    /\ \A q \in Resets : Real(view[q].hash)
    /\ HistoryIsReal

(* What was real stays real: a password leaves the row only for past. *)
LEMMA RealStays ==
    ASSUME ResetTypeOK, past \in Seq(Passwords), admin.hash \in Passwords,
           \/ past' = past /\ admin'.hash = admin.hash
           \/ past' = Append(past, admin.hash)
    PROVE  past' \in Seq(Passwords) /\ \A p : Real(p) => Real(p)'
<1>1. CASE past' = past /\ admin'.hash = admin.hash
  BY <1>1 DEF Real
<1>2. CASE past' = Append(past, admin.hash)
  <2>1. /\ past' \in Seq(Passwords)
        /\ Len(past) + 1 \in DOMAIN past' /\ past'[Len(past) + 1] = admin.hash
        /\ \A i \in DOMAIN past : i \in DOMAIN past' /\ past'[i] = past[i]
    BY <1>2
  <2> QED  BY <2>1 DEF Real
<1> QED  BY <1>1, <1>2

(* A step of a reset that does not store. *)
LEMMA ResetStepKeepsReal ==
    ASSUME RealInv, ResetInv', NEW q \in Resets, ResetStep(q), RecordReset(q)
    PROVE  RealInv'
<1> USE DEF RealInv, ResetInv
<1>1. /\ ResetTypeOK /\ admin \in AdminRow /\ admin.hash \in Passwords
  BY DEF ResetTypeOK, TypeOK, AdminRow
<1>2. CASE ResetStore(q)
  <2>1. past' \in Seq(Passwords) /\ \A p : Real(p) => Real(p)'
    BY <1>1, <1>2, ResetStepWatched, RealStays
  <2>2. UNCHANGED <<requestVars, history, view>>
    BY <1>1, <1>2, StoredHash
  <2>3. HashesUntouched'
    BY <2>2 DEF HashesUntouched, requestVars
  <2>4. \A p \in Resets : Real(view[p].hash)'
    BY <2>1, <2>2 DEF Real
  <2>5. HistoryIsReal'
    BY <2>1, <2>2 DEF HistoryIsReal, Real
  <2> QED  BY <2>1, <2>3, <2>4, <2>5
<1>3. CASE ~ResetStore(q)
  <2>1. UNCHANGED <<vars, past>>
    BY <1>1, <1>3, ResetStepWatched
  <2>2. past' \in Seq(Passwords) /\ \A p : Real(p) => Real(p)'
    BY <2>1 DEF vars, Real
  <2>3. HashesUntouched'
    BY <2>1 DEF HashesUntouched, vars, requestVars
  <2>4. \A p \in Resets : view'[p].hash \in {view[p].hash, admin.hash, InitialPassword}
    <3>1. NewAdmin.hash = InitialPassword
      BY DEF NewAdmin
    <3> QED
      BY <1>1, <1>3, <3>1
         DEF ResetTypeOK, ResetStep, ResetReadAdmin, ResetReadOtp, ResetReused,
             ResetReadHistory, ResetAddEntry, ResetRefreshEntry, ResetReadTrim,
             ResetTrim, ResetDeleteOtp, ResetAbort, ResetOver
  <2>5. \A p \in Resets : Real(view'[p].hash)
    BY <2>4 DEF Real
  <2>6. \A p \in Resets : Real(view[p].hash)'
    BY <2>1, <2>5 DEF Real, vars
  <2>7. \A h \in history' : h \in history \/ h.hash = view[q].hash
    BY <1>1, <1>3
       DEF ResetTypeOK, ResetStep, ResetReadAdmin, ResetReadOtp, ResetReused,
           ResetReadHistory, ResetAddEntry, ResetRefreshEntry, ResetReadTrim,
           ResetTrim, ResetDeleteOtp, ResetAbort, ResetOver
  <2>8. HistoryIsReal'
    BY <2>1, <2>7 DEF HistoryIsReal, Real, vars
  <2> QED  BY <2>2, <2>3, <2>6, <2>8
<1> QED  BY <1>2, <1>3

LEMMA NextKeepsReal ==
    RealInv /\ [WatchedNext]_<<allVars, watchVars>> => RealInv'
<1> SUFFICES ASSUME RealInv, [WatchedNext]_<<allVars, watchVars>>
             PROVE  RealInv'
  OBVIOUS
<1>1. [ResetNext]_allVars
  BY DEF WatchedNext, ResetNext, OtpNext, OtpStep
<1>2. ResetInv' /\ IndInv
  BY <1>1, ResetNextKeepsInv DEF RealInv, ResetInv
<1>3. ASSUME NEW q \in Resets, ResetStep(q), RecordReset(q)
      PROVE  RealInv'
  BY <1>2, <1>3, ResetStepKeepsReal
<1>4. ASSUME [Next]_vars, UNCHANGED <<resetVars, past>>
      PROVE  RealInv'
  <2>1. HashesUntouched' /\ admin'.hash = admin.hash
    BY <1>2, <1>4, LoginsSpareTheHash DEF RealInv
  <2> QED
    BY <1>2, <1>4, <2>1 DEF RealInv, Real, HistoryIsReal, resetVars
<1>5. ASSUME NEW q \in OtpRequests, OtpStep(q)
      PROVE  UNCHANGED vars
  BY <1>5, OtpStepKeepsCodes DEF RealInv
<1>6. CASE UNCHANGED <<allVars, watchVars>>
  BY <1>4, <1>6 DEF allVars, watchVars
<1>7. ASSUME NEW q \in OtpRequests,
             \/ OtpCommit(q) /\ RecordGrant(q) /\ UNCHANGED resetVars
             \/ (OtpPrepare(q) \/ OtpAbort(q)) /\ UNCHANGED <<resetVars, watchVars>>
      PROVE  RealInv'
  BY <1>4, <1>5, <1>7 DEF OtpStep, RecordGrant, watchVars
<1>8. CASE Next /\ UNCHANGED <<otpVars, resetVars, watchVars>>
  BY <1>4, <1>8 DEF watchVars
<1> QED  BY <1>3, <1>6, <1>7, <1>8 DEF WatchedNext

(* However many resets, logins and requests race, and wherever they are    *)
(* cut short, the history holds only passwords the admin has or had.       *)
THEOREM HistoryStaysReal == WatchedSpec => []HistoryIsReal
<1>1. WatchedInit => RealInv
  <2> SUFFICES ASSUME WatchedInit PROVE RealInv
    OBVIOUS
  <2>1. ResetInv
    BY ResetInvInit DEF WatchedInit
  <2>2. /\ past = <<>> /\ history = {} /\ admin.hash = InitialPassword
        /\ \A q \in Resets : view[q].hash = InitialPassword
        /\ HashesUntouched
    BY DEF WatchedInit, ResetInit, OtpInit, Init, NewAdmin, HashesUntouched
  <2> QED  BY <2>1, <2>2 DEF RealInv, Real, HistoryIsReal
<1>2. RealInv => HistoryIsReal
  BY DEF RealInv
<1> QED  BY <1>1, <1>2, NextKeepsReal, PTL DEF WatchedSpec

-----------------------------------------------------------------------------
(* At most one reset is being served.                                      *)
ResetsAlone ==
    \A p, q \in Resets : step[p] # "idle" /\ step[q] # "idle" => p = q

(* The entries a reset is about to spare are still the latest ones. *)
KeptInv ==
    /\ ResetInv
    /\ \A q \in Resets : step[q] = "trim" => keep[q] = Recent(PasswordHistoryDepth)

LEMMA NextKeepsKept ==
    KeptInv /\ ResetsAlone /\ ResetsAlone' /\ [ResetNext]_allVars => KeptInv'
<1> SUFFICES ASSUME KeptInv, ResetsAlone, ResetsAlone', [ResetNext]_allVars
             PROVE  KeptInv'
  OBVIOUS
<1>1. ResetInv' /\ ResetTypeOK
  BY ResetNextKeepsInv DEF KeptInv, ResetInv
<1>2. CASE UNCHANGED resetVars
  BY <1>1, <1>2 DEF KeptInv, Recent, resetVars
<1>3. ASSUME NEW p \in Resets, ResetStep(p), NEW q \in Resets, step'[q] = "trim"
      PROVE  keep'[q] = Recent(PasswordHistoryDepth)'
  <2>1. step[p] # "idle" \/ step'[p] # "idle"
    BY <1>1, <1>3
       DEF ResetTypeOK, ResetStep, ResetReadAdmin, ResetReadOtp, ResetReused,
           ResetReadHistory, ResetAddEntry, ResetRefreshEntry, ResetReadTrim,
           ResetTrim, ResetStore, ResetDeleteOtp, ResetAbort, Goto
  <2>2. q # p => step'[q] = step[q]
    BY <1>1, <1>3
       DEF ResetTypeOK, ResetStep, ResetReadAdmin, ResetReadOtp, ResetReused,
           ResetReadHistory, ResetAddEntry, ResetRefreshEntry, ResetReadTrim,
           ResetTrim, ResetStore, ResetDeleteOtp, ResetAbort, ResetOver, Goto
  <2>3. p = q
    BY <1>3, <2>1, <2>2 DEF ResetsAlone
  <2>4. ResetReadTrim(p)
    BY <1>1, <1>3, <2>3
       DEF ResetTypeOK, ResetStep, ResetReadAdmin, ResetReadOtp, ResetReused,
           ResetReadHistory, ResetAddEntry, ResetRefreshEntry, ResetReadTrim,
           ResetTrim, ResetStore, ResetDeleteOtp, ResetAbort, ResetOver, Goto
  <2>5. keep'[q] = Recent(PasswordHistoryDepth) /\ history' = history
    BY <1>1, <2>3, <2>4 DEF ResetReadTrim, ResetTypeOK
  <2> QED  BY <2>5 DEF Recent
<1> QED  BY <1>1, <1>2, <1>3 DEF KeptInv, ResetNext, allVars

(* As long as resets do not overlap, a trim spares the entries that are    *)
(* the most recent when it deletes, wherever earlier resets were cut short.*)
THEOREM TrimsSpareRecent == WatchedSpec /\ []ResetsAlone => TrimSparesRecent
<1>1. ResetInit => KeptInv
  BY ResetInvInit DEF KeptInv, ResetInit
<1>2. ASSUME KeptInv, [ResetNext]_allVars, NEW q \in Resets,
             step[q] = "trim", step'[q] = "store"
      PROVE  Recent(PasswordHistoryDepth) \subseteq history'
  <2>1. PICK p \in Resets : ResetStep(p)
    BY <1>2 DEF ResetNext, allVars, resetVars
  <2>2. ResetTrim(q)
    BY <1>2, <2>1
       DEF KeptInv, ResetInv, ResetTypeOK, ResetStep, ResetReadAdmin, ResetReadOtp,
           ResetReused, ResetReadHistory, ResetAddEntry, ResetRefreshEntry,
           ResetReadTrim, ResetTrim, ResetStore, ResetDeleteOtp, ResetAbort,
           ResetOver, Goto
  <2>3. history' = history \cap Recent(PasswordHistoryDepth)
    BY <1>2, <2>2 DEF ResetTrim, KeptInv
  <2> QED  BY <2>3 DEF Recent
<1>3. KeptInv /\ [ResetNext]_allVars =>
        [ \A q \in Resets : step[q] = "trim" /\ step'[q] = "store"
            => Recent(PasswordHistoryDepth) \subseteq history' ]_<<allVars, watchVars>>
  BY <1>2
<1> QED
  BY <1>1, <1>3, WatcherOnlyWatches, NextKeepsKept, PTL
     DEF ResetSpec, TrimSparesRecent

-----------------------------------------------------------------------------
(* The rows that the latest n of the passwords in seq make. *)
Row(seq, i) == [hash |-> seq[i], createdAt |-> i]
LatestOf(seq, n) == {i \in DOMAIN seq : i > Len(seq) - n}
Rows(seq, n) == {Row(seq, i) : i \in LatestOf(seq, n)}

(* The entries younger than the i-th of n entries. *)
LEMMA CountLater ==
    ASSUME NEW seq \in Seq(Passwords), NEW n \in Nat, history = Rows(seq, n),
           NEW i \in LatestOf(seq, n)
    PROVE  Cardinality({g \in history : g.createdAt > i}) = Len(seq) - i
<1> DEFINE later == {g \in history : g.createdAt > i}
           f == [j \in (i + 1)..Len(seq) |-> Row(seq, j)]
<1>1. /\ Len(seq) \in Nat /\ DOMAIN seq = 1..Len(seq) /\ i \in 1..Len(seq)
      /\ i > Len(seq) - n
  BY DEF LatestOf
<1>2. f \in [(i + 1)..Len(seq) -> later]
  <2> SUFFICES ASSUME NEW j \in (i + 1)..Len(seq) PROVE Row(seq, j) \in later
    OBVIOUS
  <2>1. j \in LatestOf(seq, n) /\ j > i
    BY <1>1 DEF LatestOf
  <2> QED  BY <2>1 DEF Rows, Row
<1>3. \A j, k \in (i + 1)..Len(seq) : f[j] = f[k] => j = k
  BY DEF Row
<1>4. ASSUME NEW g \in later
      PROVE  \E j \in (i + 1)..Len(seq) : f[j] = g
  <2>1. PICK j \in LatestOf(seq, n) : g = Row(seq, j)
    BY <1>4 DEF Rows
  <2>2. j > i
    BY <1>4, <2>1 DEF Row
  <2> QED  BY <1>1, <2>1, <2>2 DEF LatestOf
<1> HIDE DEF f, later
<1>5. f \in Bijection((i + 1)..Len(seq), later)
  BY <1>2, <1>3, <1>4, Fun_IsBij
<1>6. /\ IsFiniteSet((i + 1)..Len(seq))
      /\ Cardinality((i + 1)..Len(seq)) = Len(seq) - i
  BY <1>1, FS_Interval
<1>7. Cardinality(later) = Len(seq) - i
  BY <1>5, <1>6, FS_Bijection DEF ExistsBijection
<1> QED  BY <1>7 DEF later

(* The n latest of those rows are the rows of the n latest passwords. *)
LEMMA RecentOfRows ==
    ASSUME NEW seq \in Seq(Passwords), NEW m \in Nat, NEW n \in Nat, n <= m,
           history = Rows(seq, m)
    PROVE  Recent(n) = Rows(seq, n)
<1>1. Len(seq) \in Nat /\ DOMAIN seq = 1..Len(seq)
  OBVIOUS
<1>2. \A i \in LatestOf(seq, m) :
         Row(seq, i) \in Recent(n) <=> i \in LatestOf(seq, n)
  <2> SUFFICES ASSUME NEW i \in LatestOf(seq, m)
               PROVE  Row(seq, i) \in Recent(n) <=> i \in LatestOf(seq, n)
    OBVIOUS
  <2>1. Cardinality({g \in history : g.createdAt > i}) = Len(seq) - i
    BY CountLater
  <2>2. Row(seq, i) \in history /\ Row(seq, i).createdAt = i
    BY DEF Rows, Row
  <2>3. Row(seq, i) \in Recent(n) <=> Len(seq) - i < n
    BY <2>1, <2>2 DEF Recent
  <2> QED  BY <1>1, <2>3 DEF LatestOf
<1>3. LatestOf(seq, n) \subseteq LatestOf(seq, m)
  BY <1>1 DEF LatestOf
<1>4. Recent(n) \subseteq history
  BY DEF Recent
<1> QED  BY <1>2, <1>3, <1>4 DEF Rows

(* One more password adds one row. *)
LEMMA RowsGrow ==
    ASSUME NEW seq \in Seq(Passwords), NEW p \in Passwords, NEW n \in Nat
    PROVE  /\ Append(seq, p) \in Seq(Passwords)
           /\ Rows(Append(seq, p), n + 1)
                = Rows(seq, n) \cup {[hash |-> p, createdAt |-> Len(seq) + 1]}
<1> DEFINE more == Append(seq, p)
<1>1. /\ more \in Seq(Passwords) /\ Len(more) = Len(seq) + 1 /\ Len(seq) \in Nat
      /\ DOMAIN seq = 1..Len(seq) /\ DOMAIN more = 1..(Len(seq) + 1)
      /\ more[Len(seq) + 1] = p /\ \A i \in 1..Len(seq) : more[i] = seq[i]
  OBVIOUS
<1> HIDE DEF more
<1>2. LatestOf(more, n + 1) = LatestOf(seq, n) \cup {Len(seq) + 1}
  BY <1>1 DEF LatestOf
<1>3. \A i \in LatestOf(seq, n) : Row(more, i) = Row(seq, i)
  BY <1>1 DEF LatestOf, Row
<1>4. Row(more, Len(seq) + 1) = [hash |-> p, createdAt |-> Len(seq) + 1]
  BY <1>1 DEF Row
<1>5. Rows(more, n + 1)
        = Rows(seq, n) \cup {[hash |-> p, createdAt |-> Len(seq) + 1]}
  BY <1>2, <1>3, <1>4 DEF Rows
<1> QED  BY <1>1, <1>5 DEF more

-----------------------------------------------------------------------------
(* Resets one after the other, none of them cut short. *)
ResetsInTurn == ResetsAlone /\ aborts = 0

Settled ==
    /\ history = Rows(past, PasswordHistoryDepth)
    /\ created = Len(past)

(* The passwords replaced, once the reset being served has stored its own. *)
PastToBe == Append(past, admin.hash)

(* The steps of a reset from the draw of its stamp to its store. *)
Adding == {"addEntry", "refreshEntry", "readTrim", "trim", "store"}

(* The entries at each step of reset q. *)
Entries(q) ==
    /\ step[q] \in {"readOtp", "readHistory", "deleteOtp"} => Settled
    /\ step[q] = "addEntry" =>
          /\ history = Rows(past, PasswordHistoryDepth)
          /\ stamp[q] = Len(past) + 1
    /\ step[q] \in {"refreshEntry", "readTrim", "trim"} =>
          history = Rows(PastToBe, PasswordHistoryDepth + 1)
    /\ step[q] = "refreshEntry" => stamp[q] = Len(past) + 1
    /\ step[q] = "trim" => keep[q] = Rows(PastToBe, PasswordHistoryDepth)
    /\ step[q] = "store" => history = Rows(PastToBe, PasswordHistoryDepth)
    /\ step[q] \in Adding => created = Len(past) + 1

(* The password chosen, checked against what reset q has read, is as good  *)
(* as checked against what is stored.                                      *)
Checked(q) ==
    /\ step[q] \notin {"idle", "deleteOtp"} => view[q].hash = admin.hash
    /\ step[q] \in Adding =>
          chosen[q] \notin {admin.hash} \cup Previous(PasswordHistoryDepth)

PastInv ==
    /\ RealInv
    /\ \A q \in Resets : Checked(q)
    /\ PasswordHistoryDepth > 0 =>
          /\ \A q \in Resets : Entries(q)
          /\ (\A q \in Resets : step[q] = "idle") => Settled

(* The hashes a reset compares the new password with. *)
LEMMA RecentIsPrevious ==
    ASSUME PastInv, PasswordHistoryDepth > 0 => Settled
    PROVE  Previous(PasswordHistoryDepth)
             \subseteq {h.hash : h \in Recent(PasswordHistoryDepth)}
<1>1. past \in Seq(Passwords) /\ PasswordHistoryDepth \in Nat
  BY HistoryAssumption DEF PastInv, RealInv
<1>2. CASE PasswordHistoryDepth = 0
  <2>1. Latest(PasswordHistoryDepth) = {}
    BY <1>1, <1>2 DEF Latest
  <2> QED  BY <2>1 DEF Previous
<1>3. CASE PasswordHistoryDepth > 0
  <2>1. Recent(PasswordHistoryDepth) = Rows(past, PasswordHistoryDepth)
    BY <1>1, <1>3, RecentOfRows DEF Settled
  <2>2. \A i \in Latest(PasswordHistoryDepth) :
           Row(past, i) \in Rows(past, PasswordHistoryDepth)
           /\ Row(past, i).hash = past[i]
    BY DEF Latest, LatestOf, Rows, Row
  <2> QED  BY <2>1, <2>2 DEF Previous
<1> QED  BY <1>1, <1>2, <1>3

(* While reset q takes a step every other one is idle. *)
LEMMA OthersAreIdle ==
    ASSUME ResetTypeOK, ResetsInTurn, ResetsInTurn', NEW q \in Resets, ResetStep(q)
    PROVE  /\ \A p \in Resets \ {q} : step[p] = "idle" /\ step'[p] = "idle"
           /\ ~ResetAbort(q)
<1>1. ~ResetAbort(q)
  BY DEF ResetAbort, ResetsInTurn
<1>2. step[q] # "idle" \/ step'[q] # "idle"
  BY DEF ResetTypeOK, ResetStep, ResetReadAdmin, ResetReadOtp, ResetReused,
         ResetReadHistory, ResetAddEntry, ResetRefreshEntry, ResetReadTrim, ResetTrim,
         ResetStore, ResetDeleteOtp, ResetAbort, Goto
<1>3. \A p \in Resets \ {q} : step'[p] = step[p]
  BY DEF ResetTypeOK, ResetStep, ResetReadAdmin, ResetReadOtp, ResetReused,
         ResetReadHistory, ResetAddEntry, ResetRefreshEntry, ResetReadTrim, ResetTrim,
         ResetStore, ResetDeleteOtp, ResetAbort, ResetOver, Goto
<1> QED  BY <1>1, <1>2, <1>3 DEF ResetsInTurn, ResetsAlone

(* The facts that the steps of a reset served alone are argued from.       *)
LEMMA AloneFacts ==
    ASSUME PastInv, ResetsInTurn, ResetsInTurn', NEW q \in Resets, ResetStep(q)
    PROVE  /\ ResetTypeOK /\ past \in Seq(Passwords) /\ admin.hash \in Passwords
           /\ \A p \in Resets \ {q} : step[p] = "idle" /\ step'[p] = "idle"
           /\ ~ResetAbort(q)
           /\ PasswordHistoryDepth > 0 /\ step[q] = "idle" => Settled
<1>1. ResetTypeOK /\ past \in Seq(Passwords) /\ admin.hash \in Passwords
  BY DEF PastInv, RealInv, ResetInv, ResetTypeOK, TypeOK, AdminRow
<1>2. (\A p \in Resets \ {q} : step[p] = "idle" /\ step'[p] = "idle") /\ ~ResetAbort(q)
  BY <1>1, OthersAreIdle
<1>3. PasswordHistoryDepth > 0 /\ step[q] = "idle" => Settled
  BY <1>2 DEF PastInv
<1> QED  BY <1>1, <1>2, <1>3

(* It is enough to look at the reset that takes the step. *)
LEMMA OnlyTheStepper ==
    ASSUME NEW q \in Resets, RealInv',
           \A p \in Resets \ {q} : step'[p] = "idle",
           Checked(q)', PasswordHistoryDepth > 0 => Entries(q)',
           PasswordHistoryDepth > 0 /\ step'[q] = "idle" => Settled'
    PROVE  PastInv'
<1>1. \A p \in Resets \ {q} : Checked(p)' /\ Entries(p)'
  BY DEF Checked, Entries, Adding
<1> QED  BY <1>1 DEF PastInv

(* The store: the password replaced becomes the latest of the past. *)
LEMMA StoreKeepsPast ==
    ASSUME PastInv, RealInv', ResetsInTurn, ResetsInTurn', NEW q \in Resets,
           ResetStep(q), RecordReset(q), ResetStore(q)
    PROVE  PastInv'
<1>1. ResetTypeOK /\ past \in Seq(Passwords) /\ admin.hash \in Passwords
      /\ \A p \in Resets \ {q} : step'[p] = "idle"
  BY AloneFacts
<1>2. step[q] = "store" /\ step'[q] = "deleteOtp" /\ UNCHANGED <<history, created>>
  BY <1>1 DEF ResetStore, Goto, ResetTypeOK
<1>3. past' = PastToBe /\ Len(past') = Len(past) + 1
  BY <1>1, ResetStepWatched DEF PastToBe
<1>4. PasswordHistoryDepth > 0 =>
        history = Rows(PastToBe, PasswordHistoryDepth) /\ created = Len(past) + 1
  BY <1>2 DEF PastInv, Entries, Adding
<1>5. PasswordHistoryDepth > 0 => Settled'
  BY <1>2, <1>3, <1>4 DEF Settled
<1>6. Checked(q)' /\ (PasswordHistoryDepth > 0 => Entries(q)')
  BY <1>2, <1>5 DEF Checked, Entries, Adding
<1> QED  BY <1>1, <1>2, <1>5, <1>6, OnlyTheStepper

(* Every other step of a reset. *)
LEMMA OtherStepKeepsPast ==
    ASSUME PastInv, RealInv', ResetsInTurn, ResetsInTurn', NEW q \in Resets,
           ResetStep(q), RecordReset(q), ~ResetStore(q)
    PROVE  PastInv'
<1>1. /\ ResetTypeOK /\ past \in Seq(Passwords) /\ admin.hash \in Passwords
      /\ Len(past) \in Nat
      /\ \A p \in Resets \ {q} : step'[p] = "idle"
      /\ ~ResetAbort(q)
      /\ PasswordHistoryDepth > 0 /\ step[q] = "idle" => Settled
      /\ PasswordHistoryDepth \in Nat
  BY AloneFacts, HistoryAssumption
<1>2. UNCHANGED <<admin, past>>
  BY <1>1, ResetStepWatched DEF vars
<1>3. Previous(PasswordHistoryDepth)' = Previous(PasswordHistoryDepth)
      /\ PastToBe' = PastToBe
      /\ \A n \in Nat : Rows(past, n)' = Rows(past, n) /\ Rows(PastToBe, n)' = Rows(PastToBe, n)
  BY <1>2 DEF Previous, Latest, PastToBe
<1>4. Checked(q) /\ (PasswordHistoryDepth > 0 => Entries(q))
  BY DEF PastInv
<1>5. ASSUME step'[q] = "idle", UNCHANGED <<history, created>>,
             PasswordHistoryDepth > 0 => Settled
      PROVE  PastInv'
  <2>1. PasswordHistoryDepth > 0 => Settled'
    BY <1>2, <1>5 DEF Settled
  <2>2. Checked(q)' /\ Entries(q)'
    BY <1>5 DEF Checked, Entries, Adding
  <2> QED  BY <1>1, <2>1, <2>2, OnlyTheStepper
<1>6. ASSUME NEW e \in Emails, NEW p \in Passwords, ResetReadAdmin(q, e, p)
      PROVE  PastInv'
  <2>1. /\ step[q] = "idle" /\ step'[q] = "readOtp" /\ view'[q] = admin
        /\ UNCHANGED <<history, created>>
    BY <1>1, <1>6 DEF ResetReadAdmin, Goto, ResetTypeOK
  <2>2. PasswordHistoryDepth > 0 => Settled'
    BY <1>1, <1>2, <2>1 DEF Settled
  <2>3. Checked(q)' /\ (PasswordHistoryDepth > 0 => Entries(q)')
    BY <1>2, <2>1, <2>2 DEF Checked, Entries, Adding
  <2> QED  BY <1>1, <2>1, <2>3, OnlyTheStepper
<1>7. CASE ResetReadOtp(q)
  <2>1. step[q] = "readOtp" /\ UNCHANGED <<history, created>>
    BY <1>7 DEF ResetReadOtp
  <2>2. PasswordHistoryDepth > 0 => Settled
    BY <1>4, <2>1 DEF Entries, Adding
  <2>3. CASE step'[q] = "idle"
    BY <1>5, <2>1, <2>2, <2>3
  <2>4. CASE step'[q] # "idle"
    <3>1. step'[q] = "readHistory" /\ UNCHANGED view
      BY <1>1, <1>7, <2>4 DEF ResetReadOtp, ResetOver, Goto, ResetTypeOK
    <3>2. PasswordHistoryDepth > 0 => Settled'
      BY <1>2, <2>1, <2>2 DEF Settled
    <3>3. Checked(q)' /\ (PasswordHistoryDepth > 0 => Entries(q)')
      BY <1>2, <1>4, <2>1, <3>1, <3>2 DEF Checked, Entries, Adding
    <3> QED  BY <1>1, <3>1, <3>3, OnlyTheStepper
  <2> QED  BY <2>3, <2>4
<1>8. CASE ResetReused(q)
  <2>1. /\ step[q] = "readHistory" /\ step'[q] = "idle"
        /\ UNCHANGED <<history, created>>
    BY <1>1, <1>8 DEF ResetReused, ResetOver, Goto, ResetTypeOK
  <2> QED  BY <1>4, <1>5, <2>1 DEF Entries, Adding
<1>9. CASE ResetReadHistory(q)
  <2>1. /\ step[q] = "readHistory" /\ step'[q] = "addEntry"
        /\ stamp'[q] = created + 1 /\ created' = created + 1
        /\ UNCHANGED <<history, view, chosen>>
        /\ ~Reused(q)
    BY <1>1, <1>9 DEF ResetReadHistory, Goto, ResetTypeOK
  <2>2. PasswordHistoryDepth > 0 => Settled
    BY <1>4, <2>1 DEF Entries, Adding
  <2>3. chosen[q] \notin {admin.hash} \cup Previous(PasswordHistoryDepth)
    BY <1>4, <2>1, <2>2, RecentIsPrevious DEF Reused, Checked, Adding
  <2>4. Checked(q)'
    BY <1>2, <1>3, <1>4, <2>1, <2>3 DEF Checked, Adding
  <2>5. PasswordHistoryDepth > 0 => Entries(q)'
    BY <1>1, <1>2, <2>1, <2>2 DEF Entries, Settled, Adding
  <2> QED  BY <1>1, <2>1, <2>4, <2>5, OnlyTheStepper
<1>10. CASE ResetAddEntry(q)
  <2>1. /\ step[q] = "addEntry" /\ step'[q] = "refreshEntry"
        /\ history' = history \cup {[hash |-> view[q].hash, createdAt |-> stamp[q]]}
        /\ UNCHANGED <<created, view, chosen, stamp>>
    BY <1>1, <1>10 DEF ResetAddEntry, Goto, ResetTypeOK
  <2>2. Checked(q)'
    BY <1>2, <1>3, <1>4, <2>1 DEF Checked, Adding
  <2>3. ASSUME PasswordHistoryDepth > 0
        PROVE  history' = Rows(PastToBe, PasswordHistoryDepth + 1)
    <3>1. /\ view[q].hash = admin.hash /\ stamp[q] = Len(past) + 1
          /\ history = Rows(past, PasswordHistoryDepth)
      BY <1>4, <2>1, <2>3 DEF Checked, Entries, Adding
    <3> QED  BY <1>1, <2>1, <3>1, RowsGrow DEF PastToBe
  <2>4. PasswordHistoryDepth > 0 => Entries(q)'
    BY <1>2, <1>3, <1>4, <2>1, <2>3 DEF Entries, Adding
  <2> QED  BY <1>1, <2>1, <2>2, <2>4, OnlyTheStepper
<1>14. CASE ResetRefreshEntry(q)
  <2>1. /\ step[q] = "refreshEntry"
        /\ step'[q] = IF EntryStored(q) THEN "readTrim" ELSE "idle"
        /\ EntryStored(q) => UNCHANGED <<view, chosen>>
        /\ UNCHANGED <<history, created>>
    BY <1>1, <1>14 DEF ResetRefreshEntry, ResetOver, Goto, ResetTypeOK
  <2>2. Checked(q)'
    BY <1>2, <1>3, <1>4, <2>1 DEF Checked, Adding
  <2>3. ASSUME PasswordHistoryDepth > 0
        PROVE  EntryStored(q)
    <3>1. /\ history = Rows(PastToBe, PasswordHistoryDepth + 1)
          /\ stamp[q] = Len(past) + 1
      BY <1>4, <2>1, <2>3 DEF Entries, Adding
    <3>2. Len(past) + 1 \in LatestOf(PastToBe, PasswordHistoryDepth + 1)
      BY <1>1, <2>3 DEF LatestOf, PastToBe
    <3>3. Row(PastToBe, Len(past) + 1) \in history
      BY <3>1, <3>2 DEF Rows
    <3>4. Row(PastToBe, Len(past) + 1).createdAt = stamp[q]
      BY <3>1 DEF Row
    <3> QED  BY <3>3, <3>4 DEF EntryStored
  <2>4. PasswordHistoryDepth > 0 => Entries(q)'
    BY <1>2, <1>3, <1>4, <2>1, <2>3 DEF Entries, Adding
  <2> QED  BY <1>1, <2>1, <2>2, <2>3, <2>4, OnlyTheStepper
<1>11. CASE ResetReadTrim(q)
  <2>1. /\ step[q] = "readTrim"
        /\ step'[q] = IF Recent(PasswordHistoryDepth) = {} THEN "store" ELSE "trim"
        /\ keep'[q] = Recent(PasswordHistoryDepth)
        /\ UNCHANGED <<history, created, view, chosen>>
    BY <1>1, <1>11 DEF ResetReadTrim, Goto, ResetTypeOK
  <2>2. Checked(q)'
    BY <1>2, <1>3, <1>4, <2>1 DEF Checked, Adding
  <2>3. ASSUME PasswordHistoryDepth > 0
        PROVE  /\ Recent(PasswordHistoryDepth) = Rows(PastToBe, PasswordHistoryDepth)
               /\ Recent(PasswordHistoryDepth) # {}
    <3>1. history = Rows(PastToBe, PasswordHistoryDepth + 1)
      BY <1>4, <2>1, <2>3 DEF Entries, Adding
    <3>2. /\ PastToBe \in Seq(Passwords) /\ Len(PastToBe) = Len(past) + 1
          /\ Len(past) + 1 \in DOMAIN PastToBe
      BY <1>1 DEF PastToBe
    <3>3. Recent(PasswordHistoryDepth) = Rows(PastToBe, PasswordHistoryDepth)
      BY <1>1, <3>1, <3>2, RecentOfRows
    <3>4. Len(past) + 1 \in LatestOf(PastToBe, PasswordHistoryDepth)
      BY <1>1, <2>3, <3>2 DEF LatestOf
    <3> QED  BY <3>3, <3>4 DEF Rows
  <2>4. PasswordHistoryDepth > 0 => Entries(q)'
    BY <1>2, <1>3, <1>4, <2>1, <2>3 DEF Entries, Adding
  <2> QED  BY <1>1, <2>1, <2>2, <2>4, OnlyTheStepper
<1>12. CASE ResetTrim(q)
  <2>1. /\ step[q] = "trim" /\ step'[q] = "store"
        /\ history' = history \cap keep[q]
        /\ UNCHANGED <<created, view, chosen>>
    BY <1>1, <1>12 DEF ResetTrim, Goto, ResetTypeOK
  <2>2. Checked(q)'
    BY <1>2, <1>3, <1>4, <2>1 DEF Checked, Adding
  <2>3. ASSUME PasswordHistoryDepth > 0
        PROVE  history' = Rows(PastToBe, PasswordHistoryDepth)
    <3>1. /\ history = Rows(PastToBe, PasswordHistoryDepth + 1)
          /\ keep[q] = Rows(PastToBe, PasswordHistoryDepth)
      BY <1>4, <2>1, <2>3 DEF Entries, Adding
    <3>2. Rows(PastToBe, PasswordHistoryDepth)
            \subseteq Rows(PastToBe, PasswordHistoryDepth + 1)
      BY <1>1 DEF Rows, LatestOf, PastToBe
    <3> QED  BY <2>1, <3>1, <3>2
  <2>4. PasswordHistoryDepth > 0 => Entries(q)'
    BY <1>2, <1>3, <1>4, <2>1, <2>3 DEF Entries, Adding
  <2> QED  BY <1>1, <2>1, <2>2, <2>4, OnlyTheStepper
<1>13. CASE ResetDeleteOtp(q)
  <2>1. /\ step[q] = "deleteOtp" /\ step'[q] = "idle"
        /\ UNCHANGED <<history, created>>
    BY <1>1, <1>13 DEF ResetDeleteOtp, ResetOver, Goto, ResetTypeOK
  <2> QED  BY <1>4, <1>5, <2>1 DEF Entries, Adding
<1> QED
  BY <1>1, <1>6, <1>7, <1>8, <1>9, <1>10, <1>11, <1>12, <1>13, <1>14 DEF ResetStep

LEMMA NextKeepsPast ==
    PastInv /\ ResetsInTurn /\ ResetsInTurn' /\ [WatchedNext]_<<allVars, watchVars>>
    => PastInv'
<1> SUFFICES ASSUME PastInv, ResetsInTurn, ResetsInTurn',
                    [WatchedNext]_<<allVars, watchVars>>
             PROVE  PastInv'
  OBVIOUS
<1>1. RealInv' /\ IndInv /\ HashesUntouched
  BY NextKeepsReal DEF PastInv, RealInv, ResetInv
<1>2. ASSUME NEW q \in Resets, ResetStep(q), RecordReset(q)
      PROVE  PastInv'
  BY <1>1, <1>2, StoreKeepsPast, OtherStepKeepsPast
<1>3. ASSUME [Next]_vars, UNCHANGED <<resetVars, past>>
      PROVE  PastInv'
  <2>1. admin'.hash = admin.hash
    BY <1>1, <1>3, LoginsSpareTheHash
  <2>2. UNCHANGED <<history, created, step, view, chosen, stamp, keep, past>>
    BY <1>3 DEF resetVars
  <2>3. Previous(PasswordHistoryDepth)' = Previous(PasswordHistoryDepth)
        /\ PastToBe' = PastToBe
    BY <2>1, <2>2 DEF Previous, Latest, PastToBe
  <2>4. \A q \in Resets : Checked(q)'
    BY <2>1, <2>2, <2>3 DEF PastInv, Checked, Adding
  <2>5. Settled => Settled'
    BY <2>2 DEF Settled
  <2>6. \A q \in Resets : Entries(q) => Entries(q)'
    BY <2>2, <2>3, <2>5 DEF Entries, Adding
  <2> QED  BY <1>1, <2>2, <2>4, <2>5, <2>6 DEF PastInv
<1>4. ASSUME NEW q \in OtpRequests, OtpStep(q)
      PROVE  UNCHANGED vars
  BY <1>4, OtpStepKeepsCodes DEF PastInv, RealInv
<1>5. CASE UNCHANGED <<allVars, watchVars>>
  BY <1>3, <1>5 DEF allVars, watchVars
<1>6. ASSUME NEW q \in OtpRequests,
             \/ OtpCommit(q) /\ RecordGrant(q) /\ UNCHANGED resetVars
             \/ (OtpPrepare(q) \/ OtpAbort(q)) /\ UNCHANGED <<resetVars, watchVars>>
      PROVE  PastInv'
  BY <1>3, <1>4, <1>6 DEF OtpStep, RecordGrant, watchVars
<1>7. CASE Next /\ UNCHANGED <<otpVars, resetVars, watchVars>>
  BY <1>3, <1>7 DEF watchVars
<1> QED  BY <1>2, <1>5, <1>6, <1>7 DEF WatchedNext

LEMMA AlwaysPastInv == WatchedSpec /\ []ResetsInTurn => []PastInv
<1>1. WatchedInit => PastInv
  <2> SUFFICES ASSUME WatchedInit PROVE PastInv
    OBVIOUS
  <2>1. ResetInv
    BY ResetInvInit DEF WatchedInit
  <2>2. /\ past = <<>> /\ history = {} /\ created = 0
        /\ admin.hash = InitialPassword
        /\ \A q \in Resets : view[q].hash = InitialPassword /\ step[q] = "idle"
        /\ HashesUntouched
    BY DEF WatchedInit, ResetInit, OtpInit, Init, NewAdmin, HashesUntouched
  <2>3. RealInv
    BY <2>1, <2>2 DEF RealInv, Real, HistoryIsReal
  <2>4. Settled
    BY <2>2 DEF Settled, Rows, LatestOf
  <2>5. \A q \in Resets : Checked(q) /\ Entries(q)
    BY <2>2 DEF Checked, Entries, Adding
  <2> QED  BY <2>3, <2>4, <2>5 DEF PastInv
<1> QED  BY <1>1, NextKeepsPast, PTL DEF WatchedSpec

(* As long as resets do not overlap and none is cut short, the history is  *)
(* exactly the passwords replaced last, in order, for any depth above 0    *)
(* and however logins and requests for codes interleave with the resets.   *)
THEOREM HistoryIsExact ==
    ASSUME PasswordHistoryDepth > 0
    PROVE  WatchedSpec /\ []ResetsInTurn => []HistoryIsPast
<1>1. PastInv => HistoryIsPast
  BY DEF PastInv, Settled, HistoryIsPast, Latest, LatestOf, Rows, Row
<1> QED  BY <1>1, AlwaysPastInv, PTL

(* As long as resets do not overlap and none is cut short, a new password  *)
(* is neither the one it replaces nor one of those replaced last, for any  *)
(* history depth: what a reset compared with is still true when it stores. *)
THEOREM NoPasswordReused == WatchedSpec /\ []ResetsInTurn => NoRecentReuse
<1>1. ASSUME PastInv, [WatchedNext]_<<allVars, watchVars>>, past' # past
      PROVE  admin'.hash \notin {admin.hash} \cup Previous(PasswordHistoryDepth)
  <2>1. ResetTypeOK
    BY <1>1 DEF PastInv, RealInv, ResetInv
  <2>2. PICK q \in Resets : ResetStep(q) /\ RecordReset(q)
    BY <1>1 DEF WatchedNext, RecordGrant, watchVars
  <2>3. ResetStore(q)
    BY <1>1, <2>1, <2>2, ResetStepWatched
  <2>4. /\ chosen[q] \notin {admin.hash} \cup Previous(PasswordHistoryDepth)
        /\ view[q].hash = admin.hash
    BY <1>1, <2>3 DEF ResetStore, PastInv, Checked, Adding
  <2>5. admin'.hash = chosen[q]
    BY <2>1, <2>3, <2>4, StoredHash
  <2> QED  BY <2>4, <2>5
<1>2. PastInv /\ [WatchedNext]_<<allVars, watchVars>> =>
        [ past' # past => admin'.hash \notin {admin.hash}
                            \cup Previous(PasswordHistoryDepth) ]_<<
          allVars, watchVars>>
  BY <1>1
<1> QED  BY <1>2, AlwaysPastInv, PTL DEF WatchedSpec, NoRecentReuse

-----------------------------------------------------------------------------
(* The steps of a reset that rests on a code it found verified. *)
Resting == {"readHistory", "addEntry", "refreshEntry", "readTrim", "trim", "store"}

(* A code that was redeemed is gone, or the reset that redeemed it is      *)
(* about to delete it; while a reset rests on a code nobody redeemed it.   *)
RedeemedOnce ==
    /\ redeemed \in [Emails -> 0..1]
    /\ \A e \in Emails : redeemed[e] = 1 =>
          \/ otp[e] = NoOtp
          \/ \E q \in Resets : step[q] = "deleteOtp" /\ resetEmail[q] = e
    /\ \A q \in Resets :
          step[q] \in Resting => redeemed[resetEmail[q]] = 0

(* A row to be inserted was found absent, and sends a code. *)
InsertsSend ==
    \A q \in OtpRequests : otpStage[q] = "insert" =>
        otpRead[q] = NoOtp /\ otpObject[q].requestCount = 1

SingleUseInv == ResetInv /\ RedeemedOnce /\ InsertsSend

(* No step of a request for a code breaks that. *)
LEMMA OtpStepKeepsSends ==
    ASSUME OtpTypeOK, InsertsSend, NEW q \in OtpRequests,
           OtpCommit(q) \/ OtpPrepare(q) \/ OtpAbort(q)
    PROVE  InsertsSend'
<1>1. CASE GenerateOtp(q)
  BY <1>1 DEF GenerateOtp, OtpReadRow, OtpTypeOK, InsertsSend, FirstIssue
<1>2. CASE RegenerateOtp(q) \/ VerifyOtp(q)
  BY <1>2 DEF RegenerateOtp, VerifyOtp, OtpReadRow, OtpTypeOK, InsertsSend
<1>3. CASE \E e \in Emails : OtpReadAdmin(q, e)
  BY <1>3 DEF OtpReadAdmin, OtpTypeOK, InsertsSend
<1>4. CASE OtpCommit(q) \/ OtpAbort(q) \/ OtpRefuse(q)
  BY <1>4 DEF OtpCommit, OtpInsert, OtpUpdate, OtpAbort, OtpRefuse, OtpDone,
       OtpTypeOK, InsertsSend
<1> QED  BY <1>1, <1>2, <1>3, <1>4 DEF OtpPrepare

(* A request writes its row only when it commits. *)
LEMMA PrepareSparesRows ==
    ASSUME NEW q \in OtpRequests, OtpPrepare(q) \/ OtpAbort(q)
    PROVE  otp' = otp
BY DEF OtpPrepare, OtpReadAdmin, GenerateOtp, RegenerateOtp, VerifyOtp, OtpReadRow,
       OtpRefuse, OtpAbort

(* A commit that sends no code leaves absent what was absent. *)
LEMMA NoGrantNoRow ==
    ASSUME OtpTypeOK, InsertsSend, NEW q \in OtpRequests, OtpCommit(q), ~Grants(q),
           NEW e \in Emails, otp[e] = NoOtp
    PROVE  otp'[e] = NoOtp
<1>1. CASE otpStage[q] = "insert"
  <2>1. otpObject[q].requestCount # otpRead[q].requestCount
    BY <1>1, NoOtpRow DEF InsertsSend
  <2>2. otp[otpEmail[q]] # NoOtp
    BY <1>1, <2>1 DEF Grants
  <2> QED  BY <1>1, <2>2 DEF OtpCommit, OtpInsert, OtpUpdate
<1>2. CASE otpStage[q] # "insert"
  BY <1>2 DEF OtpCommit, OtpInsert, OtpUpdate, OtpTypeOK
<1> QED  BY <1>1, <1>2

LEMMA OtpStepKeepsSingleUse ==
    ASSUME SingleUseInv, ResetInv', NEW q \in OtpRequests, UNCHANGED resetVars,
           \/ OtpCommit(q) /\ RecordGrant(q)
           \/ (OtpPrepare(q) \/ OtpAbort(q)) /\ UNCHANGED watchVars
    PROVE  SingleUseInv'
<1>1. /\ OtpTypeOK /\ ResetTypeOK /\ InsertsSend
      /\ UNCHANGED <<step, resetEmail>>
  BY DEF SingleUseInv, ResetInv, ResetTypeOK, resetVars
<1>2. InsertsSend'
  BY <1>1, OtpStepKeepsSends
<1>3. RedeemedOnce'
  <2>1. CASE UNCHANGED redeemed /\ \A e \in Emails : otp[e] = NoOtp => otp'[e] = NoOtp
    BY <1>1, <2>1 DEF SingleUseInv, RedeemedOnce, Resting
  <2>2. CASE (OtpPrepare(q) \/ OtpAbort(q)) /\ UNCHANGED watchVars
    <3>1. otp' = otp
      BY <2>2, PrepareSparesRows
    <3> QED  BY <2>1, <2>2, <3>1 DEF watchVars
  <2>3. CASE OtpCommit(q) /\ Grants(q) /\ RecordGrant(q)
    <3>1. redeemed' = [redeemed EXCEPT ![otpEmail[q]] = 0]
      BY <2>3 DEF RecordGrant
    <3>2. otpEmail[q] \in Emails /\ \A e \in Emails \ {otpEmail[q]} : otp'[e] = otp[e]
      BY <1>1, <2>3 DEF OtpTypeOK, OtpCommit, OtpInsert, OtpUpdate
    <3>3. redeemed' \in [Emails -> 0..1]
          /\ \A e \in Emails : redeemed'[e] = 1 =>
                e # otpEmail[q] /\ redeemed[e] = 1 /\ otp'[e] = otp[e]
      BY <3>1, <3>2 DEF SingleUseInv, RedeemedOnce, Resting
    <3>4. \A e \in Emails : redeemed[e] = 0 => redeemed'[e] = 0
      BY <3>1, <3>2 DEF SingleUseInv, RedeemedOnce, Resting
    <3> QED
      BY <1>1, <3>3, <3>4 DEF SingleUseInv, RedeemedOnce, ResetTypeOK, Resting
  <2>4. CASE OtpCommit(q) /\ ~Grants(q) /\ RecordGrant(q)
    <3>1. redeemed' = redeemed
      BY <2>4 DEF RecordGrant
    <3> QED  BY <1>1, <2>1, <2>4, <3>1, NoGrantNoRow
  <2> QED  BY <2>2, <2>3, <2>4
<1> QED  BY <1>2, <1>3 DEF SingleUseInv

(* The steps of a reset: reading the code finds it unredeemed, storing     *)
(* redeems it, deleting removes it.                                        *)
LEMMA ResetStepKeepsSingleUse ==
    ASSUME SingleUseInv, ResetInv', ResetsInTurn, ResetsInTurn',
           NEW q \in Resets, ResetStep(q), RecordReset(q)
    PROVE  SingleUseInv'
<1> DEFINE e == resetEmail[q]
<1>1. /\ ResetTypeOK /\ OtpTypeOK /\ e \in Emails
      /\ \A p \in Resets \ {q} : step[p] = "idle" /\ step'[p] = "idle"
      /\ ~ResetAbort(q)
  BY OthersAreIdle DEF SingleUseInv, ResetInv, ResetTypeOK
<1>2. InsertsSend'
  BY ResetStepFrame
     DEF SingleUseInv, InsertsSend, ResetDeleteOtp, otpVars, otpRequestVars
<1>3. /\ redeemed \in [Emails -> 0..1]
      /\ \A f \in Emails : redeemed[f] = 1 =>
            otp[f] = NoOtp \/ (step[q] = "deleteOtp" /\ e = f)
      /\ step[q] \in Resting => redeemed[e] = 0
  BY <1>1 DEF SingleUseInv, RedeemedOnce, Resting
<1>4. SUFFICES /\ redeemed' \in [Emails -> 0..1]
               /\ \A f \in Emails : redeemed'[f] = 1 =>
                     otp'[f] = NoOtp \/ (step'[q] = "deleteOtp" /\ resetEmail'[q] = f)
               /\ step'[q] \in Resting => redeemed'[resetEmail'[q]] = 0
  BY <1>1, <1>2, <1>4 DEF SingleUseInv, RedeemedOnce, Resting
<1>5. CASE ResetStore(q)
  <2>1. /\ step[q] = "store" /\ step'[q] = "deleteOtp"
        /\ UNCHANGED <<otp, resetEmail>>
    BY <1>1, <1>5 DEF ResetStore, Goto, ResetTypeOK, otpVars
  <2>2. redeemed' = [redeemed EXCEPT ![e] = @ + 1]
    BY <1>1, <1>5, ResetStepWatched
  <2> QED  BY <1>1, <1>3, <2>1, <2>2 DEF Resting
<1>6. CASE ~ResetStore(q)
  <2>1. redeemed' = redeemed
    BY <1>1, <1>6, ResetStepWatched
  <2>2. CASE ResetDeleteOtp(q)
    BY <1>1, <1>3, <2>1, <2>2
       DEF ResetDeleteOtp, ResetOver, Goto, ResetTypeOK, OtpTypeOK, Resting
  <2>3. CASE ResetReadOtp(q)
    BY <1>1, <1>3, <2>1, <2>3
       DEF ResetReadOtp, ResetOver, Goto, ResetTypeOK, Usable, otpVars, Resting
  <2>4. CASE ~ResetDeleteOtp(q) /\ ~ResetReadOtp(q)
    <3>1. /\ otp' = otp
          /\ step[q] # "deleteOtp" /\ step'[q] # "deleteOtp"
          /\ step'[q] \in Resting
               => /\ step[q] \in Resting
                  /\ resetEmail'[q] = e
      BY <1>1, <1>6, <2>4
         DEF ResetTypeOK, ResetStep, ResetReadAdmin, ResetReused, ResetReadHistory,
             ResetAddEntry, ResetRefreshEntry, ResetReadTrim, ResetTrim, ResetOver,
             Goto, otpVars, Resting
    <3> QED  BY <1>3, <2>1, <3>1
  <2> QED  BY <2>2, <2>3, <2>4
<1> QED  BY <1>5, <1>6

LEMMA NextKeepsSingleUse ==
    SingleUseInv /\ ResetsInTurn /\ ResetsInTurn' /\ [WatchedNext]_<<allVars, watchVars>>
    => SingleUseInv'
<1> SUFFICES ASSUME SingleUseInv, ResetsInTurn, ResetsInTurn',
                    [WatchedNext]_<<allVars, watchVars>>
             PROVE  SingleUseInv'
  OBVIOUS
<1>1. [ResetNext]_allVars
  BY DEF WatchedNext, ResetNext, OtpNext, OtpStep
<1>2. ResetInv'
  BY <1>1, ResetNextKeepsInv DEF SingleUseInv
<1>3. CASE UNCHANGED <<otpVars, resetVars, watchVars>>
  BY <1>2, <1>3 DEF SingleUseInv, RedeemedOnce, InsertsSend, otpVars, otpRequestVars,
       resetVars, watchVars
<1>4. ASSUME NEW q \in Resets, ResetStep(q), RecordReset(q)
      PROVE  SingleUseInv'
  BY <1>2, <1>4, ResetStepKeepsSingleUse
<1>5. ASSUME NEW q \in OtpRequests,
             \/ OtpCommit(q) /\ RecordGrant(q) /\ UNCHANGED resetVars
             \/ (OtpPrepare(q) \/ OtpAbort(q)) /\ UNCHANGED <<resetVars, watchVars>>
      PROVE  SingleUseInv'
  BY <1>2, <1>5, OtpStepKeepsSingleUse
<1> QED  BY <1>3, <1>4, <1>5 DEF WatchedNext, allVars

(* As long as resets do not overlap and none is cut short, a code changes  *)
(* the password at most once, whatever requests for codes, verifications   *)
(* and repeated requests interleave with the resets.                       *)
THEOREM CodesAreSingleUse == WatchedSpec /\ []ResetsInTurn => []OtpSingleUse
<1>1. WatchedInit => SingleUseInv
  BY ResetInvInit DEF WatchedInit, ResetInit, OtpInit, SingleUseInv, RedeemedOnce,
       Resting, InsertsSend
<1>2. SingleUseInv => OtpSingleUse
  BY DEF SingleUseInv, RedeemedOnce, OtpSingleUse
<1> QED  BY <1>1, <1>2, NextKeepsSingleUse, PTL DEF WatchedSpec

-----------------------------------------------------------------------------
(* The resets of e that rest on a code they found verified, and those that *)
(* are about to delete its row.                                            *)
Relying(e) == {q \in Resets : step[q] \in Resting /\ resetEmail[q] = e}
Deleting(e) == {q \in Resets : step[q] = "deleteOtp" /\ resetEmail[q] = e}

(* While the row is there, whoever redeemed the code is about to delete it *)
(* or was cut short; once it is gone, nobody else begins to rely on it.    *)
Redemptions(e) ==
    IF otp[e] = NoOtp
    THEN redeemed[e] + Cardinality(Relying(e)) <= Cardinality(Resets) + aborts
    ELSE redeemed[e] <= Cardinality(Deleting(e)) + aborts

(* A stored row counts the request that inserted it, and so does every row *)
(* in flight: a commit never leaves something like no row.                 *)
RowsCount ==
    /\ \A e \in Emails : otp[e] # NoOtp => otp[e].requestCount > 0
    /\ \A q \in OtpRequests :
          otpStage[q] \in {"insert", "update"} => otpObject[q].requestCount > 0

RedeemedInv ==
    /\ ResetInv
    /\ InsertsSend
    /\ RowsCount
    /\ redeemed \in [Emails -> Nat]
    /\ \A e \in Emails : Redemptions(e)

(* There are finitely many of either, and no reset is one of both. *)
LEMMA ResetsApart ==
    ASSUME NEW e \in Emails
    PROVE  /\ IsFiniteSet(Relying(e)) /\ IsFiniteSet(Deleting(e))
           /\ Cardinality(Relying(e)) \in Nat /\ Cardinality(Deleting(e)) \in Nat
           /\ Cardinality(Resets) \in Nat
           /\ Cardinality(Relying(e)) + Cardinality(Deleting(e)) <= Cardinality(Resets)
<1>1. /\ Relying(e) \subseteq Resets /\ Deleting(e) \subseteq Resets
      /\ Relying(e) \cap Deleting(e) = {}
  BY DEF Relying, Deleting, Resting
<1>2. IsFiniteSet(Relying(e)) /\ IsFiniteSet(Deleting(e)) /\ IsFiniteSet(Resets)
  BY <1>1, ResetsAssumption, FS_Subset
<1>3. /\ Cardinality(Relying(e)) \in Nat /\ Cardinality(Deleting(e)) \in Nat
      /\ Cardinality(Resets) \in Nat
  BY <1>2, FS_CardinalityType
<1>4. Cardinality(Relying(e) \cup Deleting(e))
        = Cardinality(Relying(e)) + Cardinality(Deleting(e))
  <2>1. Cardinality(Relying(e) \cap Deleting(e)) = 0
    BY <1>1, FS_EmptySet
  <2>2. Cardinality(Relying(e) \cup Deleting(e))
          = Cardinality(Relying(e)) + Cardinality(Deleting(e))
            - Cardinality(Relying(e) \cap Deleting(e))
    BY <1>2, FS_Union
  <2> QED  BY <1>3, <2>1, <2>2
<1>5. Cardinality(Relying(e) \cup Deleting(e)) <= Cardinality(Resets)
  BY <1>1, <1>2, FS_Subset
<1> QED  BY <1>2, <1>3, <1>4, <1>5

(* A step of slot q moves no other reset in or out of those sets.          *)
LEMMA OnlyOneMoves ==
    ASSUME ResetTypeOK, NEW q \in Resets, NEW e \in Emails,
           \A p \in Resets \ {q} : step'[p] = step[p] /\ resetEmail'[p] = resetEmail[p]
    PROVE  /\ Relying(e)' = IF step'[q] \in Resting /\ resetEmail'[q] = e
                            THEN Relying(e) \cup {q} ELSE Relying(e) \ {q}
           /\ Deleting(e)' = IF step'[q] = "deleteOtp" /\ resetEmail'[q] = e
                             THEN Deleting(e) \cup {q} ELSE Deleting(e) \ {q}
BY DEF Relying, Deleting

(* What a reset moves from and to. *)
LEMMA MovesOfReset ==
    ASSUME ResetTypeOK, NEW q \in Resets, ResetStep(q)
    PROVE  /\ \A p \in Resets \ {q} : step'[p] = step[p] /\ resetEmail'[p] = resetEmail[p]
           /\ step'[q] \in Resting =>
                 /\ resetEmail'[q] = resetEmail[q]
                 /\ aborts' = aborts
                 /\ \/ step[q] \in Resting
                    \/ step[q] = "readOtp" /\ otp[resetEmail[q]] # NoOtp
           /\ step'[q] = "deleteOtp" =>
                 ResetStore(q) /\ step[q] = "store" /\ resetEmail'[q] = resetEmail[q]
           /\ step[q] = "deleteOtp" => ResetDeleteOtp(q) \/ ResetAbort(q)
           /\ aborts' = IF ResetAbort(q) THEN aborts + 1 ELSE aborts
           /\ aborts \in Nat
<1>1. /\ step \in [Resets -> Steps] /\ resetEmail \in [Resets -> Emails]
      /\ aborts \in Nat
  BY HistoryAssumption DEF ResetTypeOK
<1> QED
  BY <1>1
     DEF ResetStep, ResetReadAdmin, ResetReadOtp, ResetReused, ResetReadHistory,
         ResetAddEntry, ResetRefreshEntry, ResetReadTrim, ResetTrim, ResetStore,
         ResetDeleteOtp, ResetAbort, ResetOver, Goto, Resting, Usable

(* A step of a request for a code keeps the rows counting.                 *)
LEMMA OtpStepKeepsRowsCount ==
    ASSUME OtpTypeOK, OtpTypeOK', RowsCount, NEW q \in OtpRequests,
           OtpCommit(q) \/ OtpPrepare(q) \/ OtpAbort(q)
    PROVE  RowsCount'
<1>1. /\ otp \in [Emails -> OtpRow] /\ otpEmail[q] \in Emails
      /\ RowOf(q) \in OtpRow
      /\ otpObject \in [OtpRequests -> OtpRow]
      /\ otpStage \in [OtpRequests -> {"idle", "readRow", "insert", "update"}]
      /\ \A row \in OtpRow : row.requestCount \in Nat
  BY DEF OtpTypeOK, OtpRow, RowOf
<1>2. CASE OtpPrepare(q)
  <2>1. ASSUME NEW row, NEW next, OtpReadRow(q, row, next),
               row.requestCount > 0
        PROVE  RowsCount'
    BY <1>1, <2>1 DEF OtpReadRow, RowsCount, OtpTypeOK
  <2>2. CASE GenerateOtp(q)
    BY <2>1, <2>2 DEF GenerateOtp, FirstIssue
  <2>3. CASE RegenerateOtp(q)
    <3>1. Reissued(RowOf(q), otpClock[q]).requestCount > 0
      BY <1>1 DEF Reissued, FirstIssue, OtpRow
    <3> QED  BY <2>1, <2>3, <3>1 DEF RegenerateOtp
  <2>4. CASE VerifyOtp(q)
    <3>1. [RowOf(q) EXCEPT !.verified = TRUE].requestCount > 0
      BY <1>1, <2>4 DEF VerifyOtp, Usable, RowsCount, OtpRow, RowOf
    <3> QED  BY <2>1, <2>4, <3>1 DEF VerifyOtp
  <2>5. CASE \E e \in Emails : OtpReadAdmin(q, e)
    BY <1>1, <2>5 DEF OtpReadAdmin, RowsCount
  <2>6. CASE OtpRefuse(q)
    BY <1>1, <2>6 DEF OtpRefuse, OtpDone, RowsCount
  <2> QED  BY <1>2, <2>2, <2>3, <2>4, <2>5, <2>6 DEF OtpPrepare
<1>3. CASE OtpCommit(q)
  <2>1. /\ otpStage[q] \in {"insert", "update"} /\ otpObject[q].requestCount > 0
    BY <1>3 DEF OtpCommit, OtpInsert, OtpUpdate, RowsCount
  <2>2. otp[otpEmail[q]] # NoOtp =>
           WrittenOtp(otp[otpEmail[q]], otpRead[q], otpObject[q]).requestCount > 0
    BY <1>1, <2>1 DEF WrittenOtp, Column, RowsCount
  <2>3. \A e \in Emails : otp'[e] # NoOtp => otp'[e].requestCount > 0
    BY <1>1, <1>3, <2>1, <2>2 DEF OtpCommit, OtpInsert, OtpUpdate, RowsCount
  <2>4. \A p \in OtpRequests :
           otpStage'[p] \in {"insert", "update"} => otpObject'[p].requestCount > 0
    BY <1>1, <1>3 DEF OtpCommit, OtpInsert, OtpUpdate, OtpDone, RowsCount
  <2> QED  BY <2>3, <2>4 DEF RowsCount
<1>4. CASE OtpAbort(q)
  BY <1>1, <1>4 DEF OtpAbort, OtpDone, RowsCount
<1> QED  BY <1>2, <1>3, <1>4

(* A commit leaves a stored row stored, and the row of a code it sends.    *)
LEMMA RowsStay ==
    ASSUME OtpTypeOK, RowsCount, NEW q \in OtpRequests, OtpCommit(q)
    PROVE  /\ \A e \in Emails : otp[e] # NoOtp => otp'[e] # NoOtp
           /\ Grants(q) => otp'[otpEmail[q]] # NoOtp
<1>1. /\ otp \in [Emails -> OtpRow] /\ otpEmail[q] \in Emails
  BY DEF OtpTypeOK
<1>2. otpObject[q] # NoOtp /\ otpObject[q].requestCount > 0
  BY NoOtpRow DEF OtpCommit, OtpInsert, OtpUpdate, RowsCount
<1>3. otp[otpEmail[q]] # NoOtp =>
         WrittenOtp(otp[otpEmail[q]], otpRead[q], otpObject[q]).requestCount > 0
  BY <1>1, <1>2 DEF WrittenOtp, Column, RowsCount
<1>4. \A e \in Emails : otp[e] # NoOtp => otp'[e] # NoOtp
  BY <1>1, <1>3, NoOtpRow DEF OtpCommit, OtpInsert, OtpUpdate
<1>5. Grants(q) /\ otp[otpEmail[q]] = NoOtp => otp'[otpEmail[q]] = otpObject[q]
  BY <1>1 DEF Grants, OtpCommit, OtpInsert, OtpUpdate
<1> QED  BY <1>1, <1>2, <1>4, <1>5

(* A request for a code inserts its row and starts anew, or leaves a row    *)
(* where there was one and none where there was none.                      *)
LEMMA OtpStepKeepsRedeemed ==
    ASSUME RedeemedInv, ResetInv', NEW q \in OtpRequests, UNCHANGED resetVars,
           \/ OtpCommit(q) /\ RecordGrant(q)
           \/ (OtpPrepare(q) \/ OtpAbort(q)) /\ UNCHANGED watchVars
    PROVE  RedeemedInv'
<1>1. /\ OtpTypeOK /\ ResetTypeOK /\ redeemed \in [Emails -> Nat] /\ InsertsSend
      /\ RowsCount /\ UNCHANGED <<step, resetEmail, aborts>> /\ aborts \in Nat
  BY HistoryAssumption DEF RedeemedInv, ResetInv, ResetTypeOK, resetVars
<1>2. InsertsSend' /\ RowsCount'
  <2>1. OtpTypeOK'
    BY DEF ResetInv, ResetTypeOK
  <2> QED  BY <1>1, <2>1, OtpStepKeepsSends, OtpStepKeepsRowsCount
<1>3. \A e \in Emails : Relying(e)' = Relying(e) /\ Deleting(e)' = Deleting(e)
  BY <1>1 DEF Relying, Deleting
<1>4. ASSUME NEW e \in Emails, redeemed'[e] = redeemed[e],
             (otp'[e] = NoOtp) = (otp[e] = NoOtp)
      PROVE  Redemptions(e)'
  <2>1. Redemptions(e)
    BY DEF RedeemedInv
  <2> QED  BY <1>1, <1>3, <1>4, <2>1 DEF Redemptions
<1>5. CASE (OtpPrepare(q) \/ OtpAbort(q)) /\ UNCHANGED watchVars
  <2>1. UNCHANGED <<otp, redeemed>>
    BY <1>5, PrepareSparesRows DEF watchVars
  <2> QED  BY <1>1, <1>2, <1>4, <2>1 DEF RedeemedInv
<1>6. CASE OtpCommit(q) /\ RecordGrant(q)
  <2> PICK f \in Emails : f = otpEmail[q]
    BY <1>1 DEF OtpTypeOK
  <2>1. \A e \in Emails \ {f} : otp'[e] = otp[e]
    BY <1>1, <1>6 DEF OtpTypeOK, OtpCommit, OtpInsert, OtpUpdate
  <2>2. CASE Grants(q)
    <3>1. redeemed' = [redeemed EXCEPT ![f] = 0]
      BY <1>6, <2>2 DEF RecordGrant
    <3>2. otp'[f] # NoOtp
      BY <1>1, <1>6, <2>2, RowsStay
    <3>3. Redemptions(f)'
      <4>1. Cardinality(Deleting(f)') \in Nat
        BY <1>3, ResetsApart
      <4> QED  BY <1>1, <3>1, <3>2, <4>1 DEF Redemptions
    <3>4. \A e \in Emails \ {f} : Redemptions(e)'
      BY <1>1, <1>4, <2>1, <3>1
    <3>5. redeemed' \in [Emails -> Nat]
      BY <1>1, <3>1
    <3> QED  BY <1>2, <3>3, <3>4, <3>5 DEF RedeemedInv
  <2>3. CASE ~Grants(q)
    <3>1. redeemed' = redeemed
      BY <1>6, <2>3 DEF RecordGrant
    <3>2. \A e \in Emails : (otp'[e] = NoOtp) = (otp[e] = NoOtp)
      BY <1>1, <1>6, <2>3, RowsStay, NoGrantNoRow
    <3> QED  BY <1>1, <1>2, <1>4, <3>1, <3>2 DEF RedeemedInv
  <2> QED  BY <2>2, <2>3
<1> QED  BY <1>5, <1>6

(* A step of a reset: a store counts on a code it relied on, a deletion    *)
(* leaves to the code only those who rely on it already.                   *)
LEMMA ResetStepKeepsRedeemed ==
    ASSUME RedeemedInv, ResetInv', NEW q \in Resets, ResetStep(q), RecordReset(q)
    PROVE  RedeemedInv'
<1> DEFINE f == resetEmail[q]
<1>1. /\ OtpTypeOK /\ ResetTypeOK /\ redeemed \in [Emails -> Nat]
      /\ InsertsSend /\ RowsCount
      /\ f \in Emails /\ step[q] \in Steps /\ resetEmail'[q] \in Emails
      /\ aborts \in Nat /\ aborts' \in Nat
  BY HistoryAssumption DEF RedeemedInv, ResetInv, ResetTypeOK
<1>2. InsertsSend' /\ RowsCount'
  <2>1. /\ UNCHANGED <<otpStage, otpRead, otpObject>>
        /\ \A e \in Emails : otp'[e] \in {NoOtp, otp[e]}
    BY <1>1, ResetStepFrame DEF ResetDeleteOtp, otpVars, otpRequestVars, OtpTypeOK
  <2> QED  BY <1>1, <2>1 DEF InsertsSend, RowsCount
<1>3. redeemed' = IF ResetStore(q) THEN [redeemed EXCEPT ![f] = @ + 1] ELSE redeemed
  BY <1>1, ResetStepWatched
<1>4. redeemed' \in [Emails -> Nat]
  BY <1>1, <1>3
<1>5. otp' = IF ResetDeleteOtp(q) THEN [otp EXCEPT ![f] = NoOtp] ELSE otp
  BY <1>1, ResetStepFrame DEF ResetDeleteOtp, otpVars
<1>6. ASSUME NEW e \in Emails PROVE Redemptions(e)'
  <2> DEFINE R == Cardinality(Relying(e))
             D == Cardinality(Deleting(e))
             N == Cardinality(Resets)
  <2>1. /\ IsFiniteSet(Relying(e)) /\ IsFiniteSet(Deleting(e))
        /\ R \in Nat /\ D \in Nat /\ N \in Nat /\ R + D <= N
    BY ResetsApart
  <2>2. /\ Relying(e)' = IF step'[q] \in Resting /\ resetEmail'[q] = e
                         THEN Relying(e) \cup {q} ELSE Relying(e) \ {q}
        /\ Deleting(e)' = IF step'[q] = "deleteOtp" /\ resetEmail'[q] = e
                          THEN Deleting(e) \cup {q} ELSE Deleting(e) \ {q}
    BY <1>1, MovesOfReset, OnlyOneMoves
  <2>3. /\ Cardinality(Relying(e) \cup {q}) = IF q \in Relying(e) THEN R ELSE R + 1
        /\ Cardinality(Relying(e) \ {q}) = IF q \in Relying(e) THEN R - 1 ELSE R
        /\ Cardinality(Deleting(e) \cup {q}) = IF q \in Deleting(e) THEN D ELSE D + 1
        /\ Cardinality(Deleting(e) \ {q}) = IF q \in Deleting(e) THEN D - 1 ELSE D
    BY <2>1, FS_AddElement, FS_RemoveElement
  <2>4. /\ q \in Relying(e) <=> step[q] \in Resting /\ f = e
        /\ q \in Deleting(e) <=> step[q] = "deleteOtp" /\ f = e
    BY DEF Relying, Deleting
  <2>5. IF otp[e] = NoOtp THEN redeemed[e] + R <= N + aborts
                          ELSE redeemed[e] <= D + aborts
    BY DEF RedeemedInv, Redemptions
  <2>6. redeemed[e] \in Nat /\ redeemed'[e] \in Nat
    BY <1>1, <1>4
  <2> DEFINE R2 == Cardinality(Relying(e)')
             D2 == Cardinality(Deleting(e)')
  <2>7. SUFFICES IF otp'[e] = NoOtp THEN redeemed'[e] + R2 <= N + aborts'
                                    ELSE redeemed'[e] <= D2 + aborts'
    BY DEF Redemptions
  <2>8. CASE ResetStore(q)
    <3>1. /\ step[q] = "store" /\ step'[q] = "deleteOtp" /\ resetEmail' = resetEmail
          /\ aborts' = aborts /\ otp' = otp
      BY <1>1, <2>8 DEF ResetStore, Goto, ResetTypeOK, otpVars
    <3>2. redeemed'[e] = IF e = f THEN redeemed[e] + 1 ELSE redeemed[e]
      BY <1>1, <1>3, <2>8
    <3>3. IF e = f THEN R2 = R - 1 /\ D2 = D + 1 ELSE R2 = R /\ D2 = D
      BY <2>2, <2>3, <2>4, <3>1 DEF Resting
    <3> QED  BY <1>1, <2>1, <2>5, <2>6, <3>1, <3>2, <3>3
  <2>9. CASE ResetDeleteOtp(q)
    <3>1. step[q] = "deleteOtp" /\ step'[q] = "idle" /\ aborts' = aborts
      BY <1>1, <2>9 DEF ResetDeleteOtp, ResetOver, Goto, ResetTypeOK
    <3>2. redeemed' = redeemed
      BY <1>3, <2>9, <3>1 DEF ResetStore
    <3>3. R2 = R /\ D2 = IF e = f THEN D - 1 ELSE D
      BY <2>2, <2>3, <2>4, <3>1 DEF Resting
    <3>4. otp'[e] = IF e = f THEN NoOtp ELSE otp[e]
      BY <1>1, <1>5, <2>9 DEF OtpTypeOK
    <3> QED  BY <1>1, <2>1, <2>5, <2>6, <3>1, <3>2, <3>3, <3>4
  <2>10. CASE ~ResetStore(q) /\ ~ResetDeleteOtp(q)
    <3>1. redeemed' = redeemed /\ otp' = otp
      BY <1>3, <1>5, <2>10
    <3>2. step'[q] # "deleteOtp" /\ (step[q] = "deleteOtp" => ResetAbort(q))
      BY <1>1, <2>10, MovesOfReset
    <3>3. aborts' = IF ResetAbort(q) THEN aborts + 1 ELSE aborts
      BY <1>1, MovesOfReset
    <3>4. otp[e] = NoOtp => R2 <= R
      <4>1. otp[e] = NoOtp /\ step'[q] \in Resting /\ resetEmail'[q] = e
              => q \in Relying(e)
        BY <1>1, <2>4, MovesOfReset
      <4> QED  BY <2>1, <2>2, <2>3, <4>1
    <3>5. R2 \in Nat /\ D2 \in Nat /\ D2 >= IF q \in Deleting(e) THEN D - 1 ELSE D
      BY <2>1, <2>2, <2>3, <2>4, FS_Subset, FS_AddElement, FS_RemoveElement,
         FS_CardinalityType
    <3>6. q \in Deleting(e) => aborts' = aborts + 1
      BY <2>4, <3>2, <3>3
    <3> QED  BY <1>1, <2>1, <2>5, <2>6, <3>1, <3>3, <3>4, <3>5, <3>6
  <2> QED  BY <2>8, <2>9, <2>10
<1> QED  BY <1>2, <1>4, <1>6 DEF RedeemedInv

(* Whatever races, a code changes the password no more often than there    *)
(* are resets served at once and resets cut short.                         *)
THEOREM OnlyRacesRedeemAgain == WatchedSpec => []RedeemedByRaceOnly
<1>1. WatchedInit => RedeemedInv
  <2> SUFFICES ASSUME WatchedInit PROVE RedeemedInv
    OBVIOUS
  <2>1. ResetInv /\ InsertsSend /\ RowsCount /\ redeemed \in [Emails -> Nat]
    BY ResetInvInit DEF WatchedInit, ResetInit, OtpInit, InsertsSend, RowsCount
  <2>2. ASSUME NEW e \in Emails PROVE Redemptions(e)
    <3>1. Relying(e) = {} /\ redeemed[e] = 0 /\ aborts = 0
      BY DEF WatchedInit, ResetInit, Relying, Resting
    <3>2. Cardinality(Relying(e)) = 0
      BY <3>1, FS_EmptySet
    <3> QED  BY <3>1, <3>2, ResetsApart DEF Redemptions
  <2> QED  BY <2>1, <2>2 DEF RedeemedInv
<1>2. RedeemedInv /\ [WatchedNext]_<<allVars, watchVars>> => RedeemedInv'
  <2> SUFFICES ASSUME RedeemedInv, [WatchedNext]_<<allVars, watchVars>>
               PROVE  RedeemedInv'
    OBVIOUS
  <2>1. ResetInv'
    <3>1. [ResetNext]_allVars
      BY DEF WatchedNext, ResetNext, OtpNext, OtpStep
    <3> QED  BY <3>1, ResetNextKeepsInv DEF RedeemedInv
  <2>2. CASE UNCHANGED <<otpVars, resetVars, watchVars>>
    <3>1. UNCHANGED <<otp, otpStage, otpRead, otpObject, step, resetEmail, aborts, redeemed>>
      BY <2>2 DEF otpVars, otpRequestVars, resetVars, watchVars
    <3>2. InsertsSend' /\ RowsCount' /\ redeemed' \in [Emails -> Nat]
      BY <3>1 DEF RedeemedInv, InsertsSend, RowsCount
    <3>3. \A e \in Emails : Redemptions(e)'
      BY <3>1 DEF RedeemedInv, Redemptions, Relying, Deleting
    <3> QED  BY <2>1, <3>2, <3>3 DEF RedeemedInv
  <2>3. ASSUME NEW q \in Resets, ResetStep(q), RecordReset(q)
        PROVE  RedeemedInv'
    BY <2>1, <2>3, ResetStepKeepsRedeemed
  <2>4. ASSUME NEW q \in OtpRequests,
               \/ OtpCommit(q) /\ RecordGrant(q) /\ UNCHANGED resetVars
               \/ (OtpPrepare(q) \/ OtpAbort(q)) /\ UNCHANGED <<resetVars, watchVars>>
        PROVE  RedeemedInv'
    BY <2>1, <2>4, OtpStepKeepsRedeemed
  <2> QED  BY <2>2, <2>3, <2>4 DEF WatchedNext, allVars
<1>3. RedeemedInv => RedeemedByRaceOnly
  <2> SUFFICES ASSUME RedeemedInv, NEW e \in Emails
               PROVE  redeemed[e] <= Cardinality(Resets) + aborts
    BY DEF RedeemedByRaceOnly
  <2>1. redeemed[e] \in Nat /\ aborts \in Nat /\ Redemptions(e)
    BY HistoryAssumption DEF RedeemedInv, ResetInv, ResetTypeOK
  <2> QED  BY <2>1, ResetsApart DEF Redemptions
<1> QED  BY <1>1, <1>2, <1>3, PTL DEF WatchedSpec

-----------------------------------------------------------------------------
(* At most one request for a code is being served. *)
CodesAlone ==
    \A p, q \in OtpRequests : otpStage[p] # "idle" /\ otpStage[q] # "idle" => p = q

(* The codes sent in the window that row speaks of. *)
SentIn(row, codes) == {c \in codes : c.at >= row.windowStartedAt}

(* A row counts the codes of its window, and none was sent after it. *)
Counts(row, codes) ==
    /\ row.requestCount > 0
    /\ IsFiniteSet(codes)
    /\ \A c \in codes : c.at \in Int
                       /\ c.at < row.windowStartedAt + OtpThrottleWindow
    /\ Cardinality(SentIn(row, codes)) <= row.requestCount

(* What assigned does to row read: nothing to its codes, one more code in  *)
(* the window, or the first code of a new window.                          *)
SentAt(assigned) == assigned.expiresAt - OtpExpiryMinutes
SendsNone(read, assigned) ==
    /\ assigned.windowStartedAt = read.windowStartedAt
    /\ assigned.requestCount = read.requestCount
SendsOneMore(read, assigned) ==
    /\ assigned.windowStartedAt = read.windowStartedAt
    /\ assigned.requestCount = read.requestCount + 1
    /\ SentAt(assigned) < read.windowStartedAt + OtpThrottleWindow
SendsFirst(assigned) ==
    /\ assigned.requestCount = 1
    /\ assigned.windowStartedAt = SentAt(assigned)
SendsAnew(read, assigned) ==
    /\ SendsFirst(assigned)
    /\ SentAt(assigned) >= read.windowStartedAt + OtpThrottleWindow

(* What request q has in hand, nobody else writing its row meanwhile. *)
InHand(q) ==
    /\ otpStage[q] = "insert" =>
          otp[otpEmail[q]] = NoOtp /\ otpRead[q] = NoOtp /\ SendsFirst(otpObject[q])
    /\ otpStage[q] = "update" =>
          /\ otp[otpEmail[q]] \in {NoOtp, otpRead[q]}
          /\ otpRead[q] # NoOtp
          /\ \/ SendsNone(otpRead[q], otpObject[q])
             \/ SendsOneMore(otpRead[q], otpObject[q])
             \/ SendsAnew(otpRead[q], otpObject[q])

ThrottleInv ==
    /\ ResetInv
    /\ granted = [e \in Emails |-> granted[e]]
    /\ \A e \in Emails : IF otp[e] = NoOtp THEN granted[e] = {}
                         ELSE Counts(otp[e], granted[e])
    /\ \A q \in OtpRequests : InHand(q)

(* One more code, counted. *)
LEMMA CodeIsCounted ==
    ASSUME NEW read \in OtpRow, NEW assigned \in OtpRow, NEW codes,
           Counts(read, codes), OtpThrottleWindow > 0, NEW c,
           c.at = SentAt(assigned),
           SendsOneMore(read, assigned) \/ SendsAnew(read, assigned)
    PROVE  Counts(assigned, codes \cup {c})
<1> DEFINE more == codes \cup {c}
           sent == SentIn(assigned, more)
<1>1. /\ read.windowStartedAt \in Nat /\ assigned.windowStartedAt \in Nat
      /\ read.requestCount \in Nat /\ SentAt(assigned) \in Int
      /\ OtpThrottleWindow \in Nat
  BY OtpSettingsAssumption DEF OtpRow, SentAt
<1>2. IsFiniteSet(more)
  BY FS_AddElement DEF Counts
<1>3. \A d \in more : d.at \in Int
                      /\ d.at < assigned.windowStartedAt + OtpThrottleWindow
  BY <1>1 DEF Counts, SendsOneMore, SendsAnew, SendsFirst
<1>4. CASE SendsOneMore(read, assigned)
  <2>1. IsFiniteSet(SentIn(read, codes))
    BY FS_Subset DEF SentIn, Counts
  <2>2. sent \in SUBSET (SentIn(read, codes) \cup {c})
    BY <1>4 DEF SentIn, SendsOneMore
  <2>3. /\ IsFiniteSet(SentIn(read, codes) \cup {c})
        /\ Cardinality(SentIn(read, codes) \cup {c}) <= read.requestCount + 1
    <3>1. /\ Cardinality(SentIn(read, codes)) \in Nat
          /\ Cardinality(SentIn(read, codes)) <= read.requestCount
      BY <2>1, FS_CardinalityType DEF Counts
    <3>2. /\ IsFiniteSet(SentIn(read, codes) \cup {c})
          /\ \/ Cardinality(SentIn(read, codes) \cup {c})
                  = Cardinality(SentIn(read, codes))
             \/ Cardinality(SentIn(read, codes) \cup {c})
                  = Cardinality(SentIn(read, codes)) + 1
      BY <2>1, FS_AddElement
    <3> QED  BY <1>1, <3>1, <3>2
  <2>4. Cardinality(sent) <= Cardinality(SentIn(read, codes) \cup {c})
        /\ Cardinality(sent) \in Nat
        /\ Cardinality(SentIn(read, codes) \cup {c}) \in Nat
    BY <2>2, <2>3, FS_Subset, FS_CardinalityType
  <2>5. Cardinality(sent) <= assigned.requestCount
    BY <1>1, <1>4, <2>3, <2>4 DEF SendsOneMore
  <2>6. assigned.requestCount > 0
    BY <1>1, <1>4 DEF SendsOneMore
  <2> QED  BY <1>2, <1>3, <2>5, <2>6 DEF Counts
<1>5. CASE SendsAnew(read, assigned)
  <2>1. sent \subseteq {c}
    BY <1>1, <1>5 DEF SentIn, Counts, SendsAnew, SendsFirst
  <2>2. Cardinality(sent) \in {0, 1}
    <3>1. Cardinality({c}) = 1 /\ Cardinality({}) = 0
      BY FS_Singleton, FS_EmptySet
    <3>2. sent = {} \/ sent = {c}
      BY <2>1
    <3> QED  BY <3>1, <3>2
  <2> QED  BY <1>2, <1>3, <1>5, <2>2 DEF Counts, SendsAnew, SendsFirst
<1> QED  BY <1>4, <1>5

(* The first code under a key is counted. *)
LEMMA FirstCodeIsCounted ==
    ASSUME NEW assigned \in OtpRow, SendsFirst(assigned), OtpThrottleWindow > 0,
           NEW c, c.at = SentAt(assigned)
    PROVE  Counts(assigned, {c})
<1>1. /\ assigned.windowStartedAt \in Nat /\ SentAt(assigned) \in Int
      /\ OtpThrottleWindow \in Nat
  BY OtpSettingsAssumption DEF OtpRow, SentAt
<1>2. SentIn(assigned, {c}) = {c}
  BY <1>1 DEF SentIn, SendsFirst
<1>3. Cardinality(SentIn(assigned, {c})) = 1 /\ IsFiniteSet({c})
  BY <1>2, FS_Singleton
<1> QED  BY <1>1, <1>3 DEF Counts, SendsFirst

(* The rows a request computes from the row it read. *)
LEMMA RowsInHand ==
    ASSUME NEW row \in OtpRow, NEW t \in Nat
    PROVE  /\ SendsFirst(FirstIssue(t))
           /\ SendsNone(row, [row EXCEPT !.verified = TRUE])
           /\ \/ SendsOneMore(row, Reissued(row, t))
              \/ SendsAnew(row, Reissued(row, t))
<1>1. /\ OtpExpiryMinutes \in Nat /\ OtpThrottleWindow \in Nat
      /\ t + OtpExpiryMinutes \in Nat
      /\ row.requestCount \in Nat /\ row.windowStartedAt \in Nat
  BY OtpSettingsAssumption DEF OtpRow
<1>2. SentAt(FirstIssue(t)) = t /\ SendsFirst(FirstIssue(t))
  <2>1. /\ FirstIssue(t).expiresAt = t + OtpExpiryMinutes
        /\ FirstIssue(t).windowStartedAt = t /\ FirstIssue(t).requestCount = 1
    BY DEF FirstIssue
  <2> QED  BY <1>1, <2>1 DEF SentAt, SendsFirst
<1>3. SendsNone(row, [row EXCEPT !.verified = TRUE])
  BY DEF SendsNone, OtpRow
<1>4. CASE WindowOver(row, t)
  <2>1. Reissued(row, t) = FirstIssue(t)
    BY <1>4 DEF Reissued
  <2>2. t >= row.windowStartedAt + OtpThrottleWindow
    BY <1>4 DEF WindowOver
  <2> QED  BY <1>2, <1>3, <2>1, <2>2 DEF SendsAnew
<1>5. CASE ~WindowOver(row, t)
  <2>1. /\ Reissued(row, t).windowStartedAt = row.windowStartedAt
        /\ Reissued(row, t).requestCount = row.requestCount + 1
        /\ Reissued(row, t).expiresAt = t + OtpExpiryMinutes
    BY <1>5 DEF Reissued, OtpRow
  <2>2. SentAt(Reissued(row, t)) = t
    BY <1>1, <2>1 DEF SentAt
  <2> QED  BY <1>1, <1>2, <1>3, <1>5, <2>1, <2>2 DEF WindowOver, SendsOneMore
<1> QED  BY <1>4, <1>5

(* A commit over the row that was read writes the row as assigned. *)
LEMMA WrittenAsAssigned ==
    ASSUME NEW read \in OtpRow, NEW assigned \in OtpRow
    PROVE  WrittenOtp(read, read, assigned) = assigned
BY DEF WrittenOtp, Column, OtpRow

-----------------------------------------------------------------------------
LEMMA OtherRequestsIdle ==
    ASSUME OtpTypeOK, CodesAlone, CodesAlone', NEW q \in OtpRequests, OtpStep(q)
    PROVE  \A p \in OtpRequests \ {q} : otpStage[p] = "idle" /\ otpStage'[p] = "idle"
<1>1. otpStage[q] # "idle" \/ otpStage'[q] # "idle"
  BY DEF OtpTypeOK, OtpStep, OtpPrepare, OtpReadAdmin, GenerateOtp, RegenerateOtp,
         VerifyOtp, OtpRefuse, OtpReadRow, OtpCommit, OtpInsert, OtpUpdate, OtpAbort
<1>2. \A p \in OtpRequests \ {q} : otpStage'[p] = otpStage[p]
  BY DEF OtpTypeOK, OtpStep, OtpPrepare, OtpReadAdmin, GenerateOtp, RegenerateOtp,
         VerifyOtp, OtpRefuse, OtpReadRow, OtpCommit, OtpInsert, OtpUpdate, OtpAbort,
         OtpDone
<1> QED  BY <1>1, <1>2 DEF CodesAlone

(* A request reads the row and computes the new one. *)
LEMMA PrepareKeepsThrottle ==
    ASSUME ThrottleInv, ResetInv', CodesAlone, CodesAlone',
           NEW q \in OtpRequests, OtpPrepare(q), UNCHANGED watchVars
    PROVE  ThrottleInv'
<1>1. /\ OtpTypeOK /\ otpClock[q] \in Nat /\ RowOf(q) \in OtpRow
      /\ \A p \in OtpRequests \ {q} : otpStage'[p] = "idle"
  <2>1. OtpTypeOK
    BY DEF ThrottleInv, ResetInv, ResetTypeOK
  <2>2. otpClock[q] \in Nat /\ RowOf(q) \in OtpRow
    BY <2>1, BoundsAssumption DEF OtpTypeOK, RowOf
  <2> QED  BY <2>1, <2>2, OtherRequestsIdle DEF OtpStep
<1>2. otp' = otp /\ granted' = granted
  BY PrepareSparesRows DEF watchVars
<1>3. ASSUME NEW row, NEW next, OtpReadRow(q, row, next)
      PROVE  /\ otpStage'[q] = next /\ otpObject'[q] = row
             /\ otpRead'[q] = RowOf(q) /\ otp'[otpEmail'[q]] = RowOf(q)
  BY <1>1, <1>2, <1>3 DEF OtpReadRow, OtpTypeOK, RowOf
<1>4. InHand(q)'
  <2>1. CASE GenerateOtp(q)
    <3>1. RowOf(q) = NoOtp /\ OtpReadRow(q, FirstIssue(otpClock[q]), "insert")
      BY <2>1 DEF GenerateOtp
    <3>2. /\ otpStage'[q] = "insert" /\ otpObject'[q] = FirstIssue(otpClock[q])
          /\ otpRead'[q] = RowOf(q) /\ otp'[otpEmail'[q]] = RowOf(q)
      BY <1>3, <3>1
    <3>3. SendsFirst(otpObject'[q])
      <4>1. SendsFirst(FirstIssue(otpClock[q]))
        BY <1>1, RowsInHand
      <4> QED  BY <3>2, <4>1
    <3> QED  BY <3>1, <3>2, <3>3 DEF InHand
  <2>2. CASE RegenerateOtp(q)
    <3>1. /\ RowOf(q) # NoOtp
          /\ OtpReadRow(q, Reissued(RowOf(q), otpClock[q]), "update")
      BY <2>2 DEF RegenerateOtp
    <3>2. /\ otpStage'[q] = "update" /\ otpObject'[q] = Reissued(RowOf(q), otpClock[q])
          /\ otpRead'[q] = RowOf(q) /\ otp'[otpEmail'[q]] = RowOf(q)
      BY <1>3, <3>1
    <3>3. \/ SendsOneMore(otpRead'[q], otpObject'[q])
          \/ SendsAnew(otpRead'[q], otpObject'[q])
      <4>1. \/ SendsOneMore(RowOf(q), Reissued(RowOf(q), otpClock[q]))
            \/ SendsAnew(RowOf(q), Reissued(RowOf(q), otpClock[q]))
        BY <1>1, RowsInHand
      <4> QED  BY <3>2, <4>1
    <3> QED  BY <3>1, <3>2, <3>3 DEF InHand
  <2>3. CASE VerifyOtp(q)
    <3>1. /\ RowOf(q) # NoOtp
          /\ OtpReadRow(q, [RowOf(q) EXCEPT !.verified = TRUE], "update")
      BY <2>3 DEF VerifyOtp, Usable
    <3>2. /\ otpStage'[q] = "update"
          /\ otpObject'[q] = [RowOf(q) EXCEPT !.verified = TRUE]
          /\ otpRead'[q] = RowOf(q) /\ otp'[otpEmail'[q]] = RowOf(q)
      BY <1>3, <3>1
    <3>3. SendsNone(otpRead'[q], otpObject'[q])
      BY <1>1, <3>2, RowsInHand
    <3> QED  BY <3>1, <3>2, <3>3 DEF InHand
  <2>4. CASE (\E e \in Emails : OtpReadAdmin(q, e)) \/ OtpRefuse(q)
    <3>1. otpStage'[q] \in {"readRow", "idle"}
      BY <1>1, <2>4 DEF OtpReadAdmin, OtpRefuse, OtpDone, OtpTypeOK
    <3> QED  BY <3>1 DEF InHand
  <2> QED  BY <2>1, <2>2, <2>3, <2>4 DEF OtpPrepare
<1>5. \A p \in OtpRequests : InHand(p)'
  BY <1>1, <1>4 DEF InHand
<1> QED  BY <1>2, <1>5 DEF ThrottleInv

(* A request inserts or updates its row; the row written counts what the   *)
(* observer saw sent.                                                      *)
LEMMA CommitKeepsThrottle ==
    ASSUME ThrottleInv, ResetInv', CodesAlone, CodesAlone', OtpThrottleWindow > 0,
           NEW q \in OtpRequests, OtpCommit(q), RecordGrant(q)
    PROVE  ThrottleInv'
<1> DEFINE e == otpEmail[q]
           c == Code(e, SentAt(otpObject[q]))
<1>1. /\ OtpTypeOK /\ e \in Emails
      /\ otpObject[q] \in OtpRow /\ otpRead[q] \in OtpRow
      /\ \A p \in OtpRequests \ {q} : otpStage'[p] = "idle"
  BY OtherRequestsIdle DEF OtpStep, ThrottleInv, ResetInv, ResetTypeOK, OtpTypeOK
<1>2. otpStage'[q] = "idle"
  BY <1>1 DEF OtpCommit, OtpInsert, OtpUpdate, OtpDone, OtpTypeOK
<1>3. \A p \in OtpRequests : InHand(p)'
  BY <1>1, <1>2 DEF InHand
<1>4. /\ granted = [f \in Emails |-> granted[f]]
      /\ \A f \in Emails : IF otp[f] = NoOtp THEN granted[f] = {}
                           ELSE Counts(otp[f], granted[f])
      /\ InHand(q)
      /\ otp = [f \in Emails |-> otp[f]]
  BY <1>1 DEF ThrottleInv, OtpTypeOK
<1>5. c.at = SentAt(otpObject[q])
  BY DEF Code
<1>6. Grants(q) => granted' = [granted EXCEPT ![e] = @ \cup {c}]
  BY DEF RecordGrant, SentAt
<1>7. ~Grants(q) => granted' = granted
  BY DEF RecordGrant
<1> HIDE DEF c, e
<1>8. SUFFICES /\ granted' = [f \in Emails |-> granted'[f]]
               /\ \A f \in Emails : IF otp'[f] = NoOtp THEN granted'[f] = {}
                                    ELSE Counts(otp'[f], granted'[f])
  BY <1>3, <1>8 DEF ThrottleInv
<1>9. ASSUME Grants(q), otp' = [otp EXCEPT ![e] = otpObject[q]],
             otpObject[q] # NoOtp, Counts(otpObject[q], granted[e] \cup {c})
      PROVE  /\ granted' = [f \in Emails |-> granted'[f]]
             /\ \A f \in Emails : IF otp'[f] = NoOtp THEN granted'[f] = {}
                                  ELSE Counts(otp'[f], granted'[f])
  BY <1>1, <1>4, <1>6, <1>9
<1>10. NoOtp.requestCount = 0
  BY DEF NoOtp
<1>11. CASE OtpInsert(q)
  <2>1. /\ otp[e] = NoOtp /\ otpRead[q] = NoOtp /\ SendsFirst(otpObject[q])
        /\ otpStage[q] = "insert"
    BY <1>4, <1>11 DEF InHand, OtpInsert, e
  <2>2. otpObject[q].requestCount = 1 /\ otpObject[q] # NoOtp
    BY <2>1, <1>10 DEF SendsFirst
  <2>3. Grants(q)
    BY <2>1, <2>2, <1>10 DEF Grants, e
  <2>4. granted[e] \cup {c} = {c}
    BY <1>1, <1>4, <2>1
  <2>5. Counts(otpObject[q], {c})
    BY <1>1, <1>5, <2>1, FirstCodeIsCounted
  <2>6. otp' = [otp EXCEPT ![e] = otpObject[q]]
    BY <1>11, <2>1 DEF OtpInsert, e
  <2> QED  BY <1>9, <2>2, <2>3, <2>4, <2>5, <2>6
<1>12. CASE OtpUpdate(q)
  <2>1. /\ otpStage[q] = "update" /\ otp[e] \in {NoOtp, otpRead[q]}
        /\ otpRead[q] # NoOtp
        /\ \/ SendsNone(otpRead[q], otpObject[q])
           \/ SendsOneMore(otpRead[q], otpObject[q])
           \/ SendsAnew(otpRead[q], otpObject[q])
    BY <1>4, <1>12 DEF InHand, OtpUpdate, e
  <2>2. CASE otp[e] = NoOtp
    <3>1. otp' = otp
      BY <1>12, <2>2 DEF OtpUpdate, e
    <3>2. ~Grants(q)
      BY <2>1, <2>2 DEF Grants, e
    <3> QED  BY <1>4, <1>7, <3>1, <3>2
  <2>3. CASE otp[e] # NoOtp
    <3>1. /\ otp[e] = otpRead[q] /\ Counts(otpRead[q], granted[e])
      BY <1>1, <1>4, <2>1, <2>3
    <3>2. otp' = [otp EXCEPT ![e] = otpObject[q]]
      <4>1. otp' = [otp EXCEPT ![e] = WrittenOtp(otp[e], otpRead[q], otpObject[q])]
        BY <1>12, <2>3 DEF OtpUpdate, e
      <4> QED  BY <1>1, <3>1, <4>1, WrittenAsAssigned
    <3>3. CASE SendsNone(otpRead[q], otpObject[q])
      <4>1. ~Grants(q)
        BY <3>3 DEF Grants, SendsNone
      <4>2. Counts(otpObject[q], granted[e])
        BY <3>1, <3>3 DEF Counts, SentIn, SendsNone
      <4>3. otpObject[q] # NoOtp
        BY <1>10, <4>2 DEF Counts
      <4> QED  BY <1>1, <1>4, <1>7, <3>2, <4>1, <4>2, <4>3
    <3>4. CASE \/ SendsOneMore(otpRead[q], otpObject[q])
               \/ SendsAnew(otpRead[q], otpObject[q])
      <4>1. Counts(otpObject[q], granted[e] \cup {c})
        BY <1>1, <1>5, <3>1, <3>4, CodeIsCounted
      <4>2. otpRead[q].requestCount \in Nat /\ otpRead[q].windowStartedAt \in Nat
            /\ OtpThrottleWindow \in Nat
        BY <1>1, OtpSettingsAssumption DEF OtpRow
      <4>3. \/ otpObject[q].requestCount # otpRead[q].requestCount
            \/ otpObject[q].windowStartedAt # otpRead[q].windowStartedAt
        BY <3>4, <4>2 DEF SendsOneMore, SendsAnew, SendsFirst
      <4>4. Grants(q)
        BY <2>1, <2>3, <4>3 DEF Grants, e
      <4>5. otpObject[q].requestCount # 0
        BY <3>4, <4>2 DEF SendsOneMore, SendsAnew, SendsFirst
      <4> QED  BY <1>9, <1>10, <3>2, <4>1, <4>4, <4>5
    <3> QED  BY <2>1, <3>3, <3>4
  <2> QED  BY <2>2, <2>3
<1> QED  BY <1>11, <1>12 DEF OtpCommit

(* A request is lost before it commits. *)
LEMMA AbortKeepsThrottle ==
    ASSUME ThrottleInv, ResetInv', CodesAlone, CodesAlone',
           NEW q \in OtpRequests, OtpAbort(q), UNCHANGED watchVars
    PROVE  ThrottleInv'
<1>1. \A p \in OtpRequests : otpStage'[p] = "idle"
  <2>1. OtpTypeOK
    BY DEF ThrottleInv, ResetInv, ResetTypeOK
  <2>2. otpStage'[q] = "idle"
    BY <2>1 DEF OtpAbort, OtpDone, OtpTypeOK
  <2> QED  BY <2>1, <2>2, OtherRequestsIdle DEF OtpStep
<1>2. \A p \in OtpRequests : InHand(p)'
  BY <1>1 DEF InHand
<1> QED  BY <1>2 DEF OtpAbort, ThrottleInv, watchVars

(* A reset may only take a row away, and its codes with it. *)
LEMMA ResetStepKeepsThrottle ==
    ASSUME ThrottleInv, ResetInv', NEW q \in Resets, ResetStep(q), RecordReset(q)
    PROVE  ThrottleInv'
<1>1. \A e \in Emails : otp'[e] \in {NoOtp, otp[e]}
  <2>1. otp \in [Emails -> OtpRow]
    BY DEF ThrottleInv, ResetInv, ResetTypeOK, OtpTypeOK
  <2> QED  BY <2>1, ResetStepFrame DEF ResetDeleteOtp, otpVars
<1>2. otpRequestVars' = otpRequestVars
  BY ResetStepFrame DEF ResetDeleteOtp, otpVars
<1>3. granted' = [e \in Emails |-> IF otp'[e] = NoOtp THEN {} ELSE granted[e]]
  BY DEF RecordReset
<1>4. \A e \in Emails : IF otp'[e] = NoOtp THEN granted'[e] = {}
                       ELSE Counts(otp'[e], granted'[e])
  BY <1>1, <1>3 DEF ThrottleInv
<1>5. \A p \in OtpRequests : InHand(p)'
  <2>1. ASSUME NEW p \in OtpRequests PROVE InHand(p)'
    <3>1. InHand(p) /\ otpEmail[p] \in Emails
      BY DEF ThrottleInv, ResetInv, ResetTypeOK, OtpTypeOK
    <3> QED  BY <1>1, <1>2, <3>1 DEF InHand, otpRequestVars
  <2> QED  BY <2>1
<1> QED  BY <1>3, <1>4, <1>5 DEF ThrottleInv

(* As long as requests for codes do not overlap, no more codes are sent in *)
(* a window than settings allow, for every positive window and limit, and  *)
(* however resets race, are cut short, or delete the row under a request.  *)
THEOREM ThrottleHolds ==
    ASSUME OtpThrottleWindow > 0
    PROVE  WatchedSpec /\ []CodesAlone => []CodesThrottled
<1>1. WatchedInit => ThrottleInv
  BY ResetInvInit DEF WatchedInit, ResetInit, OtpInit, ThrottleInv, InHand
<1>2. ThrottleInv /\ CodesAlone /\ CodesAlone' /\ [WatchedNext]_<<allVars, watchVars>>
      => ThrottleInv'
  <2> SUFFICES ASSUME ThrottleInv, CodesAlone, CodesAlone',
                      [WatchedNext]_<<allVars, watchVars>>
               PROVE  ThrottleInv'
    OBVIOUS
  <2>1. ResetInv'
    <3>1. [ResetNext]_allVars
      BY DEF WatchedNext, ResetNext, OtpNext, OtpStep
    <3> QED  BY <3>1, ResetNextKeepsInv DEF ThrottleInv
  <2>2. CASE UNCHANGED <<otpVars, watchVars>>
    BY <2>1, <2>2 DEF ThrottleInv, InHand, otpVars, otpRequestVars, watchVars
  <2>3. ASSUME NEW q \in Resets, ResetStep(q), RecordReset(q)
        PROVE  ThrottleInv'
    BY <2>1, <2>3, ResetStepKeepsThrottle
  <2>4. ASSUME NEW q \in OtpRequests, OtpCommit(q), RecordGrant(q)
        PROVE  ThrottleInv'
    BY <2>1, <2>4, CommitKeepsThrottle
  <2>5. ASSUME NEW q \in OtpRequests, OtpPrepare(q) \/ OtpAbort(q), UNCHANGED watchVars
        PROVE  ThrottleInv'
    BY <2>1, <2>5, PrepareKeepsThrottle, AbortKeepsThrottle
  <2> QED  BY <2>2, <2>3, <2>4, <2>5 DEF WatchedNext, allVars
<1>3. ThrottleInv => CodesThrottled
  <2> SUFFICES ASSUME ThrottleInv, NEW e \in Emails, otp[e] # NoOtp
               PROVE  Cardinality(SentIn(otp[e], granted[e])) <= OtpMaxRequests
    BY DEF CodesThrottled, SentIn
  <2>1. /\ Cardinality(SentIn(otp[e], granted[e])) <= otp[e].requestCount
        /\ IsFiniteSet(granted[e])
    BY DEF ThrottleInv, Counts
  <2>2. Cardinality(SentIn(otp[e], granted[e])) \in Nat
    BY <2>1, FS_Subset, FS_CardinalityType DEF SentIn
  <2>3. /\ otp[e].requestCount <= OtpMaxRequests /\ otp[e].requestCount \in Nat
        /\ OtpMaxRequests \in Nat
    BY OtpSettingsAssumption
       DEF ThrottleInv, ResetInv, ResetTypeOK, OtpTypeOK, OtpRow,
           RequestCountWithinLimit
  <2> QED  BY <2>1, <2>2, <2>3
<1> QED  BY <1>1, <1>2, <1>3, PTL DEF WatchedSpec
=============================================================================
