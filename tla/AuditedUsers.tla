---------------------------- MODULE AuditedUsers -----------------------------
(***************************************************************************)
(* UserDirectory composed with the audit entries its calls leave: record   *)
(* of app/services/audit_service.py, called by user_service.py once the    *)
(* change is committed.                                                    *)
(*                                                                         *)
(* The entry is a transaction of its own.  Other calls commit and record   *)
(* between the two, and the entry is lost when the request ends there or   *)
(* when its write fails, which record swallows.  An entry is modelled by   *)
(* the facts it names: user u was given this value in this column.  The    *)
(* actor, the request data and the number of equal entries are left out.   *)
(***************************************************************************)
EXTENDS UserDirectory

CONSTANT Watched    \* bound: the users whose entries are looked at

ASSUME WatchedAssumption == Watched \subseteq UserIds

VARIABLES
    pending,    \* pending[q]: the entry call q has yet to record, or NoEntry
    trail,      \* the facts the entries of audit_logs name
    missed,     \* history: users of whom an entry was lost
    had         \* history: the facts that were true of the stored rows

auditVars == <<pending, trail, missed, had>>

NoEntry == [at |-> "none"]

Columns == DOMAIN NoUser

(* What a row or a payload says of user u. *)
Facts(u, row) ==
    {[user |-> u, column |-> c, value |-> row[c]] :
        c \in {d \in Columns : row[d] # Unset}}

(* Defect: a creation names the email only. *)
EmailCreated(row) == [NoUser EXCEPT !.email = row.email]

(* details of USER_CREATE: the status is not among them. *)
Created(row) == [row EXCEPT !.status = Unset]

(* The entry that call q owes once its change is committed: a creation     *)
(* names the row as refreshed, any other call names what it was given (a   *)
(* USER_DELETE names the status by its action).                            *)
Owed(q) ==
    IF call[q].at = "insert" THEN [at |-> "refresh", user |-> call[q].user]
    ELSE [at |-> "record", user |-> call[q].user, named |-> call[q].payload]

-----------------------------------------------------------------------------
AuditedInit ==
    /\ Init
    /\ pending = [q \in Calls |-> NoEntry]
    /\ trail = {}
    /\ missed = {}
    /\ had = {}

(* The commit of call q went through, or was refused by the unique index.  *)
Owe(q) ==
    /\ pending' = IF call'[q] = Served /\ call[q].user \in Watched
                  THEN [pending EXCEPT ![q] = Owed(q)] ELSE pending
    /\ had' = had \cup UNION {Facts(u, users'[u]) : u \in Watched}
    /\ UNCHANGED <<trail, missed>>

(* db.refresh after a creation: it reads what other calls made of the row. *)
RefreshCreated(q) ==
    /\ pending[q].at = "refresh"
    /\ pending' = [pending EXCEPT ![q] =
          [at |-> "record", user |-> pending[q].user,
           named |-> Created(users[pending[q].user])]]
    /\ UNCHANGED <<vars, trail, missed, had>>

RecordAudit(q) ==
    /\ pending[q].at = "record"
    /\ trail' = trail \cup Facts(pending[q].user, pending[q].named)
    /\ pending' = [pending EXCEPT ![q] = NoEntry]
    /\ Answer(q)
    /\ UNCHANGED <<missed, had>>

(* The request is lost after its commit, the refresh fails, or the write   *)
(* of the entry fails and is swallowed.                                    *)
AuditLost(q) ==
    /\ pending[q] # NoEntry
    /\ missed' = missed \cup {pending[q].user}
    /\ pending' = [pending EXCEPT ![q] = NoEntry]
    /\ Answer(q)
    /\ UNCHANGED <<trail, had>>

(* A call on a user whose entries are not looked at. *)
AnswerUnwatched(q) ==
    /\ pending[q] = NoEntry
    /\ Answer(q)
    /\ UNCHANGED auditVars

AuditedNext ==
    \E q \in Calls :
       \/ (UserCall(q) \/ CheckEmail(q) \/ Abort(q)) /\ UNCHANGED auditVars
       \/ (InsertUser(q) \/ SaveUser(q)) /\ Owe(q)
       \/ RefreshCreated(q)
       \/ RecordAudit(q)
       \/ AuditLost(q)
       \/ AnswerUnwatched(q)

AuditedSpec == AuditedInit /\ [][AuditedNext]_<<vars, auditVars>>

-----------------------------------------------------------------------------
(* The trail never says what was not so: a value that an entry names was   *)
(* stored for that user, however calls raced and whatever was refused      *)
(* (user_service.py: record follows the commit it tells of).               *)
TrailIsTrue == trail \subseteq had

(* Fact f is named by an entry, or by one still to be recorded. *)
Accounted(f) ==
    \/ f \in trail
    \/ \E q \in Calls :
          \/ pending[q].at = "refresh" /\ pending[q].user = f.user
          \/ /\ pending[q].at = "record"
             /\ f \in Facts(pending[q].user, pending[q].named)

(* Unless an entry of the user was lost, whatever is stored of a user is   *)
(* accounted for: nobody changes a row past the trail, although entries    *)
(* are recorded out of the order of the commits and a creation records the *)
(* row as others left it.  Only the status a user was created with is in   *)
(* no entry (create_user, details).                                        *)
TrailAccountsForRows ==
    \A u \in Watched \ missed : \A f \in Facts(u, users[u]) :
       \/ Accounted(f)
       \/ f.column = "status" /\ \A g \in had : g.user = u /\ g.column = "status"
                                               => g = f
=============================================================================
