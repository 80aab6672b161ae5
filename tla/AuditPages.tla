----------------------------- MODULE AuditPages ------------------------------
(***************************************************************************)
(* A client reads the audit log page by page (GET /audit-logs, newest      *)
(* entry first) while the log grows under it.                              *)
(*                                                                         *)
(* A page is a count and a select, two statements that see two states of   *)
(* the log; then the listing records an entry of its own, which pushes     *)
(* every other entry one place down.  An entry gets its created_at when    *)
(* its object is built and is stored by a later commit, so it may appear   *)
(* below entries that are there already.  Only the entries that the        *)
(* filters select are modelled; created_at values are taken to differ, as  *)
(* equal ones leave the order of their rows open.                          *)
(***************************************************************************)
EXTENDS Naturals, FiniteSets

CONSTANTS
    Writers,    \* other requests that record entries
    Limit,      \* limit: the entries on a page
    MaxFirst,   \* bound: entries built before the client starts
    MaxOthers   \* bound: entries others have in flight or build after that

ASSUME PagesAssumption ==
    /\ IsFiniteSet(Writers)
    /\ Limit \in Nat \ {0}
    /\ MaxFirst \in Nat
    /\ MaxOthers \in Nat

VARIABLES
    log,        \* created_at of the stored entries
    clock,      \* the latest created_at given out
    writing,    \* writing[w]: created_at of the entry w has yet to commit, or 0
    own,        \* the same for the entry of the listing itself
    others,     \* entries of the writers not stored when the client started
    at,         \* the next statement of the listing
    page,       \* the page asked for
    total,      \* total_items as counted for that page
    listed,     \* history: the size of the log when the page was selected
    first,      \* history: the entries stored when the client started
    seen        \* history: the entries the client has been sent

vars == <<log, clock, writing, own, others, at, page, total, listed, first, seen>>

-----------------------------------------------------------------------------
(* The entries listed before x: those created later. *)
Rank(x) == Cardinality({y \in log : y > x})

(* Defect: pages are counted from 0. *)
PageFromZero(p) == {x \in log : p * Limit <= Rank(x) /\ Rank(x) < p * Limit + Limit}

(* ORDER BY created_at DESC OFFSET (page - 1) * limit LIMIT limit *)
Page(p) == {x \in log : (p - 1) * Limit <= Rank(x) /\ Rank(x) < p * Limit}

(* Defect: the last page counts only when it is full. *)
FullPages(items) == items \div Limit

(* total_pages of app/utils/pagination.py *)
TotalPages(items) == (items + Limit - 1) \div Limit

(* created_at values in flight at the start are older than the first read. *)
Init ==
    /\ clock \in 0..MaxFirst
    /\ writing \in [Writers -> 0..clock]
    /\ \A v, w \in Writers : v # w /\ writing[v] # 0 => writing[v] # writing[w]
    /\ log = 1..clock \ {writing[w] : w \in Writers}
    /\ own = 0
    /\ others = Cardinality({w \in Writers : writing[w] # 0})
    /\ at = "count"
    /\ page = 1
    /\ total = 0
    /\ listed = 0
    /\ first = log
    /\ seen = {}

(* AuditLog(...): created_at is taken from the clock of the server. *)
Build(w) ==
    /\ writing[w] = 0
    /\ others < MaxOthers
    /\ others' = others + 1
    /\ clock' = clock + 1
    /\ writing' = [writing EXCEPT ![w] = clock + 1]
    /\ UNCHANGED <<log, own, at, page, total, listed, first, seen>>

(* Defect: the entry is stored without a created_at. *)
CommitUnstamped(w) ==
    /\ writing[w] # 0
    /\ log' = log \cup {0}
    /\ writing' = [writing EXCEPT ![w] = 0]
    /\ UNCHANGED <<clock, own, others, at, page, total, listed, first, seen>>

Commit(w) ==
    /\ writing[w] # 0
    /\ log' = log \cup {writing[w]}
    /\ writing' = [writing EXCEPT ![w] = 0]
    /\ UNCHANGED <<clock, own, others, at, page, total, listed, first, seen>>

(* A failed write is swallowed (audit_service.record), and a request may   *)
(* be lost.                                                                *)
Lose(w) ==
    /\ writing[w] # 0
    /\ writing' = [writing EXCEPT ![w] = 0]
    /\ UNCHANGED <<log, clock, own, others, at, page, total, listed, first, seen>>

Count ==
    /\ at = "count"
    /\ total' = Cardinality(log)
    /\ at' = "select"
    /\ UNCHANGED <<log, clock, writing, own, others, page, listed, first, seen>>

Select ==
    /\ at = "select"
    /\ seen' = seen \cup Page(page)
    /\ listed' = Cardinality(log)
    /\ at' = "record"
    /\ UNCHANGED <<log, clock, writing, own, others, page, total, first>>

(* record_audit: AUDIT_READ, by the listing itself. *)
Record ==
    /\ at = "record"
    /\ clock' = clock + 1
    /\ own' = clock + 1
    /\ at' = "store"
    /\ UNCHANGED <<log, writing, others, page, total, listed, first, seen>>

(* Defect: the listing is recorded by the route and once more beside it. *)
RecordStoredTwice ==
    /\ at = "store"
    /\ clock' = clock + 1
    /\ log' = log \cup {own, clock + 1}
    /\ own' = 0
    /\ at' = "answer"
    /\ UNCHANGED <<writing, others, page, total, listed, first, seen>>

RecordStored ==
    /\ at = "store"
    /\ log' = log \cup {own}
    /\ own' = 0
    /\ at' = "answer"
    /\ UNCHANGED <<clock, writing, others, page, total, listed, first, seen>>

(* The write failed and was swallowed, or the filters leave the entry out. *)
RecordLost ==
    /\ at = "store"
    /\ own' = 0
    /\ at' = "answer"
    /\ UNCHANGED <<log, clock, writing, others, page, total, listed, first, seen>>

(* The client asks for the next page as long as total_pages tells of one. *)
NextPage ==
    /\ at = "answer"
    /\ page < TotalPages(total)
    /\ page' = page + 1
    /\ at' = "count"
    /\ UNCHANGED <<log, clock, writing, own, others, total, listed, first, seen>>

LastPage ==
    /\ at = "answer"
    /\ page >= TotalPages(total)
    /\ at' = "done"
    /\ UNCHANGED <<log, clock, writing, own, others, page, total, listed, first,
                   seen>>

Next ==
    \/ \E w \in Writers : Build(w) \/ Commit(w) \/ Lose(w)
    \/ Count \/ Select \/ Record \/ RecordStored \/ RecordLost
    \/ NextPage \/ LastPage

Spec == Init /\ [][Next]_vars

-----------------------------------------------------------------------------
(* Entries stored or in flight carry a created_at that was given out.      *)
TypeOK ==
    /\ clock \in Nat
    /\ log \subseteq 1..clock
    /\ writing \in [Writers -> 0..clock]
    /\ own \in 0..clock
    /\ others \in Nat
    /\ at \in {"count", "select", "record", "store", "answer", "done"}
    /\ page \in Nat \ {0}
    /\ total \in Nat
    /\ listed \in Nat
    /\ first \subseteq log
    /\ seen \subseteq log

(* Pages selected so far. *)
Pages == IF at \in {"count", "select"} THEN page - 1 ELSE page

(* While a client pages through the log, an entry that was there when it   *)
(* started is either sent or still below the pages sent: what is recorded  *)
(* meanwhile only pushes it further down, so it is never skipped           *)
(* (audit_repository.list_audit_logs, newest first over an append-only     *)
(* log).                                                                   *)
NothingSkipped == \A x \in first \ seen : Rank(x) >= Pages * Limit

(* A client that stops where total_pages says misses no more of those      *)
(* entries than were stored between the last count and its select, the two *)
(* statements of a page (list_audit_logs, lines 66-75; pagination.py).     *)
MissedOnlyByRace ==
    at = "done" => Cardinality(first \ seen) + total <= listed

(* Reading makes headway although every page it reads adds an entry: after *)
(* k pages, the last one aside, the client has at least (limit - 1) * k    *)
(* + 1 entries, less what others recorded.  With a limit of 1 this says    *)
(* nothing, and such a client indeed gets the same entry again and again   *)
(* (api/v1/audit_logs.py, lines 74-81).                                    *)
HeadwayPerPage ==
    page > 1 => (page - 1) * (Limit - 1) + 1
                <= Cardinality(seen) + others
=============================================================================
