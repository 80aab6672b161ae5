--------------------------- MODULE AuditPagesProofs ---------------------------
(***************************************************************************)
(* Theorems about a client that pages through the audit log, for any page  *)
(* size, any number of writers and any number of entries.                  *)
(***************************************************************************)
EXTENDS AuditPages, Integers, FiniteSetTheorems, WellFoundedInduction, TLAPS

(* The entry of the listing has a created_at by the time it is stored. *)
OwnStamped == at = "store" => own # 0

(* What the statements of a page know of the log: the count is one of a    *)
(* smaller log, and the entries still unseen after the select all lie      *)
(* below the page.                                                         *)
CountedBefore ==
    /\ at = "select" => total <= Cardinality(log)
    /\ at \notin {"count", "select"} =>
          /\ total <= listed
          /\ first \subseteq seen
             \/ Cardinality(first \ seen) + page * Limit <= listed

EndsAtLastPage == at = "done" => page >= TotalPages(total)

PagesInv ==
    /\ TypeOK
    /\ OwnStamped
    /\ NothingSkipped
    /\ CountedBefore
    /\ EndsAtLastPage

-----------------------------------------------------------------------------
(* The log is finite, and so is every part of it. *)
LEMMA LogFinite ==
    ASSUME TypeOK
    PROVE  /\ IsFiniteSet(log) /\ Cardinality(log) \in Nat
           /\ \A S \in SUBSET log : /\ IsFiniteSet(S) /\ Cardinality(S) \in Nat
                                    /\ Cardinality(S) <= Cardinality(log)
           /\ \A x \in log : Rank(x) \in Nat
<1>1. IsFiniteSet(1..clock)
  BY FS_Interval DEF TypeOK
<1>2. IsFiniteSet(log)
  BY <1>1, FS_Subset DEF TypeOK
<1> QED  BY <1>2, FS_Subset, FS_CardinalityType DEF Rank

(* An entry is only ever pushed further down. *)
LEMMA RankGrows ==
    ASSUME TypeOK, TypeOK', log \subseteq log', NEW x \in log
    PROVE  Rank(x) <= Rank(x)'
<1> DEFINE before == {y \in log : y > x}
           after == {y \in log' : y > x}
<1>1. before \subseteq after
  OBVIOUS
<1>2. IsFiniteSet(log')
  <2>1. IsFiniteSet(1..clock')
    BY FS_Interval DEF TypeOK
  <2>2. log' \subseteq 1..clock'
    BY DEF TypeOK
  <2> QED  BY <2>1, <2>2, FS_Subset
<1>3. IsFiniteSet(after)
  BY <1>2, FS_Subset
<1>4. Cardinality(before) <= Cardinality(after)
  BY <1>1, <1>3, FS_Subset
<1> QED  BY <1>4 DEF Rank

(* A nonempty set of entries has a newest one. *)
LEMMA NewestEntry ==
    ASSUME NEW n \in Nat, NEW S \in SUBSET (1..n), S # {}
    PROVE  \E x \in S : \A y \in S : y <= x
<1> DEFINE T == {n - y : y \in S}
           R == {p \in Nat \X Nat : p[1] < p[2]}
<1>1. T \subseteq Nat /\ T # {}
  <2>1. \A y \in S : n - y \in Nat
    OBVIOUS
  <2> QED  BY <2>1
<1>2. IsWellFoundedOn(R, Nat)
  BY NatLessThanWellFounded, Zenon DEF OpToRel
<1> HIDE DEF T
<1>3. \E m \in T : \A k \in T : ~(<<k, m>> \in R)
  BY <1>1, <1>2, WFMin, Zenon
<1>4. PICK m \in T : \A k \in T : ~(<<k, m>> \in R)
  BY <1>3
<1>5. PICK x \in S : m = n - x
  BY DEF T
<1>6. ASSUME NEW y \in S
      PROVE  y <= x
  <2>1. n - y \in T /\ n - y \in Nat /\ m \in Nat
    BY <1>1 DEF T
  <2>2. ~(n - y < m)
    BY <1>4, <2>1
  <2> QED  BY <1>5, <2>1, <2>2
<1> QED  BY <1>6

(* Entries that all have k newer ones are at most the log less k. *)
LEMMA FewBelow ==
    ASSUME TypeOK, NEW S \in SUBSET log, S # {}, NEW k \in Nat,
           \A x \in S : Rank(x) >= k
    PROVE  Cardinality(S) + k <= Cardinality(log)
<1>1. PICK x \in S : \A y \in S : y <= x
  BY NewestEntry DEF TypeOK
<1> DEFINE newer == {y \in log : y > x}
<1>2. Rank(x) = Cardinality(newer) /\ Rank(x) >= k
  BY DEF Rank
<1>3. IsFiniteSet(log) /\ newer \subseteq log /\ S \subseteq log
  BY LogFinite
<1>4. S \cap newer = {}
  <2>1. \A y \in S : y \in Nat /\ x \in Nat /\ y <= x
    BY <1>1 DEF TypeOK
  <2>2. \A y \in S : ~(y > x)
    BY <2>1
  <2> QED  BY <2>2
<1>5. IsFiniteSet(S) /\ IsFiniteSet(newer)
  BY <1>3, FS_Subset
<1> HIDE DEF newer
<1>6. Cardinality(S \cup newer) = Cardinality(S) + Cardinality(newer)
  <2>1. Cardinality(S \cup newer)
          = Cardinality(S) + Cardinality(newer) - Cardinality(S \cap newer)
    BY <1>5, FS_Union
  <2> QED  BY <1>4, <1>5, <2>1, FS_EmptySet, FS_CardinalityType
<1>7. Cardinality(S \cup newer) <= Cardinality(log)
  BY <1>3, FS_Subset
<1>8. /\ Cardinality(S) \in Nat /\ Cardinality(newer) \in Nat
      /\ Cardinality(log) \in Nat
  BY <1>3, <1>5, FS_CardinalityType
<1> QED  BY <1>2, <1>6, <1>7, <1>8

(* The pages that total_pages speaks of hold every entry counted. *)
LEMMA PagesHoldAll ==
    ASSUME NEW items \in Nat, NEW p \in Nat, p >= TotalPages(items)
    PROVE  p * Limit >= items
<1> DEFINE q == (items + Limit - 1) \div Limit
           r == (items + Limit - 1) % Limit
<1>1. Limit \in Nat /\ Limit > 0
  BY PagesAssumption
<1>2. items + Limit - 1 \in Nat
  BY <1>1
<1>3. /\ q \in Int /\ r \in 0..Limit-1
      /\ items + Limit - 1 = Limit * q + r
  BY <1>1, <1>2, Z3
<1>4. Limit * q >= items
  BY <1>1, <1>3
<1>5. p >= q
  BY DEF TotalPages
<1> HIDE DEF q, r
<1>6. p * Limit >= Limit * q
  BY <1>1, <1>3, <1>5, Z3
<1> QED  BY <1>1, <1>3, <1>4, <1>6

-----------------------------------------------------------------------------
LEMMA PagesInvInit == Init => PagesInv
<1> SUFFICES ASSUME Init PROVE PagesInv
  OBVIOUS
<1>1. clock \in Nat /\ log = 1..clock \ {writing[w] : w \in Writers}
  BY PagesAssumption DEF Init
<1>2. others \in Nat
  <2>1. IsFiniteSet({w \in Writers : writing[w] # 0})
    BY PagesAssumption, FS_Subset
  <2> QED  BY <2>1, FS_CardinalityType DEF Init
<1>3. TypeOK
  BY <1>1, <1>2 DEF Init, TypeOK
<1>4. Pages * Limit = 0
  <2>1. Pages = 0
    BY DEF Init, Pages
  <2> QED  BY <2>1, PagesAssumption
<1>5. NothingSkipped
  BY <1>3, <1>4, LogFinite DEF NothingSkipped, TypeOK
<1>6. OwnStamped /\ CountedBefore /\ EndsAtLastPage
  BY DEF Init, OwnStamped, CountedBefore, EndsAtLastPage
<1> QED  BY <1>3, <1>5, <1>6 DEF PagesInv

LEMMA NextKeepsTypes == TypeOK /\ OwnStamped /\ [Next]_vars => TypeOK' /\ OwnStamped'
<1> SUFFICES ASSUME TypeOK, OwnStamped, [Next]_vars PROVE TypeOK' /\ OwnStamped'
  OBVIOUS
<1>1. Limit \in Nat
  BY PagesAssumption
<1>2. ASSUME NEW w \in Writers, Build(w) \/ Commit(w) \/ Lose(w)
      PROVE  TypeOK' /\ OwnStamped'
  <2>1. CASE Build(w)
    BY <2>1 DEF Build, TypeOK, OwnStamped
  <2>2. CASE Commit(w)
    <3>1. writing[w] \in 1..clock /\ clock \in Nat
      BY <2>2 DEF Commit, TypeOK
    <3>2. log' \subseteq 1..clock /\ first \subseteq log' /\ seen \subseteq log'
      BY <2>2, <3>1 DEF Commit, TypeOK
    <3>3. UNCHANGED <<clock, own, others, at, page, total, listed, first, seen>>
      BY <2>2 DEF Commit
    <3>4. writing' \in [Writers -> 0..clock]
      BY <2>2 DEF Commit, TypeOK
    <3> QED  BY <3>2, <3>3, <3>4 DEF TypeOK, OwnStamped
  <2>3. CASE Lose(w)
    BY <2>3 DEF Lose, TypeOK, OwnStamped
  <2> QED  BY <1>2, <2>1, <2>2, <2>3
<1>3. CASE Count
  <2>1. Cardinality(log) \in Nat
    BY LogFinite
  <2> QED  BY <1>3, <2>1 DEF Count, TypeOK, OwnStamped
<1>4. CASE Select
  <2>1. Cardinality(log) \in Nat /\ Page(page) \subseteq log
    BY LogFinite DEF Page
  <2> QED  BY <1>4, <2>1 DEF Select, TypeOK, OwnStamped
<1>5. CASE Record
  BY <1>5 DEF Record, TypeOK, OwnStamped
<1>6. CASE RecordStored
  BY <1>6 DEF RecordStored, TypeOK, OwnStamped
<1>7. CASE RecordLost
  BY <1>7 DEF RecordLost, TypeOK, OwnStamped
<1>8. CASE NextPage
  BY <1>8 DEF NextPage, TypeOK, OwnStamped
<1>9. CASE LastPage
  BY <1>9 DEF LastPage, TypeOK, OwnStamped
<1>10. CASE UNCHANGED vars
  BY <1>10 DEF vars, TypeOK, OwnStamped
<1> QED
  BY <1>2, <1>3, <1>4, <1>5, <1>6, <1>7, <1>8, <1>9, <1>10 DEF Next

(* Nothing is ever taken out of the log, by any step. *)
LEMMA LogGrows == TypeOK /\ [Next]_vars => log \subseteq log'
BY DEF Next, vars, Build, Commit, Lose, Count, Select, Record, RecordStored,
       RecordLost, NextPage, LastPage

(* While no page is selected the unseen entries stay below the pages sent. *)
LEMMA UnselectedKeepsBelow ==
    ASSUME PagesInv, [Next]_vars, UNCHANGED <<first, seen>>, Pages' = Pages
    PROVE  NothingSkipped'
<1>1. TypeOK' /\ log \subseteq log'
  BY NextKeepsTypes, LogGrows DEF PagesInv
<1>2. ASSUME NEW x \in first \ seen
      PROVE  Rank(x)' >= Pages * Limit
  <2>1. x \in log /\ Rank(x) >= Pages * Limit
    BY DEF PagesInv, TypeOK, NothingSkipped
  <2>2. Rank(x) <= Rank(x)'
    BY <1>1, <2>1, RankGrows DEF PagesInv
  <2>3. Rank(x) \in Nat /\ Rank(x)' \in Nat
    <3>1. Rank(x) \in Nat
      BY <2>1, LogFinite DEF PagesInv
    <3>2. x \in log'
      BY <1>1, <2>1
    <3>3. IsFiniteSet(1..clock') /\ log' \subseteq 1..clock'
      BY <1>1, FS_Interval DEF TypeOK
    <3>4. IsFiniteSet({y \in log' : y > x})
      BY <3>3, FS_Subset
    <3> QED  BY <3>1, <3>4, FS_CardinalityType DEF Rank
  <2>4. Pages * Limit \in Nat
    BY PagesAssumption DEF PagesInv, TypeOK, Pages
  <2> QED  BY <2>1, <2>2, <2>3, <2>4
<1> QED  BY <1>2 DEF NothingSkipped

(* The select sends every unseen entry that is not below its page. *)
LEMMA SelectKeepsBelow ==
    ASSUME PagesInv, Select
    PROVE  /\ NothingSkipped'
           /\ \A x \in (first \ seen)' : x \in log /\ Rank(x) >= page * Limit
<1> USE DEF PagesInv
<1>1. /\ Limit \in Nat /\ page \in Nat \ {0} /\ page - 1 \in Nat
      /\ page * Limit \in Nat /\ (page - 1) * Limit \in Nat
  BY PagesAssumption DEF TypeOK
<1>2. /\ Pages = page - 1 /\ Pages' = page /\ UNCHANGED <<log, first>>
      /\ seen' = seen \cup Page(page)
  BY DEF Select, Pages
<1>3. ASSUME NEW x \in first \ seen'
      PROVE  x \in log /\ Rank(x) >= page * Limit
  <2>1. x \in log /\ x \in first \ seen /\ x \notin Page(page)
    BY <1>2 DEF TypeOK
  <2>2. Rank(x) >= (page - 1) * Limit /\ Rank(x) \in Nat
    BY <1>2, <2>1, LogFinite DEF NothingSkipped
  <2> QED  BY <1>1, <2>1, <2>2 DEF Page
<1>4. \A x : Rank(x)' = Rank(x)
  BY <1>2 DEF Rank
<1> QED  BY <1>2, <1>3, <1>4 DEF NothingSkipped

LEMMA NextKeepsPagesInv == PagesInv /\ [Next]_vars => PagesInv'
<1> SUFFICES ASSUME PagesInv, [Next]_vars PROVE PagesInv'
  OBVIOUS
<1> USE DEF PagesInv
<1>1. TypeOK' /\ OwnStamped' /\ log \subseteq log'
  BY NextKeepsTypes, LogGrows
<1>2. Cardinality(log) \in Nat /\ Cardinality(log') \in Nat
      /\ Cardinality(log) <= Cardinality(log')
  <2>1. IsFiniteSet(1..clock') /\ log' \subseteq 1..clock'
    BY <1>1, FS_Interval DEF TypeOK
  <2>2. IsFiniteSet(log')
    BY <2>1, FS_Subset
  <2> QED  BY <1>1, <2>2, LogFinite, FS_Subset, FS_CardinalityType
<1>3. ASSUME NEW w \in Writers, Build(w) \/ Commit(w) \/ Lose(w)
      PROVE  PagesInv'
  <2>1. UNCHANGED <<at, page, total, listed, first, seen>>
    BY <1>3 DEF Build, Commit, Lose
  <2>2. NothingSkipped'
    BY <2>1, UnselectedKeepsBelow DEF Pages
  <2>3. CountedBefore'
    BY <1>2, <2>1 DEF CountedBefore, TypeOK
  <2>4. EndsAtLastPage'
    BY <2>1 DEF EndsAtLastPage, TotalPages
  <2> QED  BY <1>1, <2>2, <2>3, <2>4
<1>4. CASE Count
  <2>1. NothingSkipped'
    BY <1>4, UnselectedKeepsBelow DEF Count, Pages
  <2>2. CountedBefore' /\ EndsAtLastPage'
    BY <1>2, <1>4 DEF Count, CountedBefore, EndsAtLastPage
  <2> QED  BY <1>1, <2>1, <2>2
<1>5. CASE Select
  <2>1. NothingSkipped'
    BY <1>5, SelectKeepsBelow
  <2> DEFINE unseen == first \ seen'
  <2>2. unseen \subseteq log /\ \A x \in unseen : Rank(x) >= page * Limit
    BY <1>5, SelectKeepsBelow DEF Select
  <2>3. page * Limit \in Nat
    BY PagesAssumption DEF TypeOK
  <2>4. unseen # {} => Cardinality(unseen) + page * Limit <= Cardinality(log)
    BY <2>2, <2>3, FewBelow
  <2>5. /\ first' = first /\ page' = page /\ total' = total
        /\ listed' = Cardinality(log) /\ at = "select" /\ at' = "record"
    BY <1>5 DEF Select
  <2>6. CountedBefore' /\ EndsAtLastPage'
    BY <2>4, <2>5 DEF CountedBefore, EndsAtLastPage
  <2> QED  BY <1>1, <2>1, <2>6
<1>6. CASE Record \/ RecordStored \/ RecordLost
  <2>1. /\ UNCHANGED <<page, total, listed, first, seen>>
        /\ at \notin {"count", "select"} /\ at' \notin {"count", "select", "done"}
    BY <1>6 DEF Record, RecordStored, RecordLost
  <2>2. NothingSkipped'
    BY <2>1, UnselectedKeepsBelow DEF Pages
  <2>3. CountedBefore' /\ EndsAtLastPage'
    BY <2>1 DEF CountedBefore, EndsAtLastPage
  <2> QED  BY <1>1, <2>2, <2>3
<1>7. CASE NextPage
  <2>1. page' - 1 = page
    BY <1>7 DEF NextPage, TypeOK
  <2>2. NothingSkipped'
    BY <1>7, <2>1, UnselectedKeepsBelow DEF NextPage, Pages
  <2>3. CountedBefore' /\ EndsAtLastPage'
    BY <1>7 DEF NextPage, CountedBefore, EndsAtLastPage
  <2> QED  BY <1>1, <2>2, <2>3
<1>8. CASE LastPage
  <2>1. NothingSkipped'
    BY <1>8, UnselectedKeepsBelow DEF LastPage, Pages
  <2>2. CountedBefore'
    BY <1>8 DEF LastPage, CountedBefore
  <2>3. EndsAtLastPage'
    BY <1>8 DEF LastPage, EndsAtLastPage, TotalPages
  <2> QED  BY <1>1, <2>1, <2>2, <2>3
<1>9. CASE UNCHANGED vars
  <2>1. UNCHANGED <<log, at, page, total, listed, first, seen>>
    BY <1>9 DEF vars
  <2>2. NothingSkipped'
    BY <2>1, UnselectedKeepsBelow DEF Pages
  <2>3. CountedBefore' /\ EndsAtLastPage'
    BY <2>1 DEF CountedBefore, EndsAtLastPage, TotalPages
  <2> QED  BY <1>1, <2>2, <2>3
<1> QED
  BY <1>3, <1>4, <1>5, <1>6, <1>7, <1>8, <1>9 DEF Next

LEMMA AlwaysPagesInv == Spec => []PagesInv
BY PagesInvInit, NextKeepsPagesInv, PTL DEF Spec

(* Every variable keeps its type; the log only grows.                      *)
THEOREM PagesTyped == Spec => []TypeOK
BY AlwaysPagesInv, PTL DEF PagesInv

(* Paging through the log skips no entry, whatever is recorded meanwhile,  *)
(* for any page size.                                                      *)
THEOREM PagingSkipsNothing == Spec => []NothingSkipped
BY AlwaysPagesInv, PTL DEF PagesInv

(* A client that stops at the last page missed at most what was stored     *)
(* between a count and its select.                                         *)
THEOREM OnlyTheRaceMisses == Spec => []MissedOnlyByRace
<1>1. PagesInv => MissedOnlyByRace
  <2> SUFFICES ASSUME PagesInv, at = "done"
               PROVE  Cardinality(first \ seen) + total <= listed
    BY DEF MissedOnlyByRace
  <2>1. /\ total \in Nat /\ listed \in Nat /\ page \in Nat /\ total <= listed
    BY DEF PagesInv, TypeOK, CountedBefore
  <2>2. CASE first \subseteq seen
    <3>1. first \ seen = {}
      BY <2>2
    <3>2. Cardinality(first \ seen) = 0
      BY <3>1, FS_EmptySet
    <3> QED  BY <2>1, <3>2
  <2>3. CASE ~(first \subseteq seen)
    <3>1. Cardinality(first \ seen) + page * Limit <= listed
      BY <2>3 DEF PagesInv, CountedBefore
    <3>2. page * Limit >= total /\ page * Limit \in Nat
      BY <2>1, PagesHoldAll, PagesAssumption DEF PagesInv, EndsAtLastPage
    <3>3. Cardinality(first \ seen) \in Nat
      BY LogFinite DEF PagesInv, TypeOK
    <3> HIDE DEF PagesInv
    <3> QED  BY <2>1, <3>1, <3>2, <3>3
  <2> QED  BY <2>2, <2>3
<1> QED  BY <1>1, AlwaysPagesInv, PTL

-----------------------------------------------------------------------------
(* The writers whose entry is not stored yet, and the entries the listing  *)
(* may have stored.                                                        *)
InFlight == {w \in Writers : writing[w] # 0}
OwnReads == IF at \in {"answer", "done"} THEN page ELSE page - 1

(* The log grew by what others and the listing itself recorded. *)
GrowthKnown == Cardinality(log \ first) + Cardinality(InFlight) <= others + OwnReads

(* Once a page that is not the last was selected, what was sent and what   *)
(* was recorded since the start make up the pages so far.                  *)
PagesSent ==
    at \notin {"count", "select"} /\ total > page * Limit
      => page * Limit + 1 <= Cardinality(seen) + others + page

HeadwayInv == PagesInv /\ GrowthKnown /\ PagesSent /\ HeadwayPerPage

(* A set with parts F and S has no more elements than lie outside of F,    *)
(* in S, and in F but not in S.                                            *)
LEMMA SizeOfParts ==
    ASSUME NEW L, IsFiniteSet(L), NEW F \in SUBSET L, NEW S \in SUBSET L
    PROVE  /\ Cardinality(L) \in Nat /\ Cardinality(L \ F) \in Nat
           /\ Cardinality(S) \in Nat /\ Cardinality(F \ S) \in Nat
           /\ Cardinality(L)
                <= Cardinality(L \ F) + Cardinality(S) + Cardinality(F \ S)
<1> DEFINE outside == L \ F
           other == F \ S
           rest == outside \cup S
<1>1. /\ IsFiniteSet(outside) /\ IsFiniteSet(S) /\ IsFiniteSet(other)
      /\ IsFiniteSet(rest) /\ L = rest \cup other
  BY FS_Subset
<1> HIDE DEF outside, other, rest
<1>2. /\ IsFiniteSet(rest \cap other)
      /\ Cardinality(L)
           = Cardinality(rest) + Cardinality(other) - Cardinality(rest \cap other)
  BY <1>1, FS_Union, FS_Intersection
<1>3. /\ IsFiniteSet(outside \cap S)
      /\ Cardinality(rest)
           = Cardinality(outside) + Cardinality(S) - Cardinality(outside \cap S)
  BY <1>1, FS_Union, FS_Intersection DEF rest
<1>4. /\ Cardinality(L) \in Nat /\ Cardinality(rest) \in Nat
      /\ Cardinality(outside) \in Nat /\ Cardinality(S) \in Nat
      /\ Cardinality(other) \in Nat
      /\ Cardinality(rest \cap other) \in Nat /\ Cardinality(outside \cap S) \in Nat
  BY <1>1, <1>2, <1>3, FS_CardinalityType
<1>5. Cardinality(L) <= Cardinality(outside) + Cardinality(S) + Cardinality(other)
  BY <1>2, <1>3, <1>4
<1> QED  BY <1>4, <1>5 DEF outside, other

(* A client asks for a next page only if more was counted than the pages   *)
(* so far hold.                                                            *)
LEMMA MoreCounted ==
    ASSUME NEW items \in Nat, NEW p \in Nat, p < TotalPages(items)
    PROVE  items > p * Limit
<1> DEFINE q == (items + Limit - 1) \div Limit
           r == (items + Limit - 1) % Limit
<1>1. Limit \in Nat /\ Limit > 0
  BY PagesAssumption
<1>2. items + Limit - 1 \in Nat
  BY <1>1
<1>3. /\ q \in Int /\ r \in 0..Limit-1
      /\ items + Limit - 1 = Limit * q + r
  BY <1>1, <1>2, Z3
<1>4. p + 1 <= q
  BY <1>3 DEF TotalPages
<1> HIDE DEF q, r
<1>5. (p + 1) * Limit <= Limit * q
  BY <1>1, <1>3, <1>4, Z3
<1>6. (p + 1) * Limit = p * Limit + Limit
  BY <1>1, Z3
<1> QED  BY <1>1, <1>3, <1>5, <1>6

(* The writers in flight are finitely many, and the log grows by one entry *)
(* at a time.                                                              *)
LEMMA GrowthFacts ==
    ASSUME TypeOK
    PROVE  /\ IsFiniteSet(InFlight) /\ Cardinality(InFlight) \in Nat
           /\ Cardinality(log \ first) \in Nat
           /\ \A x : /\ Cardinality((log \cup {x}) \ first) \in Nat
                    /\ Cardinality((log \cup {x}) \ first)
                         <= Cardinality(log \ first) + 1
<1>1. IsFiniteSet(InFlight)
  BY PagesAssumption, FS_Subset DEF InFlight
<1>2. IsFiniteSet(log \ first) /\ Cardinality(log \ first) \in Nat
  BY LogFinite
<1>3. ASSUME NEW x
      PROVE  /\ Cardinality((log \cup {x}) \ first) \in Nat
             /\ Cardinality((log \cup {x}) \ first) <= Cardinality(log \ first) + 1
  <2> DEFINE before == log \ first
             after == (log \cup {x}) \ first
  <2>1. after \in SUBSET (before \cup {x})
    OBVIOUS
  <2>2. /\ IsFiniteSet(before \cup {x})
        /\ \/ Cardinality(before \cup {x}) = Cardinality(before)
           \/ Cardinality(before \cup {x}) = Cardinality(before) + 1
    BY <1>2, FS_AddElement
  <2> HIDE DEF before, after
  <2>3. /\ Cardinality(after) <= Cardinality(before \cup {x})
        /\ Cardinality(after) \in Nat /\ Cardinality(before \cup {x}) \in Nat
    BY <2>1, <2>2, FS_Subset, FS_CardinalityType
  <2>4. Cardinality(before) \in Nat
    BY <1>2 DEF before
  <2>5. Cardinality(after) \in Nat /\ Cardinality(after) <= Cardinality(before) + 1
    BY <2>2, <2>3, <2>4
  <2> QED  BY <2>5 DEF before, after
<1> QED  BY <1>1, <1>2, <1>3, FS_CardinalityType

LEMMA NextKeepsGrowth ==
    ASSUME PagesInv, PagesInv', GrowthKnown, [Next]_vars
    PROVE  GrowthKnown'
<1>1. /\ TypeOK /\ page \in Nat \ {0} /\ others \in Nat
      /\ writing \in [Writers -> 0..clock] /\ clock \in Nat
  BY DEF PagesInv, TypeOK
<1>2. OwnReads \in Nat
  BY <1>1 DEF OwnReads
<1>3. /\ IsFiniteSet(InFlight) /\ Cardinality(InFlight) \in Nat
      /\ Cardinality(log \ first) \in Nat
      /\ \A x : /\ Cardinality((log \cup {x}) \ first) \in Nat
               /\ Cardinality((log \cup {x}) \ first)
                    <= Cardinality(log \ first) + 1
  BY <1>1, GrowthFacts
<1>4. ASSUME NEW w \in Writers, Build(w)
      PROVE  GrowthKnown'
  <2>1. InFlight' = InFlight \cup {w} /\ w \notin InFlight
    BY <1>1, <1>4 DEF Build, InFlight
  <2>2. Cardinality(InFlight') = Cardinality(InFlight) + 1
    BY <1>3, <2>1, FS_AddElement
  <2>3. UNCHANGED <<log, first, at, page>> /\ others' = others + 1
    BY <1>4 DEF Build
  <2>4. OwnReads' = OwnReads
    BY <2>3 DEF OwnReads
  <2> QED  BY <1>1, <1>2, <1>3, <2>2, <2>3, <2>4 DEF GrowthKnown
<1>5. ASSUME NEW w \in Writers, Commit(w) \/ Lose(w)
      PROVE  GrowthKnown'
  <2>1. InFlight' = InFlight \ {w} /\ w \in InFlight
    BY <1>1, <1>5 DEF Commit, Lose, InFlight
  <2>2. Cardinality(InFlight') = Cardinality(InFlight) - 1
    BY <1>3, <2>1, FS_RemoveElement
  <2>3. UNCHANGED <<first, at, page, others>>
        /\ (log' = log \/ log' = log \cup {writing[w]})
    BY <1>5 DEF Commit, Lose
  <2>4. OwnReads' = OwnReads
    BY <2>3 DEF OwnReads
  <2>5. /\ Cardinality(log' \ first') \in Nat
        /\ Cardinality(log' \ first') <= Cardinality(log \ first) + 1
    <3>1. CASE log' = log
      <4>1. log' \ first' = log \ first
        BY <2>3, <3>1
      <4> QED  BY <1>3, <4>1
    <3>2. CASE log' = log \cup {writing[w]}
      <4>1. log' \ first' = (log \cup {writing[w]}) \ first
        BY <2>3, <3>2
      <4> QED  BY <1>3, <4>1
    <3> QED  BY <2>3, <3>1, <3>2
  <2>6. Cardinality(log' \ first') + Cardinality(InFlight') <= others + OwnReads
    BY <1>1, <1>2, <1>3, <2>2, <2>5 DEF GrowthKnown
  <2> QED  BY <2>3, <2>4, <2>6 DEF GrowthKnown
<1>6. CASE RecordStored
  <2>1. UNCHANGED <<first, page, others, writing>> /\ log' = log \cup {own}
        /\ at = "store" /\ at' = "answer"
    BY <1>6 DEF RecordStored
  <2>2. OwnReads' = OwnReads + 1 /\ InFlight' = InFlight
    BY <1>1, <2>1 DEF OwnReads, InFlight
  <2>3. /\ Cardinality(log' \ first') \in Nat
        /\ Cardinality(log' \ first') <= Cardinality(log \ first) + 1
    <3>1. log' \ first' = (log \cup {own}) \ first
      BY <2>1
    <3> QED  BY <1>3, <3>1
  <2> QED  BY <1>1, <1>2, <1>3, <2>1, <2>2, <2>3 DEF GrowthKnown
<1>7. CASE RecordLost
  <2>1. UNCHANGED <<log, first, page, others, writing>> /\ at = "store" /\ at' = "answer"
    BY <1>7 DEF RecordLost
  <2>2. OwnReads' = OwnReads + 1 /\ InFlight' = InFlight
    BY <1>1, <2>1 DEF OwnReads, InFlight
  <2> QED  BY <1>1, <1>2, <1>3, <2>1, <2>2 DEF GrowthKnown
<1>8. CASE Count \/ Select \/ Record \/ NextPage \/ LastPage \/ UNCHANGED vars
  <2>1. UNCHANGED <<log, first, others, writing>>
    BY <1>8 DEF Count, Select, Record, NextPage, LastPage, vars
  <2>2. InFlight' = InFlight
    BY <2>1 DEF InFlight
  <2>3. OwnReads' = OwnReads
    BY <1>1, <1>8 DEF Count, Select, Record, NextPage, LastPage, vars, OwnReads
  <2> QED  BY <2>1, <2>2, <2>3 DEF GrowthKnown
<1> QED  BY <1>4, <1>5, <1>6, <1>7, <1>8 DEF Next

(* The page selected, short of the last one, fills the pages so far. *)
LEMMA SelectFillsPages ==
    ASSUME PagesInv, PagesInv', GrowthKnown, Select
    PROVE  PagesSent'
<1> DEFINE unseen == first \ seen'
           k == page * Limit
<1>1. /\ TypeOK' /\ UNCHANGED <<log, first, page, total, others>>
      /\ at = "select" /\ at' = "record" /\ listed' = Cardinality(log)
  BY DEF PagesInv, Select
<1>2. /\ page \in Nat \ {0} /\ others \in Nat /\ total \in Nat
      /\ k \in Nat /\ total <= Cardinality(log)
  BY <1>1, PagesAssumption DEF PagesInv, TypeOK, CountedBefore
<1>3. first \subseteq log /\ seen' \subseteq log
  BY DEF PagesInv, TypeOK, Select, Page
<1>4. /\ Cardinality(log) \in Nat /\ Cardinality(log \ first) \in Nat
      /\ Cardinality(seen') \in Nat /\ Cardinality(unseen) \in Nat
      /\ Cardinality(log) <= Cardinality(log \ first) + Cardinality(seen')
                             + Cardinality(unseen)
  BY <1>3, LogFinite, SizeOfParts DEF PagesInv
<1>5. Cardinality(log \ first) <= others + page - 1
  <2>1. Cardinality(InFlight) \in Nat
    BY GrowthFacts DEF PagesInv
  <2>2. OwnReads = page - 1
    BY <1>1 DEF OwnReads
  <2> QED  BY <1>2, <1>4, <2>1, <2>2 DEF GrowthKnown
<1>6. unseen = {} \/ Cardinality(unseen) + k <= Cardinality(log)
  <2>1. unseen \subseteq log /\ \A x \in unseen : Rank(x) >= k
    BY <1>1, SelectKeepsBelow
  <2> QED  BY <1>2, <2>1, FewBelow DEF PagesInv
<1>7. Cardinality({}) = 0
  BY FS_EmptySet
<1>8. total > k => k + 1 <= Cardinality(seen') + others + page
  <2>1. CASE unseen = {}
    <3>1. Cardinality(unseen) = 0
      BY <1>7, <2>1
    <3> HIDE DEF unseen, k
    <3> QED  BY <1>2, <1>4, <1>5, <3>1
  <2>2. CASE unseen # {}
    <3> HIDE DEF k
    <3> QED  BY <1>2, <1>4, <1>5, <1>6, <2>2
  <2> QED  BY <2>1, <2>2
<1> QED  BY <1>1, <1>8 DEF PagesSent

LEMMA NextKeepsHeadway == HeadwayInv /\ [Next]_vars => HeadwayInv'
<1> SUFFICES ASSUME HeadwayInv, [Next]_vars PROVE HeadwayInv'
  OBVIOUS
<1>1. PagesInv' /\ PagesInv /\ GrowthKnown'
  BY NextKeepsPagesInv, NextKeepsGrowth DEF HeadwayInv
<1>2. /\ page \in Nat \ {0} /\ others \in Nat /\ total \in Nat /\ Limit \in Nat \ {0}
      /\ page * Limit \in Nat /\ Cardinality(seen) \in Nat
  BY <1>1, PagesAssumption, LogFinite DEF PagesInv, TypeOK
<1>3. ASSUME UNCHANGED <<page, total, seen>>, others' \in Nat, others' >= others,
             at' \notin {"count", "select"} => at \notin {"count", "select"}
      PROVE  HeadwayInv'
  <2>1. PagesSent'
    BY <1>2, <1>3 DEF HeadwayInv, PagesSent
  <2>2. HeadwayPerPage'
    <3>1. (page - 1) * (Limit - 1) + 1 \in Nat
      BY <1>2
    <3> QED  BY <1>2, <1>3, <3>1 DEF HeadwayInv, HeadwayPerPage
  <2> QED  BY <1>1, <2>1, <2>2 DEF HeadwayInv
<1>4. ASSUME NEW w \in Writers, Build(w) \/ Commit(w) \/ Lose(w)
      PROVE  HeadwayInv'
  BY <1>2, <1>3, <1>4 DEF Build, Commit, Lose
<1>5. CASE Count
  <2>1. PagesSent'
    BY <1>5 DEF Count, PagesSent
  <2>2. HeadwayPerPage'
    BY <1>5 DEF Count, HeadwayInv, HeadwayPerPage
  <2> QED  BY <1>1, <2>1, <2>2 DEF HeadwayInv
<1>6. CASE Select
  <2>1. PagesSent'
    BY <1>1, <1>6, SelectFillsPages DEF HeadwayInv
  <2>2. UNCHANGED <<page, others>> /\ Cardinality(seen) <= Cardinality(seen')
        /\ Cardinality(seen') \in Nat
    <3>1. seen' \subseteq log /\ seen \subseteq seen'
      BY <1>1, <1>6 DEF PagesInv, TypeOK, Select, Page
    <3>2. IsFiniteSet(seen')
      BY <1>1, <3>1, LogFinite DEF PagesInv
    <3> QED  BY <1>6, <3>1, <3>2, FS_Subset, FS_CardinalityType DEF Select
  <2>3. HeadwayPerPage'
    <3>1. (page - 1) * (Limit - 1) + 1 \in Nat
      BY <1>2
    <3> QED  BY <1>2, <2>2, <3>1 DEF HeadwayInv, HeadwayPerPage
  <2> QED  BY <1>1, <2>1, <2>3 DEF HeadwayInv
<1>7. CASE Record \/ RecordStored \/ RecordLost \/ LastPage
  BY <1>2, <1>3, <1>7 DEF Record, RecordStored, RecordLost, LastPage
<1>8. CASE NextPage
  <2>1. /\ page' = page + 1 /\ at' = "count" /\ at = "answer"
        /\ page < TotalPages(total) /\ UNCHANGED <<seen, others>>
    BY <1>8 DEF NextPage
  <2>2. total > page * Limit
    BY <1>2, <2>1, MoreCounted
  <2>3. page * Limit + 1 <= Cardinality(seen) + others + page
    BY <2>1, <2>2 DEF HeadwayInv, PagesSent
  <2>4. page * (Limit - 1) = page * Limit - page
    BY <1>2, Z3
  <2>5. (page' - 1) * (Limit - 1) + 1 <= Cardinality(seen) + others
    <3>1. page' - 1 = page
      BY <1>2, <2>1
    <3>2. page * (Limit - 1) + 1 <= Cardinality(seen) + others
      BY <1>2, <2>3, <2>4
    <3> QED  BY <3>1, <3>2
  <2>6. PagesSent' /\ HeadwayPerPage'
    BY <2>1, <2>5 DEF PagesSent, HeadwayPerPage
  <2> QED  BY <1>1, <2>6 DEF HeadwayInv
<1>9. CASE UNCHANGED vars
  BY <1>2, <1>3, <1>9 DEF vars
<1> QED  BY <1>4, <1>5, <1>6, <1>7, <1>8, <1>9 DEF Next

(* Reading makes headway although each page read adds an entry to the log: *)
(* after every page but the last the client has at least one entry for     *)
(* each place a page has beyond the first, less what others recorded.      *)
THEOREM ReadingMakesHeadway == Spec => []HeadwayPerPage
<1>1. Init => HeadwayInv
  <2> SUFFICES ASSUME Init PROVE HeadwayInv
    OBVIOUS
  <2>1. PagesInv
    BY PagesInvInit
  <2>2. PagesSent /\ HeadwayPerPage
    BY DEF Init, PagesSent, HeadwayPerPage
  <2>3. GrowthKnown
    <3>1. log \ first = {} /\ others = Cardinality(InFlight) /\ OwnReads = 0
      BY DEF Init, InFlight, OwnReads
    <3>2. Cardinality(InFlight) \in Nat
      BY <2>1, GrowthFacts DEF PagesInv
    <3> QED  BY <3>1, <3>2, FS_EmptySet DEF GrowthKnown
  <2> QED  BY <2>1, <2>2, <2>3 DEF HeadwayInv
<1>2. HeadwayInv => HeadwayPerPage
  BY DEF HeadwayInv
<1> QED  BY <1>1, <1>2, NextKeepsHeadway, PTL DEF Spec
=============================================================================
