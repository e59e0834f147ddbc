--------------------------- MODULE CatalogueProofs ---------------------------
(***************************************************************************)
(* Proofs about Catalogue, and about the paginator and the listing it is    *)
(* composed of, for any finite set of events, any times, any cursors the    *)
(* Provider may make up, and any page size.                                *)
(***************************************************************************)
EXTENDS Catalogue, FiniteSetTheorems, TLAPS

-----------------------------------------------------------------------------
(* The walk over the pages *)

(* No cursor of an answer is missed, unless an empty field shadows it: the  *)
(* four places are looked at in an order that leaves none out.               *)
LEMMA NothingMissed ==
  ASSUME NEW p \in Payload, NextCursor(p) = Null, Offered(p) # {}
  PROVE  Shadowed(p)
<1>1. /\ p.top.next_cursor \in Field /\ p.top.next \in Field
      /\ p.pagination.next_cursor \in Field /\ p.pagination.next \in Field
  BY DEF Payload, Level
<1>2. Missing \notin Cursors /\ Null \notin Cursors /\ Empty \notin Cursors
  BY CursorAssumption
<1>3. Missing # Null /\ Empty # Null /\ Missing # Empty
  BY DEF Missing, Null, Empty
<1>4. Given(p.top) \in {Null, Empty}
  BY <1>3 DEF NextCursor
<1>5. Given(p.top) = Null => Given(p.pagination) \in {Null, Empty}
  BY <1>3 DEF NextCursor
<1>6. \/ p.top.next_cursor \in Cursors \/ p.top.next \in Cursors
      \/ p.pagination.next_cursor \in Cursors \/ p.pagination.next \in Cursors
  BY DEF Offered
<1>7. \A level \in {p.top, p.pagination} :
        Given(level) \in {Null, Empty} =>
          /\ level.next_cursor \notin Cursors
          /\ level.next \in Cursors => level.next_cursor \in {Null, Empty}
  BY <1>1, <1>2, <1>3 DEF Given, Field
<1> QED BY <1>4, <1>5, <1>6, <1>7 DEF Shadowed

LEMMA AnswerType ==
  ASSUME NEW answer \in Answers
  PROVE  answer.next \in Cursors \cup {Null} /\ answer.missed = FALSE
<1>1. PICK p \in Payload :
        answer = [next |-> NextCursor(p),
                  missed |-> NextCursor(p) = Null /\ Offered(p) # {} /\ ~Shadowed(p)]
  BY DEF Answers
<1>2. /\ p.top.next_cursor \in Field /\ p.top.next \in Field
      /\ p.pagination.next_cursor \in Field /\ p.pagination.next \in Field
  BY DEF Payload, Level
<1>3. \A level \in {p.top, p.pagination} : Given(level) \in Cursors \cup {Null, Empty}
  BY <1>2 DEF Given, Field, Missing, Null, Empty
<1>4. NextCursor(p) \in Cursors \cup {Null}
  BY <1>3 DEF NextCursor
<1>5. answer.missed = (NextCursor(p) = Null /\ Offered(p) # {} /\ ~Shadowed(p))
  BY <1>1
<1>6. ~(NextCursor(p) = Null /\ Offered(p) # {} /\ ~Shadowed(p))
  BY NothingMissed
<1> QED BY <1>1, <1>4, <1>5, <1>6

(* What is proved of the paginator and of the events a run has read. *)
WalkInv == PaginatorTypeOK /\ unsaved \subseteq Events /\ QueuedUntilSaved /\ ~unread

LEMMA FreshWalk ==
  ASSUME Fresh, unsaved' = {}, walk' \in {"walking", "raised"}
  PROVE  WalkInv'
BY DEF Fresh, WalkInv, PaginatorTypeOK, QueuedUntilSaved, On, Absent, Contents, Null

LEMMA FetchWalk ==
  ASSUME WalkInv, NEW p \in Contents, NEW answer \in Answers, Fetch(p, answer)
  PROVE  WalkInv'
<1>1. /\ walk = "walking" /\ items = Absent
      /\ requested' = requested \cup {cursor} /\ items' = p /\ cursor' = answer.next
      /\ finished' = (answer.next = Null) /\ unread' = answer.missed
      /\ UNCHANGED walk /\ unsaved' = unsaved \cup On(p)
  BY DEF Fetch, FetchItems
<1>2. answer.next \in Cursors \cup {Null} /\ answer.missed = FALSE
  BY AnswerType
<1>3. unsaved = {} /\ On(p) \subseteq Events
  BY <1>1 DEF WalkInv, QueuedUntilSaved, On, Absent
<1>4. PaginatorTypeOK'
  BY <1>1, <1>2 DEF WalkInv, PaginatorTypeOK
<1>5. QueuedUntilSaved' /\ unsaved' \subseteq Events
  BY <1>1, <1>3 DEF QueuedUntilSaved
<1> QED BY <1>1, <1>2, <1>4, <1>5 DEF WalkInv

LEMMA SaveWalk ==
  ASSUME WalkInv, NEW e \in Events, Save(e)
  PROVE  WalkInv'
<1>1. /\ walk = "walking" /\ items' = [items EXCEPT ![e] = NoTime]
      /\ UNCHANGED <<walk, cursor, requested, finished, unread>> /\ unsaved' = unsaved \ {e}
  BY DEF Save, Yield
<1>2. items' \in Contents /\ On(items') = On(items) \ {e}
  BY <1>1 DEF WalkInv, PaginatorTypeOK, Contents, On
<1>3. PaginatorTypeOK'
  BY <1>1, <1>2 DEF WalkInv, PaginatorTypeOK
<1>4. QueuedUntilSaved'
  BY <1>1, <1>2 DEF WalkInv, QueuedUntilSaved
<1> QED BY <1>1, <1>3, <1>4 DEF WalkInv

LEMMA FinishWalk == ASSUME WalkInv, Finish PROVE WalkInv'
BY DEF WalkInv, Finish, StopIteration, Ended, PaginatorTypeOK, QueuedUntilSaved

LEMMA WalkUnchanged == ASSUME WalkInv, UNCHANGED <<paginatorVars, unsaved>> PROVE WalkInv'
BY DEF WalkInv, paginatorVars, PaginatorTypeOK, QueuedUntilSaved

LEMMA WalkNext == ASSUME WalkInv, [Next]_vars PROVE WalkInv'
<1>1. CASE Start \/ Raise
  BY <1>1, FreshWalk DEF Start, StartWalk, Raise, WalkRaises, Leave
<1>2. CASE RunStep
  BY <1>1, <1>2, FetchWalk, SaveWalk, FinishWalk DEF RunStep
<1>3. CASE Open \/ ClientStep \/ Close \/ UNCHANGED vars
  BY <1>3, WalkUnchanged DEF Open, ClientStep, Close, vars
<1> QED BY <1>1, <1>2, <1>3 DEF Next

-----------------------------------------------------------------------------
(* The listing *)

LEMMA ListedFinite ==
  /\ Selected(rows) \subseteq Events
  /\ IsFiniteSet(Selected(rows))
  /\ Cardinality(Selected(rows)) \in Nat /\ Cardinality(Events) \in Nat \ {0}
  /\ Cardinality(Selected(rows)) <= Cardinality(Events)
<1>1. Selected(rows) \subseteq Events
  BY DEF Selected, On
<1>2. IsFiniteSet(Selected(rows)) /\ Cardinality(Selected(rows)) <= Cardinality(Events)
  BY <1>1, FiniteAssumption, FS_Subset
<1>3. Cardinality(Events) \in Nat /\ Cardinality(Events) # 0
  BY FiniteAssumption, FS_CardinalityType, FS_EmptySet
<1> QED BY <1>1, <1>2, <1>3, FS_CardinalityType

LEMMA RowTypes ==
  ASSUME EventListTypeOK, NEW e \in Events
  PROVE  e \in Int /\ rows[e] \in Int
<1>1. e \in Nat /\ \A time \in Times : time \in Nat
  BY EventAssumption
<1>2. rows[e] \in Times \/ rows[e] = 0
  BY DEF EventListTypeOK, Contents, NoTime
<1>3. rows[e] \in Nat
  BY <1>1, <1>2
<1> QED BY <1>1, <1>3

LEMMA AheadCount == ASSUME NEW e PROVE Ahead(e) \in Nat /\ Ahead(e)' \in Nat
<1>1. Cardinality({d \in Selected(rows) : Before(d, e)}) \in Nat
  <2>1. {d \in Selected(rows) : Before(d, e)} \subseteq Events
    BY ListedFinite
  <2> QED BY <2>1, FiniteAssumption, FS_Subset, FS_CardinalityType
<1>2. Cardinality({d \in Selected(rows)' : Before(d, e)'}) \in Nat
  <2>1. {d \in Selected(rows)' : Before(d, e)'} \subseteq Events
    BY DEF Selected, On
  <2> QED BY <2>1, FiniteAssumption, FS_Subset, FS_CardinalityType
<1> QED BY <1>1, <1>2 DEF Ahead

(* Fewer events are before one of the listing than there are in it. *)
LEMMA AheadType ==
  ASSUME EventListTypeOK, NEW e \in Selected(rows)
  PROVE  /\ IsFiniteSet({d \in Selected(rows) : Before(d, e)})
         /\ Ahead(e) \in Nat /\ Ahead(e) < Cardinality(Selected(rows))
<1> DEFINE before == {d \in Selected(rows) : Before(d, e)}
<1>1. rows[e] \in Int /\ e \in Int
  BY ListedFinite, RowTypes
<1>2. e \notin before
  BY <1>1 DEF Before
<1> HIDE DEF before
<1>3. before \in SUBSET Selected(rows)
  BY DEF before
<1>4. /\ IsFiniteSet(before) /\ Cardinality(before) <= Cardinality(Selected(rows))
      /\ (Cardinality(Selected(rows)) = Cardinality(before) => Selected(rows) = before)
  BY <1>3, ListedFinite, FS_Subset
<1>5. Cardinality(before) \in Nat /\ Cardinality(before) # Cardinality(Selected(rows))
  BY <1>2, <1>4, FS_CardinalityType
<1>6. Cardinality(before) < Cardinality(Selected(rows))
  BY <1>4, <1>5, ListedFinite
<1> QED BY <1>4, <1>5, <1>6 DEF before, Ahead

(* A listing is in order, and has every event of the table that passes. *)
LEMMA ListingOrder ==
  ASSUME EventListTypeOK, NEW list \in Listings
  PROVE  /\ list \in Bijection(1 .. Cardinality(Selected(rows)), Selected(rows))
         /\ \A i, j \in 1 .. Cardinality(Selected(rows)) : i < j <=> Before(list[i], list[j])
<1> DEFINE n == Cardinality(Selected(rows))
<1>0. n \in Nat
  BY ListedFinite
<1>1. /\ list \in [1 .. n -> Selected(rows)] /\ DOMAIN list = 1 .. n
      /\ \A i, j \in 1 .. n : i # j => list[i] # list[j]
  BY DEF Listings, SetToSeqs
<1>2. \A i, j \in 1 .. n : i < j => ~Before(list[j], list[i])
  BY <1>1 DEF Listings, Sorted
<1> HIDE DEF n
<1>3. list \in Injection(1 .. n, Selected(rows))
  BY <1>1 DEF Injection, IsInjective
<1>4. IsFiniteSet(1 .. n) /\ Cardinality(1 .. n) = n
  BY <1>0, FS_Interval
<1>5. list \in Surjection(1 .. n, Selected(rows))
  BY <1>3, <1>4, ListedFinite, FS_Injection DEF n
<1>6. ASSUME NEW i \in 1 .. n, NEW j \in 1 .. n
      PROVE  i < j <=> Before(list[i], list[j])
  <2> DEFINE d == list[i]
             e == list[j]
  <2>1. d \in Selected(rows) /\ e \in Selected(rows)
    BY <1>1
  <2> HIDE DEF d, e
  <2>2. d \in Int /\ e \in Int /\ rows[d] \in Int /\ rows[e] \in Int
    BY <2>1, ListedFinite, RowTypes
  <2>3. i \in Int /\ j \in Int
    BY <1>0
  <2>4. CASE i < j
    <3>1. d # e /\ ~Before(e, d)
      BY <1>1, <1>2, <2>3, <2>4 DEF d, e
    <3>2. Before(d, e)
      BY <3>1, <2>2 DEF Before
    <3> QED BY <2>4, <3>2 DEF d, e
  <2>5. CASE i = j
    <3>1. d = e /\ ~Before(d, e)
      BY <2>2, <2>5 DEF d, e, Before
    <3> QED BY <2>3, <2>5, <3>1 DEF d, e
  <2>6. CASE j < i
    <3>1. ~Before(d, e)
      BY <1>2, <2>6 DEF d, e
    <3> QED BY <2>3, <2>6, <3>1 DEF d, e
  <2> QED BY <2>3, <2>4, <2>5, <2>6
<1> QED BY <1>3, <1>5, <1>6 DEF Bijection, n

(* The place of an event in a listing is one after those that are ahead. *)
LEMMA PlaceInListing ==
  ASSUME EventListTypeOK, NEW list \in Listings,
         NEW i \in 1 .. Cardinality(Selected(rows))
  PROVE  Ahead(list[i]) = i - 1
<1> DEFINE n == Cardinality(Selected(rows))
           e == list[i]
           before == {d \in Selected(rows) : Before(d, e)}
           prefix == [j \in 1 .. i - 1 |-> list[j]]
<1>0. n \in Nat
  BY ListedFinite
<1>1. /\ list \in [1 .. n -> Selected(rows)]
      /\ \A j, k \in 1 .. n : list[j] = list[k] => j = k
      /\ \A d \in Selected(rows) : \E j \in 1 .. n : list[j] = d
      /\ \A j, k \in 1 .. n : j < k <=> Before(list[j], list[k])
  BY ListingOrder DEF Bijection, Injection, Surjection, IsInjective
<1> HIDE DEF n
<1>2. i \in Nat \ {0} /\ i <= n /\ 1 .. i - 1 \subseteq 1 .. n /\ i \in 1 .. n
  BY <1>0 DEF n
<1>3. \A j \in 1 .. n : j < i <=> j \in 1 .. i - 1
  BY <1>0, <1>2
<1>4. \A j \in 1 .. i - 1 : prefix[j] \in before
  BY <1>1, <1>2, <1>3
<1>5. prefix \in Injection(1 .. i - 1, before)
  <2>1. prefix \in [1 .. i - 1 -> before]
    BY <1>4
  <2>2. \A j, k \in 1 .. i - 1 : prefix[j] = prefix[k] => j = k
    BY <1>1, <1>2
  <2> QED BY <2>1, <2>2 DEF Injection, IsInjective
<1>6. ASSUME NEW d \in before
      PROVE  \E j \in 1 .. i - 1 : prefix[j] = d
  <2>1. PICK j \in 1 .. n : list[j] = d
    BY <1>1
  <2>2. j \in 1 .. i - 1
    BY <1>1, <1>2, <1>3, <2>1
  <2> QED BY <2>1, <2>2
<1>7. prefix \in Bijection(1 .. i - 1, before)
  BY <1>5, <1>6 DEF Bijection, Surjection, Injection
<1> HIDE DEF prefix, before
<1>8. IsFiniteSet(1 .. i - 1) /\ Cardinality(1 .. i - 1) = i - 1
  BY <1>2, FS_Interval
<1>9. Cardinality(before) = i - 1
  BY <1>7, <1>8, FS_Bijection DEF ExistsBijection
<1> QED BY <1>9 DEF before, Ahead

(* What the page shows: the events that as many are ahead of as the pages   *)
(* before it have shown, up to a page of them.                              *)
LEMMA OnPage ==
  ASSUME EventListTypeOK, page > 0, NEW list \in Listings, NEW e \in Selected(rows)
  PROVE  e \in Cut(list) <=> Shown <= Ahead(e) /\ Ahead(e) < page * PageSize
<1> DEFINE n == Cardinality(Selected(rows))
           upper == page * PageSize
<1>0. n \in Nat /\ page \in Int /\ Shown \in Int /\ upper \in Int
  BY ListedFinite, PageAssumption DEF EventListTypeOK, Shown
<1>1. /\ list \in [1 .. n -> Selected(rows)] /\ DOMAIN list = 1 .. n
      /\ \A j, k \in 1 .. n : list[j] = list[k] => j = k
      /\ \E j \in 1 .. n : list[j] = e
  BY ListingOrder DEF Bijection, Injection, Surjection, IsInjective
<1>2. PICK i \in 1 .. n : list[i] = e
  BY <1>1
<1>3. Ahead(e) = i - 1 /\ i \in Int
  BY <1>0, <1>2, PlaceInListing
<1>4. Cut(list) = {list[j] : j \in {k \in DOMAIN list : Shown < k /\ k <= upper}}
  BY DEF Cut, Shown
<1> HIDE DEF n, upper
<1>5. e \in Cut(list) <=> Shown < i /\ i <= upper
  BY <1>1, <1>2, <1>4
<1>6. Shown < i /\ i <= upper <=> Shown <= i - 1 /\ i - 1 < upper
  BY <1>0, <1>3
<1> QED BY <1>3, <1>5, <1>6 DEF upper

-----------------------------------------------------------------------------
(* The client *)

LEMMA OpenListInv ==
  ASSUME ListInv, NEW lower \in Times \cup {0}, OpenList(lower)
  PROVE  ListInv'
<1> USE DEF ListInv
<1>1. /\ client = "idle" /\ client' = "counting" /\ from' = lower /\ page' = 1
      /\ steady' = {e \in On(rows) : rows[e] >= lower}
      /\ lowered' = {} /\ raised' = {} /\ pushed' = {}
      /\ UNCHANGED <<rows, count, seen>>
  BY DEF OpenList, Watch
<1>2. steady' = Selected(rows)'
  BY <1>1 DEF Selected
<1>3. \A e \in Events : seen'[e] = 0
  BY <1>1 DEF IdleIsFresh
<1>4. EventListTypeOK'
  <2>1. 1 \in 0 .. Cardinality(Events)
    BY ListedFinite
  <2>2. steady' \subseteq Events
    BY <1>1 DEF On
  <2> QED BY <1>1, <2>1, <2>2 DEF EventListTypeOK
<1>5. steady' \subseteq Events
  BY <1>1 DEF On
<1>6. Shown' = 0
  BY <1>1, PageAssumption DEF Shown
<1>7. \A e \in steady' : Ahead(e)' >= Shown'
  <2>1. \A e \in Selected(rows)' : Ahead(e)' \in Nat
    BY AheadCount
  <2> QED BY <1>2, <1>6, <2>1
<1>8. GivenSoFar'
  BY <1>1, <1>3, <1>5, <1>7 DEF GivenSoFar, Following
<1>9. NoSkip' /\ NoRepeat' /\ SteadyIsListed' /\ CountHolds' /\ IdleIsFresh'
  BY <1>1, <1>2, <1>3, <1>5 DEF NoSkip, NoRepeat, SteadyIsListed, CountHolds, IdleIsFresh
<1> QED BY <1>4, <1>8, <1>9

(* What a step leaves alone of the listing, it leaves as it is. *)
LEMMA SameListing ==
  ASSUME UNCHANGED <<rows, from>>
  PROVE  Selected(rows)' = Selected(rows) /\ \A e : Ahead(e)' = Ahead(e)
BY DEF Selected, Ahead, Before

LEMMA CountRowsInv == ASSUME ListInv, CountRows PROVE ListInv'
<1> USE DEF ListInv
<1>1. /\ client = "counting" /\ client' = "selecting" /\ pushed' = {}
      /\ count' = Cardinality(Selected(rows))
      /\ UNCHANGED <<rows, from, page, seen, steady, lowered, raised>>
  BY DEF CountRows
<1>2. Selected(rows)' = Selected(rows) /\ \A e : Ahead(e)' = Ahead(e)
  BY <1>1, SameListing
<1>3. EventListTypeOK'
  <2>1. count' \in 0 .. Cardinality(Events)
    BY <1>1, ListedFinite
  <2> QED BY <1>1, <2>1 DEF EventListTypeOK
<1>4. CountHolds'
  <2>1. \A e \in steady : Ahead(e) < Cardinality(Selected(rows))
    BY AheadType DEF SteadyIsListed
  <2> QED BY <1>1, <1>2, <2>1 DEF CountHolds
<1>5. GivenSoFar'
  BY <1>1, <1>2 DEF GivenSoFar, Following, Shown
<1>6. NoSkip' /\ NoRepeat' /\ SteadyIsListed' /\ IdleIsFresh'
  BY <1>1, <1>2 DEF NoSkip, NoRepeat, SteadyIsListed, IdleIsFresh
<1> QED BY <1>3, <1>4, <1>5, <1>6

(* A page gives the client what is on it, and nothing it has been given     *)
(* before unless that has moved.                                            *)
LEMMA PageGives ==
  ASSUME ListInv, SelectPage, NEW e \in steady
  PROVE  /\ e \in lowered \/ seen'[e] = 0 \/ (seen'[e] = 1 /\ Ahead(e) < page * PageSize)
         /\ e \in raised \/ Ahead(e) >= page * PageSize \/ seen'[e] > 0
<1> USE DEF ListInv
<1>1. page > 0 /\ client = "selecting"
  BY DEF SelectPage, GivenSoFar, Following
<1>2. e \in Selected(rows) /\ e \in Events
  BY ListedFinite DEF SteadyIsListed
<1>3. PICK list \in Listings :
        seen' = [d \in Events |-> IF d \in Cut(list) THEN MinOf(seen[d] + 1, 2) ELSE seen[d]]
  BY DEF SelectPage
<1>4. seen'[e] = IF e \in Cut(list) THEN MinOf(seen[e] + 1, 2) ELSE seen[e]
  BY <1>2, <1>3
<1>5. e \in Cut(list) <=> Shown <= Ahead(e) /\ Ahead(e) < page * PageSize
  BY <1>1, <1>2, OnPage
<1>6. /\ e \in lowered \/ seen[e] = 0 \/ (seen[e] = 1 /\ Ahead(e) < Shown)
      /\ e \in raised \/ Ahead(e) >= Shown \/ seen[e] > 0
  BY <1>1 DEF GivenSoFar, Following
<1>7. seen[e] \in {0, 1, 2} /\ Ahead(e) \in Nat
  <2>1. seen[e] \in 0 .. 2
    BY <1>2 DEF EventListTypeOK
  <2>2. seen[e] \in {0, 1, 2}
    BY <2>1
  <2>3. Ahead(e) \in Nat
    BY <1>2, AheadType
  <2> QED BY <2>2, <2>3
<1> DEFINE upper == page * PageSize
<1>8. Shown \in Int /\ upper \in Int /\ Shown <= upper
  <2>1. page \in Int /\ PageSize \in Nat
    BY PageAssumption DEF EventListTypeOK
  <2>2. (page - 1) * PageSize = page * PageSize - PageSize
    BY <2>1
  <2>3. page * PageSize \in Int
    BY <2>1
  <2> QED BY <2>1, <2>2, <2>3 DEF Shown
<1> HIDE DEF upper
<1>9. e \in Cut(list) <=> Shown <= Ahead(e) /\ Ahead(e) < upper
  BY <1>5 DEF upper
<1>10. CASE e \in Cut(list)
  <2>1. e \in lowered \/ seen[e] = 0
    BY <1>6, <1>7, <1>8, <1>9, <1>10
  <2>2. seen'[e] > 0 /\ (seen[e] = 0 => seen'[e] = 1)
    BY <1>4, <1>7, <1>10 DEF MinOf
  <2> QED BY <1>5, <1>10, <2>1, <2>2
<1>11. CASE e \notin Cut(list)
  <2>1. seen'[e] = seen[e]
    BY <1>4, <1>11
  <2>2. e \in lowered \/ seen[e] = 0 \/ (seen[e] = 1 /\ Ahead(e) < upper)
    BY <1>6, <1>7, <1>8
  <2>3. e \in raised \/ Ahead(e) >= upper \/ seen[e] > 0
    BY <1>6, <1>7, <1>8, <1>9, <1>11
  <2> QED BY <2>1, <2>2, <2>3 DEF upper
<1> QED BY <1>10, <1>11

LEMMA SelectPageInv == ASSUME ListInv, SelectPage PROVE ListInv'
<1> USE DEF ListInv
<1>1. /\ client = "selecting" /\ page > 0 /\ count' = 0
      /\ UNCHANGED <<rows, from, steady, lowered, raised, pushed>>
  BY DEF SelectPage, GivenSoFar, Following
<1>2. Selected(rows)' = Selected(rows) /\ \A e : Ahead(e)' = Ahead(e)
  BY <1>1, SameListing
<1>3. \A e \in steady :
        /\ e \in lowered \/ seen'[e] = 0 \/ (seen'[e] = 1 /\ Ahead(e) < page * PageSize)
        /\ e \in raised \/ Ahead(e) >= page * PageSize \/ seen'[e] > 0
  BY PageGives
<1>4. seen' \in [Events -> 0 .. 2]
  <2>1. PICK list \in Listings :
          seen' = [d \in Events |-> IF d \in Cut(list) THEN MinOf(seen[d] + 1, 2) ELSE seen[d]]
    BY DEF SelectPage
  <2>2. \A d \in Events : MinOf(seen[d] + 1, 2) \in 0 .. 2 /\ seen[d] \in 0 .. 2
    BY DEF EventListTypeOK, MinOf
  <2> QED BY <2>1, <2>2
<1>5. /\ page \in Nat /\ PageSize \in Nat \ {0} /\ page * PageSize \in Nat
      /\ count \in Nat /\ count <= Cardinality(Events) /\ Cardinality(Events) \in Nat
  BY PageAssumption, ListedFinite DEF EventListTypeOK
<1>6. NoRepeat'
  BY <1>1, <1>3 DEF NoRepeat
<1>7. SteadyIsListed'
  BY <1>1, <1>2 DEF SteadyIsListed
<1>8. CASE HasNext
  <2>1. client' = "counting" /\ page' = page + 1
    BY <1>8 DEF SelectPage
  <2>2. page' \in 0 .. Cardinality(Events)
    <3>1. page * PageSize < count
      BY <1>8 DEF HasNext
    <3>2. page <= page * PageSize
      BY <1>5
    <3>3. page < count
      BY <1>5, <3>1, <3>2
    <3> QED BY <1>5, <2>1, <3>3
  <2>3. EventListTypeOK'
    <3>1. 0 \in 0 .. Cardinality(Events)
      BY <1>5
    <3> QED BY <1>1, <1>4, <2>1, <2>2, <3>1 DEF EventListTypeOK
  <2>4. Shown' = page * PageSize /\ page' > 0
    BY <1>1, <1>5, <2>1 DEF Shown
  <2>5. GivenSoFar'
    BY <1>1, <1>2, <1>3, <2>1, <2>4 DEF GivenSoFar
  <2> QED BY <1>6, <1>7, <2>1, <2>3, <2>5 DEF NoSkip, CountHolds, IdleIsFresh
<1>9. CASE ~HasNext
  <2>1. client' = "finished" /\ page' = page
    BY <1>9 DEF SelectPage
  <2>2. EventListTypeOK'
    <3>1. 0 \in 0 .. Cardinality(Events)
      BY <1>5
    <3> QED BY <1>1, <1>4, <2>1, <3>1 DEF EventListTypeOK
  <2>3. ASSUME NEW e \in steady, e \notin raised, e \notin pushed
        PROVE  seen'[e] > 0
    <3>1. count <= page * PageSize
      BY <1>5, <1>9 DEF HasNext
    <3>2. Ahead(e) \in Nat /\ Ahead(e) < count
      BY <1>1, <2>3, AheadType DEF SteadyIsListed, CountHolds
    <3>3. ~(Ahead(e) >= page * PageSize)
      BY <1>5, <3>1, <3>2
    <3> QED BY <1>3, <2>3, <3>3
  <2>4. NoSkip'
    BY <1>1, <2>3 DEF NoSkip
  <2>5. GivenSoFar' /\ CountHolds' /\ IdleIsFresh'
    BY <2>1 DEF GivenSoFar, Following, CountHolds, IdleIsFresh
  <2> QED BY <1>6, <1>7, <2>2, <2>4, <2>5
<1> QED BY <1>8, <1>9

LEMMA CloseListInv == ASSUME ListInv, CloseList PROVE ListInv'
<1>1. /\ client' = "idle" /\ from' = 0 /\ page' = 0 /\ seen' = [e \in Events |-> 0]
      /\ steady' = {} /\ lowered' = {} /\ raised' = {} /\ pushed' = {}
      /\ UNCHANGED <<rows, count>>
  BY DEF CloseList, Watch
<1>2. EventListTypeOK'
  <2>1. 0 \in 0 .. Cardinality(Events)
    BY ListedFinite
  <2>2. rows' \in Contents /\ count' \in 0 .. Cardinality(Events)
    BY <1>1 DEF ListInv, EventListTypeOK
  <2>3. seen' \in [Events -> 0 .. 2]
    BY <1>1
  <2> QED BY <1>1, <2>1, <2>2, <2>3 DEF EventListTypeOK
<1> QED BY <1>1, <1>2 DEF ListInv, NoSkip, NoRepeat, SteadyIsListed, GivenSoFar, Following,
                          CountHolds, IdleIsFresh

LEMMA ListUnchanged == ASSUME ListInv, UNCHANGED listVars PROVE ListInv'
<1>1. Selected(rows)' = Selected(rows) /\ \A e : Ahead(e)' = Ahead(e)
  BY SameListing DEF listVars
<1> QED BY <1>1 DEF listVars, ListInv, EventListTypeOK, NoSkip, NoRepeat, SteadyIsListed,
                    GivenSoFar, Following, Shown, CountHolds, IdleIsFresh

-----------------------------------------------------------------------------
(* A row is written while the client follows the links *)

(* The number of events ahead of a steady one changes only when the row     *)
(* that is written comes in before it, or moves away from there.            *)
LEMMA WrittenAhead ==
  ASSUME ListInv, NEW e \in Events, NEW time \in Times, WriteRow(e, time),
         NEW d \in steady'
  PROVE  /\ Ahead(d) <= Ahead(d)' \/ d \in Behind(e) \ Behind(e)'
         /\ Ahead(d)' <= Ahead(d) \/ d \in Behind(e)' \ Behind(e)
<1> DEFINE before == {x \in Selected(rows) : Before(x, d)}
           after == {x \in Selected(rows)' : Before(x, d)'}
<1>1. /\ rows' = [rows EXCEPT ![e] = time] /\ UNCHANGED from
      /\ steady' \subseteq steady /\ (d = e => time = rows[e])
  BY DEF WriteRow
<1>2. /\ rows' \in [Events -> Times \cup {NoTime}] /\ rows'[e] = time
      /\ \A x \in Events \ {e} : rows'[x] = rows[x]
  BY <1>1, EventAssumption DEF ListInv, EventListTypeOK, Contents
<1>3. d \in Events /\ d \in steady /\ rows'[d] = rows[d]
  BY <1>1, <1>2, ListedFinite DEF ListInv, SteadyIsListed
<1>4. \A x \in Events \ {e} : x \in before <=> x \in after
  BY <1>1, <1>2, <1>3 DEF Selected, On, Before
<1>5. before \subseteq Events /\ after \subseteq Events
  BY DEF Selected, On
<1>6. Ahead(d) = Cardinality(before) /\ Ahead(d)' = Cardinality(after)
  BY DEF Ahead
<1>7. /\ d # e => (e \in before <=> d \in Behind(e))
      /\ d # e => (e \in after <=> d \in Behind(e)')
  BY <1>3 DEF Behind
<1>8. d = e => e \notin before /\ e \notin after
  BY <1>1, <1>2, <1>3, RowTypes, ListedFinite DEF Before, ListInv, SteadyIsListed
<1>9. /\ IsFiniteSet(before) /\ Cardinality(before) \in Nat
      /\ IsFiniteSet(after) /\ Cardinality(after) \in Nat
  <2> HIDE DEF before, after
  <2> QED BY <1>5, FiniteAssumption, FS_Subset, FS_CardinalityType
<1> HIDE DEF before, after
<1>10. ASSUME d \notin Behind(e) \ Behind(e)'
       PROVE  Ahead(d) <= Ahead(d)'
  <2>1. before \in SUBSET after
    BY <1>4, <1>5, <1>7, <1>8, <1>10
  <2> QED BY <1>6, <1>9, <2>1, FS_Subset
<1>11. ASSUME d \notin Behind(e)' \ Behind(e)
       PROVE  Ahead(d)' <= Ahead(d)
  <2>1. after \in SUBSET before
    BY <1>4, <1>5, <1>7, <1>8, <1>11
  <2> QED BY <1>6, <1>9, <2>1, FS_Subset
<1> QED BY <1>10, <1>11

LEMMA WriteRowInv ==
  ASSUME ListInv, NEW e \in Events, NEW time \in Times, WriteRow(e, time)
  PROVE  ListInv'
<1> USE DEF ListInv
<1>1. /\ rows' = [rows EXCEPT ![e] = time]
      /\ UNCHANGED <<client, from, page, count, seen>>
      /\ steady' \subseteq steady /\ \A d \in steady' : d = e => time = rows[e]
      /\ lowered \subseteq lowered' /\ raised \subseteq raised' /\ pushed \subseteq pushed'
  BY DEF WriteRow
<1>2. /\ rows' \in Contents /\ rows'[e] = time /\ time # NoTime
      /\ \A x \in Events \ {e} : rows'[x] = rows[x]
  BY <1>1, EventAssumption DEF EventListTypeOK, Contents, NoTime
<1>3. EventListTypeOK'
  <2>1. Behind(e) \subseteq Events /\ Behind(e)' \subseteq Events
    BY <1>1 DEF EventListTypeOK, Behind
  <2>2. lowered' \subseteq Events /\ raised' \subseteq Events /\ pushed' \subseteq Events
    BY <2>1 DEF WriteRow, EventListTypeOK
  <2> QED BY <1>1, <1>2, <2>2 DEF EventListTypeOK
<1>4. \A d \in steady' : d \in Events /\ d \in Selected(rows) /\ rows'[d] = rows[d]
  BY <1>1, <1>2, ListedFinite DEF SteadyIsListed
<1>5. SteadyIsListed'
  BY <1>1, <1>4 DEF SteadyIsListed, Selected, On
<1>6. NoSkip' /\ NoRepeat' /\ IdleIsFresh'
  BY <1>1 DEF NoSkip, NoRepeat, IdleIsFresh
<1>7. \A d \in steady' : Ahead(d) \in Nat /\ Ahead(d)' \in Nat
  BY AheadCount
<1>8. CountHolds'
  <2>1. SUFFICES ASSUME client = "selecting", NEW d \in steady', d \notin pushed'
                 PROVE  Ahead(d)' < count
    BY <1>1 DEF CountHolds
  <2>2. Ahead(d) < count /\ count \in Int
    BY <1>1, <2>1 DEF CountHolds, EventListTypeOK
  <2>3. Ahead(d)' <= Ahead(d)
    BY <2>1, WrittenAhead DEF WriteRow
  <2> QED BY <1>7, <2>2, <2>3
<1>9. ASSUME Following, NEW d \in steady'
      PROVE  /\ d \in lowered' \/ seen[d] = 0 \/ (seen[d] = 1 /\ Ahead(d)' < Shown)
             /\ d \in raised' \/ Ahead(d)' >= Shown \/ seen[d] > 0
  <2>1. /\ d \in raised' \/ Ahead(d) <= Ahead(d)'
        /\ d \in lowered' \/ Ahead(d)' <= Ahead(d)
    BY <1>9, WrittenAhead DEF WriteRow
  <2>2. /\ d \in lowered' \/ seen[d] = 0 \/ (seen[d] = 1 /\ Ahead(d) < Shown)
        /\ d \in raised' \/ Ahead(d) >= Shown \/ seen[d] > 0
    BY <1>1, <1>9 DEF GivenSoFar
  <2>3. Shown \in Int
    BY PageAssumption DEF EventListTypeOK, Shown
  <2> QED BY <1>7, <2>1, <2>2, <2>3
<1>10. GivenSoFar'
  <2>1. Following' = Following /\ Shown' = Shown /\ UNCHANGED <<page, seen>>
    BY <1>1 DEF Following, Shown
  <2>2. Following => page > 0
    BY DEF GivenSoFar
  <2> QED BY <1>9, <2>1, <2>2 DEF GivenSoFar
<1> QED BY <1>3, <1>5, <1>6, <1>8, <1>10

-----------------------------------------------------------------------------
(* Theorems *)

LEMMA InvInit == Init => Inv
<1> SUFFICES ASSUME Init PROVE Inv
  OBVIOUS
<1>1. PaginatorTypeOK /\ QueuedUntilSaved /\ ~unread /\ unsaved \subseteq Events
  BY DEF Init, PaginatorInit, PaginatorTypeOK, QueuedUntilSaved, Absent, Contents, Null
<1>2. EventListTypeOK
  <2>1. 0 \in 0 .. Cardinality(Events) /\ rows \in Contents
    BY ListedFinite DEF Init, EventListInit, Contents, Absent
  <2>2. seen \in [Events -> 0 .. 2]
    BY DEF Init, EventListInit
  <2>3. /\ client = "idle" /\ from = 0 /\ page = 0 /\ count = 0 /\ steady = {}
        /\ lowered = {} /\ raised = {} /\ pushed = {}
    BY DEF Init, EventListInit
  <2> QED BY <2>1, <2>2, <2>3 DEF EventListTypeOK
<1>3. ListInv
  BY <1>2 DEF Init, EventListInit, ListInv, NoSkip, NoRepeat, SteadyIsListed, GivenSoFar,
              Following, CountHolds, IdleIsFresh
<1> QED BY <1>1, <1>3 DEF Inv, TypeOK, ListInv

LEMMA ListNext == ASSUME WalkInv, ListInv, [Next]_vars PROVE ListInv'
<1>1. CASE Start \/ Raise \/ Finish \/ UNCHANGED vars
  BY <1>1, ListUnchanged DEF Start, Raise, Finish, vars
<1>2. ASSUME NEW p \in Contents, NEW answer \in Answers, Fetch(p, answer)
      PROVE  ListInv'
  BY <1>2, ListUnchanged DEF Fetch
<1>3. ASSUME NEW e \in Events, Save(e)
      PROVE  ListInv'
  <2>1. items[e] \in Times /\ WriteRow(e, items[e])
    BY <1>3 DEF Save, Yield, WalkInv, PaginatorTypeOK, Contents
  <2> QED BY <2>1, WriteRowInv
<1>4. ASSUME NEW lower \in Filters, OpenList(lower)
      PROVE  ListInv'
  BY <1>4, OpenListInv DEF Filters
<1>5. CASE ClientStep \/ Close
  BY <1>5, CountRowsInv, SelectPageInv, CloseListInv DEF ClientStep, ListStep, Close
<1> QED BY <1>1, <1>2, <1>3, <1>4, <1>5 DEF Next, RunStep, Open

LEMMA InvNext == Inv /\ [Next]_vars => Inv'
<1> SUFFICES ASSUME Inv, [Next]_vars PROVE Inv'
  OBVIOUS
<1>1. WalkInv /\ ListInv
  BY DEF Inv, TypeOK, WalkInv
<1>2. WalkInv' /\ ListInv'
  BY <1>1, WalkNext, ListNext
<1> QED BY <1>2 DEF Inv, TypeOK, WalkInv, ListInv

(* What a run has read and not written is in the queue, and what a client    *)
(* has been given is the pages before the one it asks for, as far as the     *)
(* rows have not moved.                                                      *)
THEOREM Invariance == Spec => []Inv
BY InvInit, InvNext, PTL DEF Spec

(* Every state of the paginator and of the listing is well typed; a client  *)
(* never asks for more pages than there are events.                         *)
THEOREM TypeCorrect == Spec => []TypeOK
<1>1. Inv => TypeOK
  BY DEF Inv
<1> QED BY <1>1, Invariance, PTL

(* A run that ends well has written every event of every page it read.      *)
THEOREM RunSavesAll == Spec => []EveryItemSaved
<1>1. Inv => EveryItemSaved
  BY DEF Inv, EveryItemSaved, QueuedUntilSaved, On, Absent
<1> QED BY <1>1, Invariance, PTL

(* A walk ends at a page that offers no other, wherever the Provider puts    *)
(* its cursor, unless an empty field shadows it.                             *)
THEOREM LastPageIsRead == Spec => []EndsAtLastPage
<1>1. Inv => EndsAtLastPage
  BY DEF Inv, EndsAtLastPage
<1> QED BY <1>1, Invariance, PTL

(* A client is given every event that stays where it is, unless a row listed *)
(* before it moves away, or one comes in before it between the last count    *)
(* and its page.                                                             *)
THEOREM NothingIsSkipped == Spec => []NoSkip
<1>1. Inv => NoSkip
  BY DEF Inv, ListInv
<1> QED BY <1>1, Invariance, PTL

(* And once, unless a row comes in before it, from outside or from behind it. *)
THEOREM NothingIsRepeated == Spec => []NoRepeat
<1>1. Inv => NoRepeat
  BY DEF Inv, ListInv
<1> QED BY <1>1, Invariance, PTL

=============================================================================
