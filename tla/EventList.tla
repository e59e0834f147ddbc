------------------------------ MODULE EventList ------------------------------
(***************************************************************************)
(* GET /api/events (api/routes.py, application/events.py): a client follows *)
(* the links "next" through the catalogue, page by page.  A page is cut out *)
(* of the ordered listing by OFFSET and LIMIT, and its request makes two    *)
(* statements, the count and the page (repositories/sqlalchemy.py), each of *)
(* which sees what is committed when it starts; rows change in between.     *)
(***************************************************************************)
EXTENDS CatalogueData, FiniteSets, SequencesExt

CONSTANT
  PageSize    \* page_size of the client

ASSUME FiniteAssumption == IsFiniteSet(Events) /\ Events # {}
ASSUME PageAssumption == PageSize \in Nat \ {0}

VARIABLES
  rows,       \* event_time of the rows of table events
  client,     \* what the client is doing
  from,       \* date_from
  page,       \* the page it asks for
  count,      \* result of the first statement
  seen,       \* how often the client has been given an event
  steady,     \* history: rows unchanged since it began
  lowered,    \* history: those of them that a row has come in before
  raised,     \* history: those that a row before them has moved away from
  pushed      \* history: those a row came in before since the last count

listVars == <<rows, client, from, page, count, seen, steady, lowered, raised, pushed>>

EventListInit ==
  /\ rows = Absent
  /\ client = "idle"
  /\ from = 0 /\ page = 0 /\ count = 0
  /\ seen = [e \in Events |-> 0]
  /\ steady = {} /\ lowered = {} /\ raised = {} /\ pushed = {}

-----------------------------------------------------------------------------
(* The listing *)

Selected(table) == {e \in On(table) : table[e] >= from}

(* Mutation: ORDER BY event_time, events of one time in any order. *)
ByTime(d, e) == rows[d] < rows[e]

(* ORDER BY event_time, id *)
Before(d, e) == rows[d] < rows[e] \/ (rows[d] = rows[e] /\ d < e)

Sorted(list) == \A i, j \in DOMAIN list : i < j => ~Before(list[j], list[i])

Listings == {list \in SetToSeqs(Selected(rows)) : Sorted(list)}

(* OFFSET (page - 1) * page_size LIMIT page_size *)
Cut(list) ==
  {list[i] : i \in {j \in DOMAIN list : (page - 1) * PageSize < j /\ j <= page * PageSize}}

(* Mutation: the last page is not linked to. *)
LinkedLate == (page + 1) * PageSize < count

HasNext == page * PageSize < count

-----------------------------------------------------------------------------
(* The client *)

Following == client \in {"counting", "selecting"}

(* The history starts anew with these rows. *)
Watch(listed) == steady' = listed /\ lowered' = {} /\ raised' = {} /\ pushed' = {}

OpenList(lower) ==
  /\ client = "idle"
  /\ client' = "counting"
  /\ from' = lower
  /\ page' = 1
  /\ Watch({e \in On(rows) : rows[e] >= lower})
  /\ UNCHANGED <<rows, count, seen>>

CountRows ==
  /\ client = "counting"
  /\ count' = Cardinality(Selected(rows))
  /\ client' = "selecting"
  /\ pushed' = {}
  /\ UNCHANGED <<rows, from, page, seen, steady, lowered, raised>>

MinOf(a, b) == IF a <= b THEN a ELSE b

(* The page, and the link to the next one if the count says there is one. *)
SelectPage ==
  /\ client = "selecting"
  /\ \E list \in Listings :
       seen' = [e \in Events |-> IF e \in Cut(list) THEN MinOf(seen[e] + 1, 2) ELSE seen[e]]
  /\ IF HasNext
       THEN client' = "counting" /\ page' = page + 1
       ELSE client' = "finished" /\ UNCHANGED page
  /\ count' = 0
  /\ UNCHANGED <<rows, from, steady, lowered, raised, pushed>>

CloseList ==
  /\ client = "finished"
  /\ client' = "idle"
  /\ from' = 0 /\ page' = 0
  /\ seen' = [e \in Events |-> 0]
  /\ Watch({})
  /\ UNCHANGED <<rows, count>>

ListStep == CountRows \/ SelectPage

(* The steady rows that are listed after e. *)
Behind(e) == {d \in steady \ {e} : e \in Selected(rows) /\ Before(e, d)}

(* A synchronisation writes the row of e: upsert_many commits.  A later     *)
(* event_time takes the row towards the end of the listing.                 *)
WriteRow(e, time) ==
  /\ UNCHANGED <<client, from, page, count, seen>>
  /\ rows' = [rows EXCEPT ![e] = time]
  /\ steady' = IF time = rows[e] THEN steady ELSE steady \ {e}
  /\ lowered' = lowered \cup IF Following THEN Behind(e)' \ Behind(e) ELSE {}
  /\ raised' = raised \cup IF Following THEN Behind(e) \ Behind(e)' ELSE {}
  /\ pushed' = pushed \cup IF client = "selecting" THEN Behind(e)' \ Behind(e) ELSE {}

EventListTypeOK ==
  /\ rows \in Contents
  /\ client \in {"idle", "counting", "selecting", "finished"}
  /\ from \in Times \cup {0}
  /\ page \in 0 .. Cardinality(Events)
  /\ count \in 0 .. Cardinality(Events)
  /\ seen \in [Events -> 0 .. 2]
  /\ steady \cup lowered \cup raised \cup pushed \subseteq Events

(* A client that follows the links is given every event that was listed     *)
(* when it began and has not changed since, unless a row that was listed     *)
(* before this event moved away from there (behind it, or out of the         *)
(* filter), or one came in before it between the count and the select of the *)
(* last request, so that the page it ended on was no longer the last.        *)
NoSkip ==
  client = "finished" =>
    \A e \in steady : e \in raised \/ e \in pushed \/ seen[e] > 0

(* It is given such an event once, unless a row came in before this event,  *)
(* from outside or from behind it.                                           *)
NoRepeat == \A e \in steady : e \in lowered \/ seen[e] < 2

-----------------------------------------------------------------------------
(* The invariant the proofs are by induction on *)

(* How many events are listed before e. *)
Ahead(e) == Cardinality({d \in Selected(rows) : Before(d, e)})

(* How many events the pages before this one have shown, or could have. *)
Shown == (page - 1) * PageSize

SteadyIsListed == steady \subseteq Selected(rows)

(* The client has been given a steady event if it is on the pages before,   *)
(* and once: nothing has moved it back there, or away from there.           *)
GivenSoFar ==
  Following =>
    /\ page > 0
    /\ \A e \in steady :
         /\ e \in lowered \/ seen[e] = 0 \/ (seen[e] = 1 /\ Ahead(e) < Shown)
         /\ e \in raised \/ Ahead(e) >= Shown \/ seen[e] > 0

(* The count covers the page a steady event is on. *)
CountHolds == client = "selecting" => \A e \in steady : e \in pushed \/ Ahead(e) < count

IdleIsFresh == client = "idle" => \A e \in Events : seen[e] = 0

ListInv ==
  /\ EventListTypeOK /\ NoSkip /\ NoRepeat
  /\ SteadyIsListed /\ GivenSoFar /\ CountHolds /\ IdleIsFresh

=============================================================================
