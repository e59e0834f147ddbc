------------------------------ MODULE Paginator ------------------------------
(***************************************************************************)
(* The walk of one run over the Provider's pages: _EventsPaginationIterator *)
(* (provider/paginator.py) over EventsProviderClient.events                *)
(* (provider/client.py).  The Provider is arbitrary: it may put anything   *)
(* on a page, name the next page in several fields of its answer, and hand *)
(* out any cursor at any time, also one it has handed out before.          *)
(***************************************************************************)
EXTENDS CatalogueData

CONSTANT
  Cursors   \* cursors and links the Provider may hand out

(* What JSON holds under a key that should hold a cursor. *)
Missing == "missing"
Null == "null"
Empty == "empty"

ASSUME CursorAssumption == Cursors \cap {Missing, Null, Empty} = {}

VARIABLES
  walk,        \* "idle" between runs, "walking", "ended" or "raised"
  cursor,      \* _cursor
  requested,   \* _requested_cursors
  items,       \* _items, an event_time for every event in the queue
  finished,    \* _finished
  unread       \* history: a cursor the last answer offered was not read

paginatorVars == <<walk, cursor, requested, items, finished, unread>>

Fresh ==
  /\ cursor' = Null
  /\ requested' = {}
  /\ items' = Absent
  /\ finished' = FALSE
  /\ unread' = FALSE

PaginatorInit ==
  /\ walk = "idle"
  /\ cursor = Null
  /\ requested = {}
  /\ items = Absent
  /\ finished = FALSE
  /\ unread = FALSE

-----------------------------------------------------------------------------
(* The next cursor of an answer *)

Field == Cursors \cup {Missing, Null, Empty}

Level == [next_cursor: Field, next: Field]

NoPagination == [next_cursor |-> Missing, next |-> Missing]

(* An object with the fields at its top and in its member "pagination"; a  *)
(* member that is not there, or is no object, has no fields.  A list names *)
(* no next page, as an object with no fields does.                         *)
Payload == [top: Level, pagination: Level]

(* dict.get("next_cursor", dict.get("next")) *)
Given(level) ==
  LET value == IF level.next_cursor # Missing THEN level.next_cursor ELSE level.next
  IN IF value = Missing THEN Null ELSE value

(* Mutation: "pagination" is not looked at. *)
TopCursor(p) == IF Given(p.top) = Empty THEN Null ELSE Given(p.top)

NextCursor(p) ==
  LET value == IF Given(p.top) = Null THEN Given(p.pagination) ELSE Given(p.top)
  IN IF value = Empty THEN Null ELSE value

Offered(p) ==
  Cursors \cap {p.top.next_cursor, p.top.next, p.pagination.next_cursor, p.pagination.next}

(* A field that is there but empty stands before one that holds a cursor. *)
Shadowed(p) ==
  \/ p.top.next_cursor \in {Null, Empty} /\ p.top.next \in Cursors
  \/ Given(p.top) = Empty /\ Offered(p) # {}
  \/ p.pagination.next_cursor \in {Null, Empty} /\ p.pagination.next \in Cursors

(* All that an answer tells the iterator, and whether a cursor was missed   *)
(* in it for no such reason.                                                *)
Answers ==
  {[next |-> NextCursor(p),
    missed |-> NextCursor(p) = Null /\ Offered(p) # {} /\ ~Shadowed(p)] : p \in Payload}

-----------------------------------------------------------------------------
(* __anext__ *)

StartWalk ==
  /\ walk # "walking"
  /\ walk' = "walking"
  /\ Fresh

(* Mutation: the end is looked for before the queue is empty. *)
EndedEarly == finished

Ended == finished /\ items = Absent

(* Mutation: cursors are not compared with those requested. *)
NeverRepeated == FALSE

Repeated == cursor \in requested

FetchItems(page, answer) ==
  /\ walk = "walking"
  /\ items = Absent /\ ~Ended
  /\ ~Repeated
  /\ requested' = requested \cup {cursor}
  /\ items' = page
  /\ cursor' = answer.next
  /\ finished' = (answer.next = Null)
  /\ unread' = answer.missed
  /\ UNCHANGED walk

Leave(place) == walk' = place /\ Fresh

(* PaginationLoopError, or the request or the parsing of its answer raises. *)
WalkRaises ==
  /\ walk = "walking"
  /\ items = Absent /\ ~Ended
  /\ Leave("raised")

Yield(e) ==
  /\ walk = "walking"
  /\ ~Ended
  /\ items[e] # NoTime
  /\ items' = [items EXCEPT ![e] = NoTime]
  /\ UNCHANGED <<walk, cursor, requested, finished, unread>>

StopIteration ==
  /\ walk = "walking"
  /\ Ended
  /\ walk' = "ended"
  /\ UNCHANGED <<cursor, requested, items, finished, unread>>

PaginatorTypeOK ==
  /\ walk \in {"idle", "walking", "ended", "raised"}
  /\ cursor \in Cursors \cup {Null}
  /\ requested \subseteq Cursors \cup {Null}
  /\ items \in Contents
  /\ finished \in BOOLEAN /\ unread \in BOOLEAN
  /\ finished => cursor = Null

(* A walk that ends has read the last page: the answer to its last request  *)
(* names no page that the client could have asked for, in whichever of the  *)
(* fields the Provider puts it, unless a present but empty field of higher   *)
(* precedence shadows it (provider/client.py:278-286).                       *)
EndsAtLastPage == walk = "ended" => ~unread

=============================================================================
