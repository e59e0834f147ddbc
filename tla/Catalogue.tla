------------------------------ MODULE Catalogue ------------------------------
(***************************************************************************)
(* The way of an event through the service: from a page of the Provider     *)
(* through the paginator (Paginator) into a row, by SyncEventsUseCase       *)
(* (application/sync.py) with a batch of one event, and from the row to a   *)
(* client that lists the catalogue meanwhile (EventList).                   *)
(***************************************************************************)
EXTENDS Paginator, EventList

VARIABLES
  unsaved   \* history: events of the run whose newest copy is in no row

vars == <<paginatorVars, listVars, unsaved>>

Init == PaginatorInit /\ EventListInit /\ unsaved = {}

-----------------------------------------------------------------------------
(* A run *)

Start == StartWalk /\ unsaved' = {} /\ UNCHANGED listVars

Fetch(p, answer) ==
  /\ FetchItems(p, answer)
  /\ unsaved' = unsaved \cup On(p)
  /\ UNCHANGED listVars

(* The loop body: the batch is full and upsert_many commits it. *)
Save(e) ==
  /\ Yield(e)
  /\ WriteRow(e, items[e])
  /\ unsaved' = unsaved \ {e}

Raise == WalkRaises /\ unsaved' = {} /\ UNCHANGED listVars

Finish == StopIteration /\ UNCHANGED <<listVars, unsaved>>

RunStep ==
  \/ \E p \in Contents, answer \in Answers : Fetch(p, answer)
  \/ (\E e \in Events : Save(e)) \/ Raise \/ Finish

-----------------------------------------------------------------------------
(* A client *)

ClientStep == UNCHANGED <<paginatorVars, unsaved>> /\ ListStep

(* Without date_from, or with one that leaves a time out. *)
Filters == {0} \cup {t \in Times : \E earlier \in Times : earlier < t}

Open == (\E lower \in Filters : OpenList(lower)) /\ UNCHANGED <<paginatorVars, unsaved>>

Close == CloseList /\ UNCHANGED <<paginatorVars, unsaved>>

Next == Start \/ RunStep \/ Open \/ ClientStep \/ Close

Spec == Init /\ [][Next]_vars

(* Every await of a run ends: httpx and the pool have timeouts.  Nothing is *)
(* assumed of what the Provider answers, and nobody has to list.            *)
FairSpec == Spec /\ WF_vars(RunStep)

-----------------------------------------------------------------------------
(* Properties *)

TypeOK == PaginatorTypeOK /\ EventListTypeOK /\ unsaved \subseteq Events

(* A run that ends without an error has written every event of every page,  *)
(* those of the last page included.                                          *)
EveryItemSaved == walk = "ended" => unsaved = {}

(* The walk over the pages ends whatever the Provider answers, as long as it *)
(* has finitely many cursors to hand out: a repeated one ends it.            *)
WalkEnds == walk = "walking" ~> walk # "walking"

-----------------------------------------------------------------------------
(* The invariant the proofs are by induction on *)

(* What a run has read and not saved yet is in the paginator's queue. *)
QueuedUntilSaved == unsaved \subseteq On(items) /\ (walk = "ended" => items = Absent)

Inv == TypeOK /\ ListInv /\ QueuedUntilSaved /\ ~unread

=============================================================================
