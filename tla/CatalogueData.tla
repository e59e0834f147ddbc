---------------------------- MODULE CatalogueData ----------------------------
(***************************************************************************)
(* What Paginator and EventList have in common: the events, as far as the   *)
(* listing of the catalogue tells them apart.                              *)
(***************************************************************************)
EXTENDS Integers

CONSTANTS
  Events,   \* event ids, ordered as in PostgreSQL
  Times     \* event_time

ASSUME EventAssumption == Events \subseteq Nat /\ Times \subseteq Nat \ {0}

NoTime == 0   \* an event that is not on a page, or not in the table

Absent == [e \in Events |-> NoTime]

Contents == [Events -> Times \cup {NoTime}]

On(contents) == {e \in Events : contents[e] # NoTime}

=============================================================================
