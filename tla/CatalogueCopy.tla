---------------------------- MODULE CatalogueCopy ----------------------------
(***************************************************************************)
(* What the synchronisation of application/sync.py promises of the local    *)
(* catalogue: it follows the Provider, forward only and never ahead of it,  *)
(* and is written only by the one run that has announced itself; the        *)
(* watermark moves forward, with a success and at no other time.  Pages,    *)
(* cursors, batches, windows and clocks are the business of EventSync.      *)
(***************************************************************************)
EXTENDS RunService, Integers

CONSTANTS
  Events,     \* event ids
  NoRow,      \* no row, or no watermark: less than any instant
  FirstSync   \* changed_at of an event that has never changed

VARIABLES
  provider,   \* the newest version of every event at the Provider
  rows,       \* the version in the local catalogue
  watermark   \* sync_metadata.last_changed_at

copy == <<provider, rows, watermark>>

CopyInit ==
  /\ Init
  /\ provider \in [Events -> {NoRow, FirstSync}]
  /\ rows = [e \in Events |-> NoRow]
  /\ watermark = NoRow

Change(e) ==
  /\ provider' = [provider EXCEPT ![e] = provider'[e]]
  /\ provider[e] < provider'[e]
  /\ UNCHANGED <<holder, status, rows, watermark>>

(* Some rows move forward, to versions no newer than the Provider's. *)
Store(r) ==
  /\ holder = r /\ status = "running"
  /\ rows' = [e \in Events |-> rows'[e]]
  /\ \A e \in Events : rows[e] <= rows'[e] /\ rows'[e] <= provider[e]
  /\ UNCHANGED <<holder, status, provider, watermark>>

Finish(r) ==
  /\ Succeed(r)
  /\ watermark <= watermark'
  /\ UNCHANGED <<provider, rows>>

CopyNext ==
  \/ \E e \in Events : Change(e)
  \/ \E r \in Replicas :
       \/ Store(r) \/ Finish(r)
       \/ (Take(r) \/ Begin(r) \/ Fail(r) \/ GiveUp(r)) /\ UNCHANGED copy

CopySpec == CopyInit /\ [][CopyNext]_<<holder, status, copy>>

=============================================================================
