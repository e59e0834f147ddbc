------------------------------ MODULE EventSync ------------------------------
(***************************************************************************)
(* The incremental synchronisation of the local event catalogue:           *)
(* SyncEventsUseCase.execute (application/sync.py) driven by the paginator *)
(* (provider/paginator.py) under the advisory lock of SyncCoordinator.run  *)
(* (worker.py), writing through the event and metadata repositories        *)
(* (repositories/sqlalchemy.py).                                           *)
(*                                                                         *)
(* An event is the changed_at of its newest version: the Provider gives    *)
(* every change of one event a later changed_at.  A step of a run goes     *)
(* from one await to the next; the Provider, the clock and faults move in  *)
(* between.                                                                *)
(***************************************************************************)
EXTENDS Integers

CONSTANTS
  Events,         \* event ids
  Undated,        \* events whose payload carries no changed_at
  Replicas,       \* application processes sharing one PostgreSQL
  NoReplica,      \* the advisory lock is free
  BatchSize,      \* SYNC_BATCH_SIZE
  Overlap,        \* SYNC_OVERLAP_SECONDS, in clock ticks
  DayLength,      \* ticks in a calendar day
  Lag,            \* how far the Provider's clock is behind the replicas'
  LockCanBeLost,  \* may PostgreSQL drop the connection that holds the lock?
  MaxNow,         \* bound: the last instant
  MaxFaults       \* bound: errors, crashes and lost connections

ASSUME UndatedAssumption == Undated \subseteq Events
ASSUME ReplicaAssumption == NoReplica \notin Replicas
ASSUME BatchAssumption == BatchSize \in Nat \ {0}
ASSUME ClockAssumption ==
  /\ Overlap \in Nat
  /\ DayLength \in Nat \ {0}
  /\ Lag \in Nat
  /\ MaxNow \in Nat
ASSUME FaultAssumption == LockCanBeLost \in BOOLEAN /\ MaxFaults \in Nat

VARIABLES
  now,        \* the replicas' UTC clock
  provider,   \* changed_at of every event at the Provider
  local,      \* the same for the rows of table events
  status,     \* sync_metadata.sync_status, "none" when there is no row
  watermark,  \* sync_metadata.last_changed_at
  lock,       \* whose connection holds the advisory lock
  run,        \* the run of every replica
  faults,     \* faults so far
  spanned     \* history: a run advanced the watermark into a later day

vars == <<now, provider, local, status, watermark, lock, run, faults, spanned>>

-----------------------------------------------------------------------------
(* Data *)

FirstSync == 0   \* FIRST_SYNC_CHANGED_AT
NoRow == -1      \* an absent row, list entry or NULL column

MaxOf(a, b) == IF a >= b THEN a ELSE b

Version == Nat \cup {NoRow}

Nothing == [e \in Events |-> NoRow]

(* changed_at.date(), all the Provider is told of the window it must list. *)
Day(t) == t \div DayLength

(* The Provider stamps a change with its own clock. *)
Stamp(t) == t - Lag

PreviousWatermark == IF watermark = NoRow THEN FirstSync ELSE watermark

(* The lower end of the window a run asks for, given the watermark it read. *)
WindowStart(w) == MaxOf(FirstSync, w - Overlap)

Phase == {"idle", "reading", "marking", "iterating", "flushing",
          "completing", "failing", "releasing"}

RunState ==
  [pc: Phase,
   since: Nat,                     \* changed_at of the request
   started: Nat,                   \* started_at
   latest: Nat,                    \* latest_changed_at
   requested: BOOLEAN,             \* a page has been requested
   owed: SUBSET Events,            \* events a page has yet to return
   items: [Events -> Version],     \* _items of the paginator
   finished: BOOLEAN,              \* _finished of the paginator
   batch: [Events -> Version],     \* unique_events of the batch
   count: 0 .. BatchSize]          \* len(batch)

(* A run that holds no data. *)
Unwinding(phase) ==
  [pc |-> phase, since |-> 0, started |-> 0, latest |-> 0, requested |-> FALSE,
   owed |-> Events, items |-> Nothing, finished |-> FALSE, batch |-> Nothing,
   count |-> 0]

IdleRun == Unwinding("idle")

Init ==
  /\ now = Lag + 1
  /\ provider \in [Events -> {NoRow, FirstSync}]
  /\ local = Nothing
  /\ status = "none"
  /\ watermark = NoRow
  /\ lock = NoReplica
  /\ run = [r \in Replicas |-> IdleRun]
  /\ faults = 0
  /\ spanned = FALSE

-----------------------------------------------------------------------------
(* Environment: time, the Provider's data, and the database connection. *)

Tick ==
  /\ now < MaxNow
  /\ now' = now + 1
  /\ UNCHANGED <<provider, local, status, watermark, lock, run, faults, spanned>>

(* A change may move the event to a part of the listing that the pages of a *)
(* run have passed already: the Provider no longer owes it to that run.     *)
ChangeEvent(e) ==
  /\ provider[e] < Stamp(now)
  /\ provider' = [provider EXCEPT ![e] = Stamp(now)]
  /\ run' = [r \in Replicas |->
       IF run[r].requested THEN [run[r] EXCEPT !.owed = @ \ {e}] ELSE run[r]]
  /\ UNCHANGED <<now, local, status, watermark, lock, faults, spanned>>

Fault ==
  /\ faults < MaxFaults
  /\ faults' = faults + 1

(* PostgreSQL closes the idle connection of the lock; the run, on another *)
(* connection, does not notice.                                           *)
LoseLock ==
  /\ LockCanBeLost
  /\ lock # NoReplica
  /\ Fault
  /\ lock' = NoReplica
  /\ UNCHANGED <<now, provider, local, status, watermark, run, spanned>>

-----------------------------------------------------------------------------
(* A run of replica r *)

At(r, phase) == run[r].pc = phase

(* Mutation: the result of pg_try_advisory_lock is not looked at. *)
AcquiredUnchecked == TRUE

Acquired == lock = NoReplica

Acquire(r) ==
  /\ At(r, "idle")
  /\ Acquired
  /\ lock' = r
  /\ run' = [run EXCEPT ![r] = Unwinding("reading")]
  /\ UNCHANGED <<now, provider, local, status, watermark, faults, spanned>>

(* Mutation: latest_changed_at starts from the window, overlap deducted. *)
LatestFromWindow == WindowStart(PreviousWatermark)

LatestAtStart == MaxOf(PreviousWatermark, now)

ReadMetadata(r) ==
  /\ At(r, "reading")
  /\ run' = [run EXCEPT ![r].pc = "marking",
                        ![r].since = WindowStart(PreviousWatermark),
                        ![r].started = now,
                        ![r].latest = LatestAtStart]
  /\ UNCHANGED <<now, provider, local, status, watermark, lock, faults, spanned>>

(* Mutation: mark_running is not committed. *)
MarkRunningUnsaved(r) ==
  /\ At(r, "marking")
  /\ run' = [run EXCEPT ![r].pc = "iterating"]
  /\ UNCHANGED <<now, provider, local, status, watermark, lock, faults, spanned>>

MarkRunning(r) ==
  /\ At(r, "marking")
  /\ status' = "running"
  /\ run' = [run EXCEPT ![r].pc = "iterating"]
  /\ UNCHANGED <<now, provider, local, watermark, lock, faults, spanned>>

(* metadata.get() or mark_running() raises, before the try block.  A COMMIT *)
(* that raises may have been applied.                                       *)
AbortStart(r) ==
  /\ \/ At(r, "reading") /\ UNCHANGED status
     \/ At(r, "marking") /\ status' \in {status, "running"}
  /\ Fault
  /\ run' = [run EXCEPT ![r] = Unwinding("releasing")]
  /\ UNCHANGED <<now, provider, local, watermark, lock, spanned>>

(* The events the Provider finds for the requested day and later ones. *)
Matching(r) ==
  {e \in Events : provider[e] # NoRow /\ Day(provider[e]) >= Day(run[r].since)}

FetchPage(r, page, last) ==
  /\ At(r, "iterating")
  /\ run[r].items = Nothing
  /\ ~run[r].finished
  /\ page \subseteq Matching(r)
  /\ last => run[r].owed \cap Matching(r) \subseteq page
  /\ run' = [run EXCEPT
       ![r].items = [e \in Events |-> IF e \in page THEN provider[e] ELSE NoRow],
       ![r].requested = TRUE,
       ![r].owed = @ \ page,
       ![r].finished = last]
  /\ UNCHANGED <<now, provider, local, status, watermark, lock, faults, spanned>>

(* The request raises, or the paginator sees a cursor twice. *)
FetchFails(r) ==
  /\ At(r, "iterating")
  /\ run[r].items = Nothing
  /\ ~run[r].finished
  /\ Fault
  /\ run' = [run EXCEPT ![r] = Unwinding("failing")]
  /\ UNCHANGED <<now, provider, local, status, watermark, lock, spanned>>

(* Mutation: the batch is flushed one event late. *)
BatchOverfull(count) == count > BatchSize

BatchFull(count) == count >= BatchSize

(* The body of the loop for one event. *)
TakeItem(r, e) ==
  LET version == run[r].items[e] IN
  /\ At(r, "iterating")
  /\ version # NoRow
  /\ run' = [run EXCEPT
       ![r].items[e] = NoRow,
       ![r].batch[e] = version,
       ![r].count = @ + 1,
       ![r].latest = IF e \in Undated THEN @ ELSE MaxOf(@, version),
       ![r].pc = IF BatchFull(run[r].count + 1) THEN "flushing" ELSE @]
  /\ UNCHANGED <<now, provider, local, status, watermark, lock, faults, spanned>>

(* Mutation: the last partial batch is not written. *)
LastBatchDropped(count) == "completing"

AfterLoop(count) == IF count > 0 THEN "flushing" ELSE "completing"

(* The loop is over; a last partial batch is still to be written. *)
EndIteration(r) ==
  /\ At(r, "iterating")
  /\ run[r].items = Nothing
  /\ run[r].finished
  /\ run' = [run EXCEPT ![r].pc = AfterLoop(run[r].count)]
  /\ UNCHANGED <<now, provider, local, status, watermark, lock, faults, spanned>>

(* Mutation: ON CONFLICT DO NOTHING. *)
InsertedOnly(r) ==
  [e \in Events |-> IF local[e] = NoRow THEN run[r].batch[e] ELSE local[e]]

(* INSERT ... ON CONFLICT DO UPDATE of the batch: the row is overwritten *)
(* whatever version it holds.                                            *)
Upserted(r) ==
  [e \in Events |-> IF run[r].batch[e] # NoRow THEN run[r].batch[e] ELSE local[e]]

Flush(r) ==
  /\ At(r, "flushing")
  /\ local' = Upserted(r)
  /\ run' = [run EXCEPT ![r].pc = "iterating", ![r].batch = Nothing, ![r].count = 0]
  /\ UNCHANGED <<now, provider, status, watermark, lock, faults, spanned>>

FlushFails(r) ==
  /\ At(r, "flushing")
  /\ Fault
  /\ local' \in {local, Upserted(r)}
  /\ run' = [run EXCEPT ![r] = Unwinding("failing")]
  /\ UNCHANGED <<now, provider, status, watermark, lock, spanned>>

(* mark_success commits.  The history variable records a watermark that, *)
(* overlap deducted, lies on a later day than the start of the run.      *)
WriteSuccess(r) ==
  /\ status' = "success"
  /\ watermark' = run[r].latest
  /\ spanned' = (spanned \/ Day(WindowStart(run[r].latest)) > Day(WindowStart(run[r].started)))

Complete(r) ==
  /\ At(r, "completing")
  /\ WriteSuccess(r)
  /\ run' = [run EXCEPT ![r] = Unwinding("releasing")]
  /\ UNCHANGED <<now, provider, local, lock, faults>>

CompleteFails(r) ==
  /\ At(r, "completing")
  /\ Fault
  /\ WriteSuccess(r) \/ UNCHANGED <<status, watermark, spanned>>
  /\ run' = [run EXCEPT ![r] = Unwinding("failing")]
  /\ UNCHANGED <<now, provider, local, lock>>

(* mark_failed keeps the watermark; its own failure is only logged. *)
RecordFailure(r) ==
  /\ At(r, "failing")
  /\ status' = "failed"
  /\ run' = [run EXCEPT ![r] = Unwinding("releasing")]
  /\ UNCHANGED <<now, provider, local, watermark, lock, faults, spanned>>

RecordFailureFails(r) ==
  /\ At(r, "failing")
  /\ Fault
  /\ run' = [run EXCEPT ![r] = Unwinding("releasing")]
  /\ UNCHANGED <<now, provider, local, status, watermark, lock, spanned>>

Released(r) == IF lock = r THEN NoReplica ELSE lock

Release(r) ==
  /\ At(r, "releasing")
  /\ lock' = Released(r)
  /\ run' = [run EXCEPT ![r] = IdleRun]
  /\ UNCHANGED <<now, provider, local, status, watermark, faults, spanned>>

(* The process dies: PostgreSQL frees the lock with the connection. *)
Crash(r) ==
  /\ ~At(r, "idle")
  /\ Fault
  /\ lock' = Released(r)
  /\ run' = [run EXCEPT ![r] = IdleRun]
  /\ UNCHANGED <<now, provider, local, status, watermark, spanned>>

-----------------------------------------------------------------------------
(* Specification *)

(* The steps a live run takes by itself. *)
Advance(r) ==
  \/ ReadMetadata(r) \/ MarkRunning(r)
  \/ \E page \in SUBSET Events, last \in BOOLEAN : FetchPage(r, page, last)
  \/ \E e \in Events : TakeItem(r, e)
  \/ EndIteration(r) \/ Flush(r) \/ Complete(r) \/ RecordFailure(r) \/ Release(r)

Fail(r) ==
  \/ AbortStart(r) \/ FetchFails(r) \/ FlushFails(r) \/ CompleteFails(r)
  \/ RecordFailureFails(r) \/ Crash(r)

Next ==
  \/ Tick
  \/ \E e \in Events : ChangeEvent(e)
  \/ LoseLock
  \/ \E r \in Replicas : Acquire(r) \/ Advance(r) \/ Fail(r)

Spec == Init /\ [][Next]_vars

(* A worker starts a run again unless the last one is recorded as failed:    *)
(* then the delay it computes is the same whenever it asks (worker.py:98),   *)
(* and only an operator's POST /api/sync/trigger starts a run.  An operator  *)
(* may do so, and is not assumed to.  Every await of a run ends (httpx and   *)
(* the pool have timeouts), and the listing of the Provider has a last page. *)
Fairness ==
  /\ WF_vars(status # "failed" /\ \E r \in Replicas : Acquire(r))
  /\ \A r \in Replicas : WF_vars(Advance(r))
  /\ \A r \in Replicas : SF_vars(\E page \in SUBSET Events : FetchPage(r, page, TRUE))

FairSpec == Spec /\ Fairness

-----------------------------------------------------------------------------
(* Properties *)

TypeOK ==
  /\ now \in Nat
  /\ provider \in [Events -> Version]
  /\ local \in [Events -> Version]
  /\ status \in {"none", "running", "success", "failed"}
  /\ watermark \in Version
  /\ lock \in Replicas \cup {NoReplica}
  /\ run \in [Replicas -> RunState]
  /\ faults \in Nat
  /\ spanned \in BOOLEAN

(* "PostgreSQL advisory lock against parallel synchronisation in several    *)
(* replicas" (README.md:15): no two replicas are inside a run at once.     *)
MutualExclusion ==
  \A r, s \in Replicas : ~At(r, "idle") /\ ~At(s, "idle") => r = s

(* The window of the next run covers every change the catalogue lacks.     *)
(* "for a safe boundary the request is shifted back and passed as a date". *)
NoLostChange ==
  \A e \in Events :
    local[e] # provider[e] => Day(provider[e]) >= Day(WindowStart(PreviousWatermark))

(* What the code does guarantee: a change can only drop out of every later *)
(* window after a run that moved the watermark into a later day than the   *)
(* one it started in, by the changed_at of an event it saw.                *)
LostOnlyAcrossMidnight == spanned \/ NoLostChange

(* The upsert overwrites unconditionally, so only the order of runs keeps *)
(* a row from going back to an older version of the event.                *)
NeverRegresses == [][\A e \in Events : local'[e] >= local[e]]_vars

(* Once the Provider is quiet the catalogue becomes equal to it through any *)
(* crash, lost COMMIT or run that ended before it could record a failure,   *)
(* unless a change was lost across midnight, or the last run is recorded as *)
(* failed: no worker runs again then.                                       *)
Converges == <>[](spanned \/ status = "failed" \/ local = provider)

(* A run writes its watermark from what it read when it started, yet the *)
(* stored watermark never moves back.                                    *)
WatermarkMonotone == [][watermark' >= watermark]_vars

(* A run does what CatalogueCopy promises of the catalogue: one at a time, *)
(* announced before it writes, rows forward and never ahead, the watermark *)
(* only with a success.                                                    *)
Copy == INSTANCE CatalogueCopy WITH holder <- lock, rows <- local

ImplementsCopy == Copy!CopySpec

-----------------------------------------------------------------------------
(* The invariant the proofs are by induction on *)

ClockAhead == now > Lag

Exclusive == \A r \in Replicas : ~At(r, "idle") => lock = r

(* Outside its loop a run holds no data. *)
Quiet ==
  \A r \in Replicas :
    /\ run[r].pc \in {"idle", "reading", "failing", "releasing"} =>
         run[r] = Unwinding(run[r].pc)
    /\ run[r].pc = "marking" =>
         /\ run[r].items = Nothing /\ run[r].batch = Nothing /\ run[r].count = 0
         /\ run[r].owed = Events /\ ~run[r].requested /\ ~run[r].finished
    /\ run[r].pc = "completing" =>
         run[r].items = Nothing /\ run[r].batch = Nothing /\ run[r].finished

Batched ==
  \A r \in Replicas :
    /\ run[r].pc = "iterating" => run[r].count < BatchSize
    /\ run[r].count = 0 => run[r].batch = Nothing

(* Versions only move from the Provider to a page, a batch and the table. *)
Fresh ==
  \A e \in Events :
    /\ local[e] <= provider[e] /\ provider[e] <= Stamp(now)
    /\ \A r \in Replicas :
         LET item == run[r].items[e]
             batched == run[r].batch[e]
         IN /\ item # NoRow => local[e] <= item /\ item <= provider[e]
            /\ batched # NoRow => local[e] <= batched /\ batched <= provider[e]
            /\ item # NoRow /\ batched # NoRow => batched <= item

Working == {"marking", "iterating", "flushing", "completing"}

WatermarkPast ==
  /\ PreviousWatermark <= now
  /\ \A r \in Replicas : run[r].pc \in Working =>
       /\ run[r].since = WindowStart(PreviousWatermark)
       /\ PreviousWatermark <= run[r].latest /\ run[r].latest <= now
       /\ run[r].started <= run[r].latest

(* Where the newest version of an event the catalogue lacks is to be found. *)
Underway(r, e) ==
  \/ run[r].items[e] = provider[e]
  \/ run[r].batch[e] = provider[e]
  \/ provider[e] >= Stamp(run[r].started)
  \/ /\ e \in run[r].owed /\ ~run[r].finished
     /\ Day(provider[e]) >= Day(run[r].since)

Covered ==
  \A r \in Replicas, e \in Events :
    ~spanned /\ local[e] # provider[e] /\ run[r].pc \in Working => Underway(r, e)

Inv ==
  /\ TypeOK /\ ClockAhead /\ Exclusive /\ Quiet /\ Batched /\ Fresh
  /\ WatermarkPast /\ Covered /\ LostOnlyAcrossMidnight

=============================================================================
