# Verification of events-aggregator

TLA+ specifications, TLC configurations and TLAPS proofs for the service in `src/`
(package `events_aggregator`): a FastAPI process that keeps a copy of the events of an
external *Events Provider* in PostgreSQL, serves the catalogue from it, and registers
visitors with the Provider. Paths below are relative to `src/src/events_aggregator/`
unless they start with `src/`.

    tlc -config EventSync_safety.cfg MCEventSync     # model-check one run
    tlapm EventSyncProofs.tla                        # check the proofs of a module

`PROJECT.json` lists the components, the runs, one mutation of the code per checked
property, the source lines every definition stands for, the hazards and the findings.

## 1. The system

| Component | State it keeps | Operations | What makes it correct |
|---|---|---|---|
| Incremental synchronisation, `application/sync.py` | local variables of a run: window, watermark so far, batch | `execute`: read metadata, mark running, list pages, upsert batches, mark success or failed | no change of the Provider is skipped for ever; no row and no watermark goes back; after any failure the next run makes it good |
| Catalogue queries, `application/events.py` | none | `ListEventsUseCase.execute`, `GetEventUseCase.execute` | who follows the links of the listing sees every event that stays put, once |
| Pagination, `provider/paginator.py` | queue of items, cursor, cursors requested | `__anext__` | every item of every page once; ends, or raises on a repeated cursor |
| Coordination, `worker.py` (`PostgresAdvisoryLock`, `SyncCoordinator`) | local asyncio lock, PostgreSQL session lock | `run`, `seconds_until_due` | one run at a time over all replicas; a lock is never left behind; a dead run is noticed |
| Scheduling, `worker.py` (`DailySyncWorker`) | task, stop event | `start`, `stop`, `_run`, `_wait`, `_run_once` | runs when due and not before; never gives up; stops when told to |
| Ticket registration, `application/tickets.py` | none of its own: table `tickets` and the Provider's registrations | `CreateTicketUseCase.execute`, `CancelTicketUseCase.execute` | table and Provider agree, or a known failure explains why not; cancelling is idempotent and heals |
| Seats cache, `application/cache.py` | entries with expiry, a lock per key, the queues of those locks | `get_or_load`, `invalidate`, `_purge_expired`, `_evict_if_full` | one load per key at a time; bounded; no lock leaks; every caller returns |
| Repositories, `repositories/sqlalchemy.py` | tables `events`, `tickets`, `sync_metadata` | `upsert_many`, `create`, `mark_*`, `get`, `list` | each call is one transaction, rolled back when it raises |
| Provider client, `provider/client.py` | connection pool | `events`, `available_seats`, `register`, `cancel` | every answer is a value or one of four errors, but for strings it does not look into (a link, a cursor, a seat) |
| HTTP API, `api/`, sessions, `db/session.py` | a session per request, the pool of database connections | `GET /events`, `/events/{id}`, `/events/{id}/seats`, `/health`; `POST /tickets`, `/sync/trigger`; `DELETE /tickets/{id}` | each error reaches the client as the right status, and the status agrees with what was done; every request is answered |
| Process, `main.py`, `config.py` | the singletons above | lifespan start and shutdown | worker stopped before the engine is disposed of |
| Migrations, `src/migrations/`, `src/run.sh` | the schema | `upgrade`, under a transaction-level advisory lock, before the server starts | concurrent starts are serialised; a start that dies leaves nothing behind |

**How they interact.** The worker task and the handler of `POST /api/sync/trigger` both
call `SyncCoordinator.run`, which takes the local lock, then the advisory lock on a
database connection of its own, then runs `SyncEventsUseCase` on a second connection. The
use case pulls events out of the paginator, which calls the client page by page, and
pushes batches into the event repository; `sync_metadata` (one row) carries the watermark
from run to run and the status from replica to replica. The worker reads that row to
decide when the next run is due. Tickets change two stores, the Provider first and the
table after it, with a compensation in between and no transaction around them. The seats
cache sits between the seats handler and the client and is shared by the tasks of one
process only.

**What is hard.** Several processes share the row and the lock. Every `await` is a point
where other tasks, the Provider and the clock move on. A process may die at any of them,
and nothing but the status row tells the others. A request to the Provider may be lost,
may be answered to nobody, or may be served after its client has gone. COMMIT may be
applied although it raises. The Provider takes a date where the service keeps a
timestamp. Time limits race: 60 s, 300 s, 3600 s and the interval of the worker; the TTL
of the cache. Requests keep a database connection while they await the Provider, and a
run needs two. Clients page through a table that a run is writing. Containers start
together and each upgrades the schema.

`PROJECT.json` lists the hazards one by one, each at its line.

## 2. Modules

### EventSync — what a run does to the catalogue

Models `SyncEventsUseCase.execute`, the paginator, the two repositories it writes through
and the lock it runs under, on several replicas, with the Provider's data and the clock.

| State | Code |
|---|---|
| `provider`, `local` | `changed_at` of the newest version of each event at the Provider, and in the row of table `events`. The Provider gives each change of one event a later `changed_at`, so that number *is* the version; `-1` is "no such event/row". `Undated` events have versions too, but their payload does not carry them (`event.changed_at is None`) |
| `status`, `watermark` | the row of `sync_metadata` (`sync_status`, `last_changed_at`) |
| `lock` | whose database session holds `pg_try_advisory_lock` |
| `run[r]` | the frame of `execute` on replica `r`: `since` is the `changed_at` of the request, `started`, `latest`, `batch`/`count`, and `items`/`finished` of the paginator. `requested` and `owed` say which events the Provider must still put on a page of this listing |
| `spanned` | history: some run has moved the watermark into a later day than it started in |

A step goes from one `await` to the next: `Acquire`, `ReadMetadata`, `MarkRunning`,
`FetchPage`, `TakeItem` (the loop body for one event), `EndIteration`, `Flush`,
`Complete`, `RecordFailure`, `Release`. Each has a failing twin where the code has an
error path: `AbortStart` (before the `try`), `FetchFails`, `FlushFails`, `CompleteFails`,
`RecordFailureFails` (only logged), `Crash`. A failing COMMIT may have been applied.
`ChangeEvent` changes an event at the Provider at any time; a change may move an event to
a part of the listing that a run has passed, so it no longer owes that run the event.
`FetchPage` returns any part of what matches the requested *day*; the last page completes
what was owed. `LoseLock` closes the session of the lock without the run noticing
(`LockCanBeLost`).

### SyncScheduler — when a run takes place, and where

Models `DailySyncWorker`, `SyncCoordinator`, `seconds_until_due`, the manual trigger and
the lifespan, with the run itself reduced to its effect on the status row. `worker[r]` is
the place of the worker task (`looping`, `deciding`, `sleeping`, `attempting`, `syncing`,
`done`, or `off` when there is no process), `timer[r]` what is left of its wait,
`stopping[r]` the stop event, `owner[r]` which task holds the local lock and `phase[r]` how
far its run is. Instants are kept as ages capped at the interval, beyond which no
comparison in the code tells them apart, so time needs no bound. Because reading the row
(`Decide`) and trying the locks (`Attempt`, `Connect`) are separate steps, other replicas
may run in between.

`overtaken` is history: the workers that had decided to run before another run succeeded.

Status `never` of the schema's default is `"none"`: `seconds_until_due` answers 0 for both.
`last_sync_time` is never NULL with status `failed` or `success`, since `mark_failed` and
`mark_success` write it with the status, so that branch of `seconds_until_due` is not
repeated.

### Tickets — registration and cancellation

Models the two use cases, the client and the repository they call. `registered` is what
the Provider holds, `row[b]` the row of table `tickets`, `create[b]` and `cancel[c]` where
a handler is, `flight` the requests the Provider has not served, and `reply` the answer a
waiting client has got. A booking and the ticket id the Provider gives it are one value.
`Abandon` is a client that gives up: its request is dropped or goes on without a client
and is served later. `mishaps[b]` is history: what went wrong for a booking.
`SaveFails` is a failing INSERT or COMMIT and sends the compensation; `MarkFails` is the
same for `mark_cancelled`, which has none.

### SeatsCache — `AsyncTTLCache`

Models `get_or_load` with its helpers. `left[k]` is what is left of an entry's TTL,
`table` is `_locks`, `holder` and `queue` are the state of each `asyncio.Lock`, `key`,
`using` and `loading` the tasks inside `get_or_load`. A released lock is *unlocked* until
the task it woke runs; a newcomer queues up behind that task, but `lock.locked()` is
`False` — the instant the `finally` block and `invalidate` look at. `disturbed` and
`dropped` are history.

### RunService and CatalogueCopy — what the synchronisation promises

`RunService` is the abstract specification of coordination: one holder, which announces
itself before it works and writes the status by itself. `CatalogueCopy` extends it with
the catalogue: rows move forward, never ahead of the Provider, and only under an announced
run; the watermark moves forward, and only with a success. Neither knows of pages, batches,
windows, clocks, worker tasks or local locks. `SyncScheduler` implements the first
(`Service == INSTANCE RunService WITH holder <- lock`), `EventSync` the second
(`Copy == INSTANCE CatalogueCopy WITH holder <- lock, rows <- local`). Most of what
the detailed modules do (waiting, deciding, reading pages) is a stutter there; a crash is
a `GiveUp`.

### Paginator, EventList, Catalogue — pages in, pages out

`Paginator` is `_EventsPaginationIterator` over `EventsProviderClient.events`: `cursor`,
`requested`, `items` and `finished` are its fields. The Provider is arbitrary: any events on
a page, and any cursor, null, empty string or nothing under each of the four keys that
`_next_cursor` looks at (`Payload`). `unread` is history: the last answer held a cursor that
was not read. Only the answer's effect is enumerated (`Answers`), not each payload.

`EventList` is `GET /api/events`: a client that follows `next` from page to page. A request
is two steps, `CountRows` and `SelectPage`, because it makes two statements; a page is cut
by OFFSET and LIMIT out of any listing sorted by `Before`. `steady`, `lowered`, `raised` and
`pushed` are history: the events whose rows have not changed since the client began, and those
of them that another row has come in before, that one listed before them has moved away from,
and that one has come in before since the last count.

`Catalogue` composes them: a run with a batch of one saves (`Save`: `Yield` and `WriteRow`
in one step) what the paginator hands out, while the client walks. `unsaved` is history. The
constants both need are in `CatalogueData`.

### Requests — handlers, sessions, the pool, errors and statuses

Every request of one process and the worker as tasks: `kind[t]` is what is asked for,
`place[t]` what the task awaits (the pool, the database, the Provider), `goal[t]` what for,
`held[t]` the connections it has. A session takes a connection at its first statement and
gives it back at COMMIT, ROLLBACK or its end, so `ReadPasses` keeps one while it goes on to
the Provider, `Recorded` gives it back, and a run queues again for each transaction while it
keeps the one of its lock. `Mro`, `HandlerStatus` and `StatusOfError` are the hierarchy of
`domain/errors.py` and the handlers of `api/errors.py`; `ErrorOf` is the mapping of
`_request` and of the functions around it, with the one outcome they do not map (`unusable`): a
link that `urljoin` or `urlparse` refuses (`client.py:221-222`), one that httpx cannot request
(`httpx.InvalidURL` is no `RequestError`, `client.py:257`), or a string no encoder takes, in a
cursor or among the seats of the response. Python's `ValueError` stands for what is raised
then; no handler is registered for it, and the answer is 500. `force[t]` is the truth about a ticket request: where what it asks for is in
force. An answer that is lost or makes no sense may or may not have been preceded by the
effect. `Break` is where an exception goes from each place.

`ReleaseFails` rests on an assumption about the Provider: it answers 404, and not 400, 409 or
422, to the cancellation of a registration that is gone. The code relies on it too:
`application/tickets.py:102-106` takes 404 for success, while `client.py:262-267` turns the
others into a conflict whatever the state. `StatusTellsOutcome` needs it for a cancellation
that answers 409, and `Tickets` makes the same assumption.

### Migrations — the start of containers

`run.sh` on several containers: `Begin` and `Lock` (the transaction and
`pg_advisory_xact_lock`), `Compare` (alembic reads the revision), `Execute` (one statement of
`Upgrade` in order), `Commit` and the server. `Fail` ends the transaction anywhere,
`CommitUnseen` after it was applied, `Restart` ends a server. `Waits` is PostgreSQL's own
wait for another transaction that creates the same name.

Every module with proofs ends in a section with its inductive invariant, `Inv`, made of named
parts, the type invariant `TypeOK` first; the proofs are in a module of their own,
`<module>Proofs`.

`MC*` modules add symmetry sets and sets of faults; the other constants get their values in
the `.cfg` files. Runs with a liveness property use no symmetry.

## 3. Runs

| Run | Bounds | Checks | States |
|---|---|---|---|
| `EventSync_safety` | 2 events (1 undated), 2 replicas, batch of 2, overlap 1, day of 2 ticks, Provider 1 tick behind, 4 ticks, 2 faults | `TypeOK`, `MutualExclusion`, `LostOnlyAcrossMidnight`, `Inv`, `ImplementsCopy`, `NeverRegresses`, `WatermarkMonotone` | 633 k |
| `EventSync_converges` | the same events and clock with 1 replica, `LockCanBeLost`, 2 faults, fair | `Converges` | 1.04 M |
| `EventSync_lost_change` | 1 replica, day of 3 ticks, 8 ticks, no faults | `NoLostChange` **violated** | |
| `EventSync_lock_lost` | 2 replicas, `LockCanBeLost` | `MutualExclusion` **violated** | |
| `SyncScheduler_replicas` | 2 replicas, one of which runs on startup, manual triggers, 3 faults of any kind; interval 3, above the polling and the stale limit and below the retry delay; fair | `Inv`, `RunIsRecorded`, `LockHeldByRun`, `ImplementsRunService`, `NoEarlyRepeat`, `StaleRunRecovered`, `KeepsSyncing`, `StopCompletes` | 397 k |
| `SyncScheduler_no_retry` | 1 replica, 1 failed run, fair | `RetryAfterFailure` **violated** | |
| `Tickets_service` | 2 bookings, 2 cancelling clients, 2 faults of any kind, fair | `Inv`, `CancelledIsReleased`, `NoSilentOrphan`, `ActiveIsRegistered`, `CancelHeals` | 52 k |
| `SeatsCache_calls` | 2 keys, 3 tasks, 1 entry, TTL 2, fair | `Inv`, `SingleFlightUnlessDisturbed`, `NoLockLeaks`, `CallsReturn` | 80 k |
| `SeatsCache_stampede` | 1 key, 3 tasks | `SingleFlight` **violated** | |
| `Catalogue_walks` | 2 events at 2 times, 2 cursors, page of 1, fair | `Inv`, `EveryItemSaved`, `EndsAtLastPage`, `NoSkip`, `NoRepeat`, `WalkEnds` | 147 k |
| `Requests_pool` | 2 handlers and the worker, 2 connections, 2 faults, fair | `Inv`, `StatusTellsOutcome`, `QueuesFirst`, `ProviderErrorsAreNotOurs`, `Answered` | 213 k |
| `Migrations_start` | 3 containers, 3 faults, fair | `Inv`, `UpgradeNeverRefused`, `ServesOnWholeSchema`, `EveryContainerServes` | 692 |

### What they show

*EventSync.* Runs exclude each other while the lock's connection lives. The upsert
overwrites rows unconditionally, yet no row goes back to an older version, because runs
are serial and a page is always read before it is written. The stored watermark never
moves back. A change that is missing from the catalogue is always inside the window of
the next run — *except* after a run that carried the watermark across midnight. Each step is
one of `CatalogueCopy`. Through crashes, lost COMMITs and failures that could not be recorded,
the catalogue of a quiet Provider becomes equal to it, unless such a change was lost, or the
last run is recorded as failed: then no worker runs again (finding 1).

*SyncScheduler.* The status row says `running` as long as any run is at work, on any
replica; the advisory lock is held by exactly one run or by none, whatever fails. A
`running` left by a crash goes stale and is recovered. Unless a run is recorded as failed
(finding 1) synchronisation never ceases. `stop()` returns. A
worker does not repeat a recent synchronisation however often the replicas are restarted,
with one exception, which `overtaken` names: another run succeeded after the worker had
decided to run and before it had the lock. Nothing forbids that and it is harmless. Each
step is one of `RunService`.

*Tickets.* A ticket the table calls cancelled is never registered at the Provider and no
late request can register it again. A failed `POST` leaves a registration behind only if
the answer was lost, the compensation failed too, or the process died; a database error
alone never does. An active row without registration means that a cancellation is under
way or was cut short, or that a COMMIT was applied and not acknowledged. Cancelling again
heals.

*SeatsCache.* Two tasks load one key at the same time only after a load failed, or the
entry expired or was evicted, while tasks were at it. A lock stays in the table without
use only through `_fresh_entry`. Every call returns.

*Catalogue.* Whatever the Provider answers, a walk over its pages ends if it has finitely
many cursors to hand out; it ends without error only at a page that names no further one
(unless a null or empty field stands before the one that does: `next_cursor: null` with
`next` set is the end for `client.py:278`), and with every event saved. A client of the
catalogue is given each event that has not changed, and once, with three exceptions. A row
listed before it that moves behind it, or out of the filter, pulls it to a page the client has
left (`raised`); a row that comes in before it, from outside or from behind it, pushes it to the
next page (`lowered`); and one that does so between the count and the select of the last request
pushes it past what the client takes for the last page (`pushed`). Each of them occurs: without
any one of the three the property fails. Rows that come and go after an event, or stay before
it, excuse nothing.

*Requests.* The pool runs dry but no handler waits for it after its first statement, so an
exhausted pool leaves no registration without a row. A run waits again and again, yet with
two connections or more nothing waits for ever, and every connection comes back. A 2xx
means that the ticket is registered (cancelled) in both stores, a 4xx in neither. An error that
the client raises on an answer of the Provider is always 404, 409 or 502, also one whose class
has no handler of its own (`PaginationLoopError`); strings the client does not look into are no
such error and end as 500 (section 2, *Requests*). What fails while an error is dealt with, a
compensation or `mark_failed`, does not take its place; only `pg_advisory_unlock` does
(`worker.py:39-46`, outside of any handler).

*Migrations.* The container that gets the lock reads the revision under it, so no statement
is refused; DDL is rolled back with its transaction, so a dead upgrade leaves nothing; every
container comes to serve, and on a whole schema only.

### Findings

1. **A failed synchronisation is never retried** (`worker.py:98-99`, run
   `SyncScheduler_no_retry`). `seconds_until_due` answers `min(300, interval)` without
   deducting what has passed since the failure, and the worker runs only when the answer
   is 0. `src/README.md:104` promises a retry. Only a restart with an empty table, a manual
   trigger or another replica's success ends it — not a restart of the process.
2. **A change can be lost across midnight** (`application/sync.py:51-52` with
   `provider/client.py:213`, run `EventSync_lost_change`). A run starts on one day and,
   after midnight, reads an event changed on the new day; the watermark becomes that
   `changed_at`. A change made late on the old day to an event the listing had passed is
   in neither this run nor the window of the next. `src/README.md:88` and `98-100` promise
   an overlap of a calendar day.
3. **The advisory lock does not stop a run that lost it** (`worker.py:30-46`, run
   `EventSync_lock_lost`). It is held by an idle connection in an open transaction, which
   `idle_in_transaction_session_timeout` or a proxy may close; the run does not notice.
   `src/README.md:15`.
4. **The stampede protection has a hole after a failed load** (`application/cache.py:61-63`,
   run `SeatsCache_stampede`). The `finally` block drops a lock that tasks still queue for.
   `application/cache.py:20`.

### Bounds, and why they are enough

`EventSync`: two events are what it takes for one to carry the watermark past the other;
two replicas for a race; a batch of two for a full batch, a partial last one and an empty
one; a day of two or three ticks and an overlap of one so that windows start on the day,
before it and across it; four ticks cross midnight twice. Two faults, so that a failing run
can also fail to record it, or two runs in succession can fail. `MaxNow` and `MaxFaults` bound
the clock and the faults; the proofs need neither.
`SyncScheduler`: interval 3, stale limit 2 and poll 1 keep the order of the defaults (60 s,
3600 s, a day), and the retry delay above the interval takes the `min` of the code on its
other side; one replica starts with a run, the other with a wait; three faults are a failure,
a failure while it is recorded, and a crash or stop besides. `Tickets`: two bookings so that a mix-up of requests would show; two
cancellations so that they race; two faults are a failing step and a failing compensation
of it. `SeatsCache`: three tasks are a loader, a waiter and a newcomer; two keys compete
for one entry; `Locks` is large enough for a free lock object in every state
(`LockAssumption`). `Catalogue`: a page of one event makes two events two pages, an event
can be passed, pulled and pushed, and two times let one move before and behind the other;
two cursors make a walk of three pages and a repetition of each cursor. With three events
and one cursor the same invariants hold (6.4 M states), too many for the liveness check.
`Requests`: two connections are the fewest a run can end with; a run that holds one, a
handler that holds the other and one that queues are the three tasks; two faults are the
step of a request and the step that handles its failure. `Migrations`: one container that
works, one that waits and one that comes later.

### Fairness, and why the code justifies it

A task that can run is run by the event loop; PostgreSQL and the Provider answer or time
out (httpx timeout, `config.py:43`): weak fairness of each task's own steps. Nothing that
*fails* is fair, nor is the manual trigger, nor `Stop`. `EventSync`: a worker starts a
run again and again unless the last one is recorded as failed (finding 1; an operator may start
one then, and is not assumed to), and the Provider's listing ends: strong fairness of a `FetchPage` that is the last one.
`SyncScheduler`: time passes, and a stopped container is started again (`restart:
unless-stopped`, `src/compose.yaml:42`). `Tickets`: `CancelHeals` is about a client that
keeps asking: strong fairness of `BeginCancel`. `SeatsCache`: a load ends. `Catalogue`: only
the run's own steps; nothing is assumed of the Provider's answers. `Requests`: the pool serves
those who wait in order (strong fairness of `CheckOut`, since others may take the connection
that came free) and, as above, a listing ends. `Migrations`: PostgreSQL grants the lock in
the order of the requests (strong fairness of `Lock`), and a container that failed is started
again.

## 4. Proofs

`EventSyncProofs` proves, for every set of events, any number of replicas, every batch
size, overlap, day length and clock lag, under
`Setting == ~LockCanBeLost /\ Lag <= Overlap`, which `TypeCorrect` alone does not need:

| Theorem | States |
|---|---|
| `TypeCorrect` | `Spec => []TypeOK`, without `Setting` |
| `Invariance` | `Setting => (Spec => []Inv)`, and so the others |
| `OneRunAtATime` | `Spec => []MutualExclusion` |
| `LossNeedsMidnight` | `Spec => []LostOnlyAcrossMidnight` |
| `RowsNeverRegress` | `Spec => NeverRegresses` |
| `WatermarkNeverRegresses` | `Spec => WatermarkMonotone` |

Both halves of `Setting` are needed: without the first `MutualExclusion` is false (finding
3) and with it everything that rests on serial runs; with a Provider further behind than
the overlap, a change stamped just before a run started can fall out of the next window.
`ClockAssumption`, `BatchAssumption` and the others are the ASSUMEs of `EventSync`.

The argument. None of these is inductive. `Inv` adds: a run under way holds the lock
(`Exclusive`), so at most one run holds data; outside its loop a run holds none (`Quiet`);
in the loop the batch is below its size and empty when its count is 0 (`Batched`);
versions only move from the Provider to a page, from there to a batch and to the table,
so that row <= batch <= page <= Provider wherever they are defined (`Fresh`) — this is
what `NeverRegresses` follows from; the watermark a run read is still the stored one and
at most `latest`, which is at most now (`WatermarkPast`); and, the heart of it, for every
change the catalogue lacks while a run is at work: it is on the page, or in the batch, or
was stamped after the run started, or is owed by a page to come (`Covered`). When the run
completes, only changes stamped after its start are left, and unless the watermark crossed
midnight they are in the next window (`StampedSince`, `WindowMonotone`).

`CatalogueCopyProofs` proves two more, under the same `Setting`:

| Theorem | States |
|---|---|
| `RunIsAnnounced` | `Spec => []Announced` |
| `CopyIsImplemented` | `Spec => ImplementsCopy`, that is, `EventSync` implements `CatalogueCopy` |

`Inv` does not speak of the status, and the refinement needs that a run stores rows and
records a success only while the status is its own `running`. `Announced` says so; it is
inductive together with `Exclusive`, since while one run moves the others are idle
(`OthersIdle`, `OneMoves`, `RunMoves`). With it each action maps to one of `CatalogueCopy` or
to a stutter: `ChangeImplements`, `WriteImplements` (from `Fresh`), `SuccessImplements` (from
`WatermarkPast`), and `RunImplements` for the steps of a run, put together by `StepImplements`.

`TypeOK` is not inductive either: a batch it allows may already be full when the next event is
taken. `TypeInv` adds that a run in its loop has room for one (`Room`) and that the
Provider's clock, which is behind, stamps no change before time 1 (`ClockAhead`). No part of it
speaks of the lock, so `TypeCorrect` holds whether or not runs exclude each other.

In `EventSyncProofs` there is one lemma per action, `Retire` for all the steps by which a run
drops its data; `InvNext` puts them together. TLC checks `Inv` in `EventSync_safety`.

### The other components

Each of these proves its theorems for every value of the constants that the ASSUMEs of the
module allow, without a setting. `MaxFaults` is any natural number, so failures are not
bounded in what follows. Every safety property the runs check is a theorem, and TLC checks
each `Inv`, of which the type invariant `TypeOK` is the first conjunct, in the run of its
module.

| Module | Theorems, each `Spec => []Inv` first | For every |
|---|---|---|
| `SyncSchedulerProofs` | `TypeCorrect`, `RunsAreRecorded` (`RunIsRecorded`), `LockIsHeldByRun` (`LockHeldByRun`), `NoRunComesEarly` (`NoEarlyRepeat`), `ServiceIsImplemented` (`ImplementsRunService`) | set of replicas, interval, stale limit, retry delay and poll |
| `TicketsProofs` | `TypeCorrect`, `CancelledStaysReleased` (`CancelledIsReleased`), `OrphansAreOnRecord` (`NoSilentOrphan`), `ActiveTicketIsReal` (`ActiveIsRegistered`) | set of bookings and of cancelling clients |
| `SeatsCacheProofs` | `TypeCorrect`, `StampedeIsExplained` (`SingleFlightUnlessDisturbed`), `LocksAreReclaimed` (`NoLockLeaks`) | finite set of keys and of tasks, TTL and size |
| `MigrationsProofs` | `TypeCorrect`, `NoUpgradeIsRefused` (`UpgradeNeverRefused`), `SchemaIsWhole` (`ServesOnWholeSchema`) | set of containers |
| `CatalogueProofs` | `TypeCorrect`, `RunSavesAll` (`EveryItemSaved`), `LastPageIsRead` (`EndsAtLastPage`), `NothingIsSkipped` (`NoSkip`), `NothingIsRepeated` (`NoRepeat`) | finite set of events, times, cursors, page size |
| `RequestsProofs` | `TypeCorrect`, `StatusIsTrue` (`StatusTellsOutcome`), `PoolIsAskedFirst` (`QueuesFirst`), `ErrorsOfTheProviderAreItsOwn` (`ProviderErrorsAreNotOurs`) | finite set of requests at hand, pool size |

*SyncScheduler.* `RunHasOwner` ties the phase of a run to the task that holds the local
lock, so that whatever ends the task ends the run; `Justified` says that a worker about to
run has read a row that calls for it or is in `overtaken`, and that is `NoEarlyRepeat`. The
refinement maps each action to a step of `RunService` or a stutter (`StepImplements`).

*Tickets.* The three properties compare two stores, and what keeps them apart from each
other is in flight or in somebody's hands. `OwnRequests` and `StrayRequests` say of each
request in flight whose it is and, if it was given up, what the table and `mishaps` say;
`CreateKnows` and `CancelKnows` that what a handler has been told still holds when it acts
on it; `LossIsKnown` who knows of an active row without a registration. A late `register` is
harmless because it is given up only with the booking, which then has no row.

*SeatsCache.* `Owners` and `Queues` are the state of the `asyncio.Lock`s; `LockHasKey` that
no lock serves two keys; `LockShared` that the tasks of a key have the lock that is in the
table, unless the key is `disturbed`. Two loads of an undisturbed key would then own one
lock. That there is a free lock object for a newcomer (`NewLockIsNew`) is counted from
`LockAssumption`.

*Migrations.* `Progress`: the transaction that upgrades has made what it is not yet to make,
on an empty schema, and nobody else has made anything; so no name it creates is there
already.

*Catalogue.* `QueuedUntilSaved` is all that `EveryItemSaved` needs. `EndsAtLastPage` is a
lemma about data: an answer whose cursor is null although one is offered is shadowed
(`NothingMissed`). For the listing, `Ahead(e)` is the number of events before `e` and `Shown`
what the pages so far could show. `ListingOrder` and `PlaceInListing` prove by bijections
that a sorted listing has `e` at place `Ahead(e) + 1`, hence on page `p` exactly if
`(p - 1) * PageSize <= Ahead(e) < p * PageSize` (`OnPage`). `WrittenAhead` is the reason for
the history variables: `Ahead(e)` grows only as `e` joins `lowered` and shrinks only as it joins
`raised`. So `GivenSoFar` is inductive, and at the last page `CountHolds` puts every event that
is not in `pushed` before its end.

*Requests.* `OnCourse` is the way of each kind of request with the connections of each place,
from which the pool properties follow; `SoFar` is what a ticket request has done until it is
answered, and that no status is set before something has been answered or has failed, so that
no later step replaces one (`FirstErrorStays`). The bound on the pool is counted (`PoolBound`): `CheckedOut` is the set of
connections, one pair of a task and a number each. `ProviderStatuses` computes the statuses
along the class hierarchy. Each action is an `AnswerStep` or a `MoveStep`.

The assumptions beyond types and distinct names: keys, tasks, requests and events are
finite (a process has finitely many of each; `Cardinality` says nothing otherwise), there is
at least one event id (`FiniteAssumption` of `EventList`: the first page is asked for even of
an empty table, and `TypeOK` counts pages by events), and there are lock objects for all
(`LockAssumption`).

### Only model-checked

- Liveness: `Converges`, `StaleRunRecovered`, `KeepsSyncing`, `StopCompletes`, `CancelHeals`,
  `CallsReturn`, `EveryContainerServes`, `WalkEnds`, `Answered`. The prover has no rule for
  fairness, nor for ENABLED.
- The properties the code violates (section 3, findings): a counterexample is the proof.
- `EventSync` with `LockCanBeLost` or a lag beyond the overlap: of these only `TypeCorrect` is
  proved and `Converges` (with the former) checked; `MutualExclusion` is false.

## 5. Not modelled

- The fields of requests, responses, rows and Provider items, and their validation
  (`api/schemas.py`, the models of `provider/client.py`): an input is valid or is an error.
- The shapes of a seats answer and the removal of duplicates in it; the rewriting of
  pagination links to the configured host (`_safe_pagination_url`), of which only the outcomes
  are kept: a request, a link to another host (`nonsense`), or an unusable one. Where a string
  turns out to be unusable, and which status would be right then, is left open. An answer the
  interpreter itself fails on (JSON nested too deeply, memory) is left out.
- `seconds_until_due` of a stale run is 0 again and again while the run lives, so the worker
  loops without a pause; how fast a loop turns is not a property of states.
- `invalidate` of the cache from outside, `downgrade` and the offline mode of the migrations:
  nothing in the repository calls them.
- Settings, logging, `Dockerfile`, CI: no protocol.
- Cancellation of handler tasks: FastAPI does not cancel them on disconnect; a killed
  process is `Crash`.
- What is split between modules: `Requests` knows one ticket per request (two requests about
  one ticket are in `Tickets`), and `Catalogue` keeps a listing of one run (two runs, failures
  of the table and what the window leaves out are in `EventSync`).

## 6. Plan

1. *(done)* `EventSync`, `EventSyncProofs`, `SyncScheduler`, `Tickets`, `SeatsCache`.
2. *(done)* `Paginator`, `EventList` and their composition `Catalogue`; `Requests` with the
   pool, the outcome of Provider requests and the HTTP statuses; `Migrations`.
3. *(done)* `RunService`, `CatalogueCopy`; `CatalogueCopyProofs`.
4. *(done)* Proofs of the safety of `SyncScheduler` (with `ImplementsRunService`), `Tickets`,
   `SeatsCache`, `Migrations`, `Catalogue` and `Requests`.
5. *(done)* Type correctness of `EventSync` without `Setting`.
6. An abstract cache that returns a value no older than its TTL, with several loads
   allowed, which `SeatsCache` implements.
