---------------------------- MODULE SyncScheduler ----------------------------
(***************************************************************************)
(* When a synchronisation runs, and where: DailySyncWorker and             *)
(* SyncCoordinator (worker.py) on several replicas, POST /api/sync/trigger *)
(* (api/routes.py) and the start and stop of the process (main.py), with   *)
(* the status row of sync_metadata and the PostgreSQL advisory lock they   *)
(* share.  What a run does to the catalogue is in EventSync.               *)
(*                                                                         *)
(* Instants are kept as ages, capped where no comparison of the code tells *)
(* them apart any more, so time itself needs no bound.                     *)
(***************************************************************************)
EXTENDS Integers

CONSTANTS
  Replicas,      \* application processes
  NoReplica,     \* the advisory lock is free
  Interval,      \* SYNC_INTERVAL_SECONDS, in ticks
  StaleLimit,    \* 3600 s: after this a "running" status is not believed
  RunningPoll,   \* 60 s: how often a believed one is looked at
  RetryDelay,    \* 300 s
  OnStartup,     \* those with SYNC_RUN_ON_STARTUP
  ApiTriggers,   \* does anyone call POST /api/sync/trigger?
  Faults,        \* what may go wrong
  MaxFaults      \* bound: how often, in all

FaultKinds == {"run", "status", "database", "crash", "stop"}

ASSUME ReplicaAssumption == NoReplica \notin Replicas
ASSUME TimeAssumption ==
  {Interval, StaleLimit, RunningPoll, RetryDelay} \subseteq Nat \ {0}
ASSUME SwitchAssumption == OnStartup \subseteq Replicas /\ ApiTriggers \in BOOLEAN
ASSUME FaultAssumption == Faults \subseteq FaultKinds /\ MaxFaults \in Nat

VARIABLES
  status,      \* sync_metadata.sync_status, "none" when there is no row
  startedAge,  \* how long ago started_at is
  syncedAge,   \* how long ago last_sync_time is
  overtaken,   \* history: workers that decided to run before the last success
  lock,        \* whose connection holds the advisory lock
  worker,      \* where the worker task of a replica is
  timer,       \* what is left of the wait of the worker
  stopping,    \* _stop_event
  owner,       \* which task holds _local_lock
  phase,       \* how far its run has come
  faults       \* faults so far

row == <<status, startedAge, syncedAge>>
store == <<row, overtaken>>
tasks == <<worker, timer, stopping>>
vars == <<store, lock, tasks, owner, phase, faults>>

Unset == Interval  \* an age nothing reads before it is written

MinOf(a, b) == IF a <= b THEN a ELSE b

Init ==
  /\ status = "none" /\ startedAge = Unset /\ syncedAge = Unset
  /\ overtaken = {}
  /\ lock = NoReplica
  /\ worker = [r \in Replicas |-> "off"]
  /\ timer = [r \in Replicas |-> 0]
  /\ stopping = [r \in Replicas |-> FALSE]
  /\ owner = [r \in Replicas |-> "none"]
  /\ phase = [r \in Replicas |-> "idle"]
  /\ faults = 0

Fault(kind) ==
  /\ kind \in Faults
  /\ faults < MaxFaults
  /\ faults' = faults + 1

Tick ==
  /\ startedAge' = MinOf(startedAge + 1, Interval)
  /\ syncedAge' = MinOf(syncedAge + 1, Interval)
  /\ timer' = [r \in Replicas |-> IF timer[r] > 0 THEN timer[r] - 1 ELSE 0]
  /\ UNCHANGED <<status, overtaken, lock, worker, stopping, owner, phase, faults>>

-----------------------------------------------------------------------------
(* The worker task of replica r *)

Sleep(r, delay) ==
  /\ worker' = [worker EXCEPT ![r] = "sleeping"]
  /\ timer' = [timer EXCEPT ![r] = delay]

Goto(r, place) == worker' = [worker EXCEPT ![r] = place] /\ UNCHANGED timer

Start(r) ==
  /\ worker[r] = "off"
  /\ IF r \in OnStartup THEN Goto(r, "looping") ELSE Sleep(r, Interval)
  /\ UNCHANGED <<store, lock, stopping, owner, phase, faults>>

(* Mutation: stop() cancels nothing and sets no event. *)
StopUnseen(r) == FALSE

StopSeen(r) == stopping[r]

(* while not self._stop_event.is_set() *)
Loop(r) ==
  /\ worker[r] = "looping"
  /\ Goto(r, IF StopSeen(r) THEN "done" ELSE "deciding")
  /\ UNCHANGED <<store, lock, stopping, owner, phase, faults>>

(* Mutation: a status "running" is believed for ever. *)
NeverStale == FALSE

Stale == startedAge >= MinOf(StaleLimit, Interval)

(* Mutation: last_sync_time is not looked at. *)
DueAtOnce == 0

(* Mutation: the time passed is not deducted. *)
DueInAnInterval == Interval

DueAfterSuccess == Interval - syncedAge

DueAfterFailure == MinOf(RetryDelay, Interval)

SecondsUntilDue ==
  CASE status = "none" -> 0
    [] status = "running" -> IF Stale THEN 0 ELSE MinOf(RunningPoll, Interval)
    [] status = "failed" -> DueAfterFailure
    [] status = "success" -> DueAfterSuccess

(* The row is read; run() is called only when the session is closed again. *)
Decide(r) ==
  /\ worker[r] = "deciding"
  /\ IF SecondsUntilDue > 0 THEN Sleep(r, SecondsUntilDue) ELSE Goto(r, "attempting")
  /\ overtaken' = overtaken \ {r}
  /\ UNCHANGED <<row, lock, stopping, owner, phase, faults>>

DecideFails(r) ==
  /\ worker[r] = "deciding"
  /\ Fault("database")
  /\ Sleep(r, MinOf(RunningPoll, Interval))
  /\ UNCHANGED <<store, lock, stopping, owner, phase>>

(* asyncio.wait_for(self._stop_event.wait(), timeout=delay) *)
AfterWait(r) ==
  IF StopSeen(r) THEN "done" ELSE IF timer[r] = 0 THEN "looping" ELSE "sleeping"

Wake(r) ==
  /\ worker[r] = "sleeping"
  /\ AfterWait(r) # "sleeping"
  /\ Goto(r, AfterWait(r))
  /\ UNCHANGED <<store, lock, stopping, owner, phase, faults>>

-----------------------------------------------------------------------------
(* SyncCoordinator.run *)

Enter(r, task) ==
  /\ owner' = [owner EXCEPT ![r] = task]
  /\ phase' = [phase EXCEPT ![r] = "connecting"]

(* _run_once: rejected at once when a request of this replica is running. *)
Attempt(r) ==
  /\ worker[r] = "attempting"
  /\ IF owner[r] = "none"
       THEN Goto(r, "syncing") /\ Enter(r, "worker")
       ELSE Goto(r, "looping") /\ UNCHANGED <<owner, phase>>
  /\ UNCHANGED <<store, lock, stopping, faults>>

(* POST /api/sync/trigger that is not answered 202 at once. *)
Trigger(r) ==
  /\ ApiTriggers
  /\ worker[r] \notin {"off", "done"}
  /\ ~stopping[r]
  /\ owner[r] = "none"
  /\ Enter(r, "api")
  /\ UNCHANGED <<store, lock, tasks, faults>>

(* run() returns or raises: the local lock is free, the worker loops. *)
Leave(r) ==
  /\ worker' = [worker EXCEPT ![r] = IF owner[r] = "worker" THEN "looping" ELSE @]
  /\ owner' = [owner EXCEPT ![r] = "none"]
  /\ phase' = [phase EXCEPT ![r] = "idle"]
  /\ UNCHANGED <<timer, stopping>>

Reach(r, next) == phase' = [phase EXCEPT ![r] = next]

(* Mutation: pg_try_advisory_lock is taken for granted. *)
AcquiredUnchecked == TRUE

Acquired == lock = NoReplica

Connect(r) ==
  /\ phase[r] = "connecting"
  /\ Acquired
  /\ lock' = r
  /\ Reach(r, "starting")
  /\ UNCHANGED <<store, tasks, owner, faults>>

(* SyncInProgressError: the run of another replica holds the lock. *)
Rejected(r) ==
  /\ phase[r] = "connecting"
  /\ ~Acquired
  /\ Leave(r)
  /\ UNCHANGED <<store, lock, faults>>

ConnectFails(r) ==
  /\ phase[r] = "connecting"
  /\ Fault("database")
  /\ Leave(r)
  /\ UNCHANGED <<store, lock>>

MarkRunning ==
  /\ status' = "running"
  /\ startedAge' = 0
  /\ UNCHANGED <<syncedAge, overtaken>>

(* The worker of r has decided to run, and its run has not begun. *)
AboutToRun(r) == worker[r] = "attempting" \/ (owner[r] = "worker" /\ phase[r] = "connecting")

MarkEnded(result) ==
  /\ status' = result
  /\ syncedAge' = 0
  /\ overtaken' = IF result = "success"
                    THEN overtaken \cup {r \in Replicas : AboutToRun(r)}
                    ELSE overtaken
  /\ UNCHANGED startedAge

Begin(r) ==
  /\ phase[r] = "starting"
  /\ MarkRunning
  /\ Reach(r, "executing")
  /\ UNCHANGED <<lock, tasks, owner, faults>>

(* Mutation: the lock is not released when the run raises early. *)
UnlockSkipped == "idle"

AfterEarlyError == "unlocking"

(* metadata.get() or mark_running() raises outside the try block. *)
BeginFails(r) ==
  /\ phase[r] = "starting"
  /\ Fault("database")
  /\ MarkRunning \/ UNCHANGED store
  /\ Reach(r, AfterEarlyError)
  /\ UNCHANGED <<lock, tasks, owner>>

Succeed(r) ==
  /\ phase[r] = "executing"
  /\ MarkEnded("success")
  /\ Reach(r, "unlocking")
  /\ UNCHANGED <<lock, tasks, owner, faults>>

RunFails(r) ==
  /\ phase[r] = "executing"
  /\ Fault("run")
  /\ MarkEnded("failed")
  /\ Reach(r, "unlocking")
  /\ UNCHANGED <<lock, tasks, owner>>

(* The run or mark_success raises, and so does mark_failed: whichever of    *)
(* them wrote last, the COMMIT may have been applied.                        *)
StatusLost(r) ==
  /\ phase[r] = "executing"
  /\ Fault("status")
  /\ UNCHANGED store \/ MarkEnded("failed") \/ MarkEnded("success")
  /\ Reach(r, "unlocking")
  /\ UNCHANGED <<lock, tasks, owner>>

Unlock(r) ==
  /\ phase[r] = "unlocking"
  /\ lock' = NoReplica
  /\ Leave(r)
  /\ UNCHANGED <<store, faults>>

-----------------------------------------------------------------------------
(* The process of replica r *)

(* The process is gone, and with its connection the advisory lock. *)
Down(r) ==
  /\ worker' = [worker EXCEPT ![r] = "off"]
  /\ timer' = [timer EXCEPT ![r] = 0]
  /\ stopping' = [stopping EXCEPT ![r] = FALSE]
  /\ owner' = [owner EXCEPT ![r] = "none"]
  /\ phase' = [phase EXCEPT ![r] = "idle"]
  /\ lock' = IF lock = r THEN NoReplica ELSE lock
  /\ UNCHANGED store

Crash(r) ==
  /\ worker[r] # "off"
  /\ Fault("crash")
  /\ Down(r)

(* Lifespan shutdown begins once the server has no request left. *)
Stop(r) ==
  /\ worker[r] \notin {"off", "done"}
  /\ owner[r] # "api"
  /\ ~stopping[r]
  /\ Fault("stop")
  /\ stopping' = [stopping EXCEPT ![r] = TRUE]
  /\ UNCHANGED <<store, lock, worker, timer, owner, phase>>

(* stop() has awaited the task; the engine is disposed of. *)
Exit(r) ==
  /\ worker[r] = "done"
  /\ Down(r)
  /\ UNCHANGED faults

-----------------------------------------------------------------------------
(* Specification *)

Work(r) ==
  \/ Start(r) \/ Loop(r) \/ Decide(r) \/ Wake(r) \/ Attempt(r)
  \/ Connect(r) \/ Rejected(r) \/ Begin(r) \/ Succeed(r) \/ Unlock(r) \/ Exit(r)

Fail(r) ==
  \/ DecideFails(r) \/ ConnectFails(r) \/ BeginFails(r) \/ RunFails(r)
  \/ StatusLost(r) \/ Crash(r)

Next == Tick \/ \E r \in Replicas : Work(r) \/ Trigger(r) \/ Stop(r) \/ Fail(r)

Spec == Init /\ [][Next]_vars

(* Time passes; the event loop runs a task that can run, and PostgreSQL and *)
(* the Provider answer or time out; a stopped container is started again.   *)
(* Nobody has to call the API, and nothing has to fail.                     *)
WorkerStep(r) == Start(r) \/ Loop(r) \/ Decide(r) \/ Wake(r) \/ Attempt(r) \/ Exit(r)

RunStep(r) == Connect(r) \/ Rejected(r) \/ Begin(r) \/ Succeed(r) \/ Unlock(r)

FairSpec ==
  /\ Spec
  /\ WF_vars(Tick)
  /\ \A r \in Replicas : WF_vars(WorkerStep(r)) /\ WF_vars(RunStep(r))

-----------------------------------------------------------------------------
(* Properties *)

Places == {"off", "looping", "deciding", "sleeping", "attempting", "syncing", "done"}

TypeOK ==
  /\ status \in {"none", "running", "success", "failed"}
  /\ startedAge \in 0 .. Interval /\ syncedAge \in 0 .. Interval
  /\ overtaken \subseteq Replicas
  /\ lock \in Replicas \cup {NoReplica}
  /\ worker \in [Replicas -> Places]
  /\ timer \in [Replicas -> 0 .. Interval]
  /\ stopping \in [Replicas -> BOOLEAN]
  /\ owner \in [Replicas -> {"none", "worker", "api"}]
  /\ phase \in [Replicas -> {"idle", "connecting", "starting", "executing", "unlocking"}]
  /\ faults \in Nat

(* The row says "running" for as long as a run works on the catalogue: no   *)
(* other task or replica can mark its own run as ended in the meantime.     *)
RunIsRecorded == \A r \in Replicas : phase[r] = "executing" => status = "running"

(* The advisory lock is held by a run and only by one, so no lock without a  *)
(* run keeps every replica from synchronising, and no two runs overlap.      *)
LockHeldByRun ==
  \A r \in Replicas : lock = r <=> phase[r] \in {"starting", "executing", "unlocking"}

(* "does not repeat recent sync on restart" (tests/test_worker.py:28): the  *)
(* worker begins no run within Interval of a success, however often the     *)
(* replicas restart, except one that it had decided on before that success. *)
NoEarlyRepeat ==
  [][\A r \in Replicas :
       owner[r] = "worker" /\ phase[r] = "connecting" /\ phase'[r] = "starting" =>
         status # "success" \/ syncedAge = Interval \/ r \in overtaken]_vars

(* Whoever triggers it and whatever fails, a run is the only one and its    *)
(* status is its own: the scheduler implements RunService.                  *)
Service == INSTANCE RunService WITH holder <- lock

ImplementsRunService == Service!Spec

(* A status "running" does not outlive its run for ever: that of a run that *)
(* crashed, or could not record its end, goes stale and is run again.       *)
StaleRunRecovered == (status = "running") ~> (status # "running")

(* Synchronisation never ceases, unless a run is recorded as failed.        *)
KeepsSyncing == []<>(status = "failed" \/ \E r \in Replicas : phase[r] = "executing")

(* stop() returns: the worker notices, after its run, in its sleep, or while *)
(* it keeps being rejected.                                                  *)
StopCompletes == \A r \in Replicas : stopping[r] ~> worker[r] = "off"

(* "the status becomes failed, and the worker tries again" (README.md:104). *)
RetryAfterFailure == (status = "failed") ~> (status # "failed")

-----------------------------------------------------------------------------
(* The invariant the proofs are by induction on *)

(* Behind a run there is a task of its replica that holds the local lock. *)
RunHasOwner ==
  \A r \in Replicas :
    /\ phase[r] # "idle" => owner[r] # "none"
    /\ owner[r] = "worker" => worker[r] = "syncing"

(* A worker about to run read a row that called for it, or has been overtaken. *)
Justified ==
  \A r \in Replicas :
    AboutToRun(r) => status # "success" \/ syncedAge = Interval \/ r \in overtaken

Inv == TypeOK /\ RunIsRecorded /\ LockHeldByRun /\ RunHasOwner /\ Justified

=============================================================================
