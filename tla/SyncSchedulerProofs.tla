------------------------- MODULE SyncSchedulerProofs -------------------------
(***************************************************************************)
(* Proofs about SyncScheduler for every value of its constants: any number  *)
(* of replicas, any intervals, and faults without a bound.                 *)
(***************************************************************************)
EXTENDS SyncScheduler, TLAPS

Phases == {"idle", "connecting", "starting", "executing", "unlocking"}

(* No wait is longer than Interval; a worker that need not wait has read a  *)
(* row that is no recent success.                                          *)
LEMMA Due ==
  ASSUME TypeOK
  PROVE  /\ SecondsUntilDue \in 0 .. Interval
         /\ SecondsUntilDue = 0 => status # "success" \/ syncedAge = Interval
<1>1. /\ Interval \in Nat /\ RunningPoll \in Nat /\ RetryDelay \in Nat
      /\ syncedAge \in 0 .. Interval
  BY TimeAssumption DEF TypeOK
<1>2. /\ MinOf(RunningPoll, Interval) \in 0 .. Interval
      /\ DueAfterFailure \in 0 .. Interval
      /\ DueAfterSuccess \in 0 .. Interval
      /\ DueAfterSuccess = 0 => syncedAge = Interval
  BY <1>1 DEF MinOf, DueAfterFailure, DueAfterSuccess
<1>3. status \in {"none", "running", "success", "failed"}
  BY DEF TypeOK
<1> QED BY <1>1, <1>2, <1>3 DEF SecondsUntilDue

-----------------------------------------------------------------------------
LEMMA InvInit == ASSUME Init PROVE Inv
<1> USE DEF Init
<1>1. TypeOK
  BY TimeAssumption DEF TypeOK, Unset, Places
<1>2. RunIsRecorded /\ LockHeldByRun /\ RunHasOwner /\ Justified
  BY ReplicaAssumption DEF RunIsRecorded, LockHeldByRun, RunHasOwner, Justified, AboutToRun
<1> QED BY <1>1, <1>2 DEF Inv

LEMMA TickInv == ASSUME Inv, Tick PROVE Inv'
<1> USE DEF Inv, Tick
<1>1. TypeOK'
  BY TimeAssumption DEF TypeOK, MinOf
<1>2. RunIsRecorded' /\ LockHeldByRun' /\ RunHasOwner'
  BY DEF RunIsRecorded, LockHeldByRun, RunHasOwner
<1>3. Justified'
  BY TimeAssumption DEF TypeOK, Justified, AboutToRun, MinOf
<1> QED BY <1>1, <1>2, <1>3

(* The worker moves on outside a run: to an attempt only when it is called for. *)
LEMMA WorkerMoves ==
  ASSUME Inv, NEW r \in Replicas, NEW place \in Places, NEW delay \in 0 .. Interval,
         worker[r] # "syncing",
         worker' = [worker EXCEPT ![r] = place],
         timer' \in {timer, [timer EXCEPT ![r] = delay]},
         overtaken' \in {overtaken, overtaken \ {r}},
         place = "attempting" => status # "success" \/ syncedAge = Interval,
         overtaken' = overtaken \/ worker[r] # "attempting",
         faults' \in Nat,
         UNCHANGED <<row, lock, stopping, owner, phase>>
  PROVE  Inv'
<1> USE DEF Inv, row
<1>1. TypeOK'
  BY DEF TypeOK
<1>2. RunIsRecorded' /\ LockHeldByRun' /\ RunHasOwner'
  BY DEF TypeOK, RunIsRecorded, LockHeldByRun, RunHasOwner
<1>3. Justified'
  BY DEF TypeOK, RunHasOwner, Justified, AboutToRun
<1> QED BY <1>1, <1>2, <1>3

LEMMA WorkerInv ==
  ASSUME Inv, NEW r \in Replicas,
         Start(r) \/ Loop(r) \/ Decide(r) \/ DecideFails(r) \/ Wake(r)
  PROVE  Inv'
<1>0. /\ Interval \in 0 .. Interval /\ SecondsUntilDue \in 0 .. Interval
      /\ MinOf(RunningPoll, Interval) \in 0 .. Interval
      /\ faults \in Nat
  BY Due, TimeAssumption DEF Inv, TypeOK, MinOf
<1> USE DEF row, store, Goto, Sleep, Places
<1>1. CASE Start(r)
  BY <1>0, <1>1, WorkerMoves DEF Start
<1>2. CASE Loop(r)
  BY <1>0, <1>2, WorkerMoves DEF Loop
<1>3. CASE Decide(r)
  BY <1>0, <1>3, Due, WorkerMoves DEF Decide, Inv
<1>4. CASE DecideFails(r)
  <2>1. /\ worker' = [worker EXCEPT ![r] = "sleeping"]
        /\ timer' = [timer EXCEPT ![r] = MinOf(RunningPoll, Interval)]
        /\ faults' \in Nat
    BY <1>0, <1>4 DEF DecideFails, Fault
  <2> QED BY <1>0, <1>4, <2>1, WorkerMoves DEF DecideFails
<1>5. CASE Wake(r)
  BY <1>0, <1>5, WorkerMoves DEF Wake, AfterWait
<1> QED BY <1>1, <1>2, <1>3, <1>4, <1>5

-----------------------------------------------------------------------------
(* Steps of a run *)

(* A run starts where none is under way. *)
LEMMA EnterInv ==
  ASSUME Inv, NEW r \in Replicas, Attempt(r) \/ Trigger(r)
  PROVE  Inv'
<1> USE DEF Inv, Attempt, Trigger, Enter, Goto, tasks, row, store
<1>1. TypeOK'
  BY DEF TypeOK, Places
<1>2. RunIsRecorded' /\ LockHeldByRun'
  BY DEF TypeOK, RunIsRecorded, LockHeldByRun, RunHasOwner
<1>3. RunHasOwner'
  BY DEF TypeOK, RunHasOwner
<1>4. Justified'
  BY DEF TypeOK, RunHasOwner, Justified, AboutToRun
<1> QED BY <1>1, <1>2, <1>3, <1>4

(* The lock is free, so no other run is past its connection. *)
LEMMA ConnectInv ==
  ASSUME Inv, NEW r \in Replicas, Connect(r)
  PROVE  Inv'
<1> USE DEF Inv, Connect, Reach, tasks, row, store
<1>1. TypeOK'
  BY DEF TypeOK
<1>2. RunIsRecorded' /\ LockHeldByRun'
  BY ReplicaAssumption DEF TypeOK, RunIsRecorded, LockHeldByRun, Acquired
<1>3. RunHasOwner' /\ Justified'
  BY DEF TypeOK, RunHasOwner, Justified, AboutToRun
<1> QED BY <1>1, <1>2, <1>3

(* A run leaves with the lock, or without ever having had it. *)
LEMMA LeaveInv ==
  ASSUME Inv, NEW r \in Replicas, Leave(r), faults' \in Nat, UNCHANGED store,
         \/ phase[r] = "connecting" /\ lock' = lock
         \/ phase[r] = "unlocking" /\ lock' = NoReplica
  PROVE  Inv'
<1> USE DEF Inv, Leave, row, store
<1>1. TypeOK'
  BY DEF TypeOK, Places
<1>2. RunIsRecorded'
  BY DEF TypeOK, RunIsRecorded
<1>3. LockHeldByRun'
  BY ReplicaAssumption DEF TypeOK, LockHeldByRun
<1>4. RunHasOwner' /\ Justified'
  BY DEF TypeOK, RunHasOwner, Justified, AboutToRun
<1> QED BY <1>1, <1>2, <1>3, <1>4

(* The holder of the lock writes the row: no other run is executing. *)
LEMMA WriteInv ==
  ASSUME Inv, NEW r \in Replicas, NEW next \in {"executing", "unlocking"}, Reach(r, next),
         \/ phase[r] = "starting" /\ MarkRunning
         \/ phase[r] = "executing" /\ next = "unlocking"
            /\ \E result \in {"success", "failed"} : MarkEnded(result)
         \/ phase[r] \in {"starting", "executing"} /\ next = "unlocking" /\ UNCHANGED store,
         faults' \in Nat, UNCHANGED <<lock, tasks, owner>>
  PROVE  Inv'
<1> USE DEF Inv, Reach, MarkRunning, MarkEnded, tasks, row, store
<1>1. TypeOK'
  <2>1. 0 \in 0 .. Interval
    BY TimeAssumption
  <2> QED BY <2>1 DEF TypeOK
<1>2. RunIsRecorded'
  BY DEF TypeOK, RunIsRecorded, LockHeldByRun
<1>3. LockHeldByRun' /\ RunHasOwner'
  BY DEF TypeOK, LockHeldByRun, RunHasOwner
<1>4. Justified'
  BY DEF TypeOK, Justified, AboutToRun
<1> QED BY <1>1, <1>2, <1>3, <1>4

LEMMA RunInv ==
  ASSUME Inv, NEW r \in Replicas,
         \/ Rejected(r) \/ ConnectFails(r) \/ Begin(r) \/ BeginFails(r)
         \/ Succeed(r) \/ RunFails(r) \/ StatusLost(r) \/ Unlock(r)
  PROVE  Inv'
<1>0. faults \in Nat /\ (faults' = faults + 1 => faults' \in Nat)
  BY DEF Inv, TypeOK
<1>1. CASE Rejected(r) \/ ConnectFails(r)
  BY <1>0, <1>1, LeaveInv DEF Rejected, ConnectFails, Fault
<1>2. CASE Unlock(r)
  BY <1>0, <1>2, LeaveInv DEF Unlock
<1>3. CASE Begin(r)
  BY <1>0, <1>3, WriteInv DEF Begin
<1>4. CASE BeginFails(r)
  BY <1>0, <1>4, WriteInv DEF BeginFails, AfterEarlyError, Fault
<1>5. CASE Succeed(r)
  BY <1>0, <1>5, WriteInv DEF Succeed
<1>6. CASE RunFails(r) \/ StatusLost(r)
  BY <1>0, <1>6, WriteInv DEF RunFails, StatusLost, Fault
<1> QED BY <1>1, <1>2, <1>3, <1>4, <1>5, <1>6

-----------------------------------------------------------------------------
(* The process *)

LEMMA DownInv ==
  ASSUME Inv, NEW r \in Replicas, Down(r), faults' \in Nat
  PROVE  Inv'
<1> USE DEF Inv, Down, row, store
<1>1. TypeOK'
  BY TimeAssumption DEF TypeOK, Places
<1>2. RunIsRecorded' /\ RunHasOwner' /\ Justified'
  BY DEF TypeOK, RunIsRecorded, RunHasOwner, Justified, AboutToRun
<1>3. LockHeldByRun'
  BY ReplicaAssumption DEF TypeOK, LockHeldByRun
<1> QED BY <1>1, <1>2, <1>3

LEMMA StopInv == ASSUME Inv, NEW r \in Replicas, Stop(r) PROVE Inv'
<1> USE DEF Inv, Stop, Fault, row, store
<1>1. TypeOK'
  BY DEF TypeOK
<1>2. RunIsRecorded' /\ LockHeldByRun' /\ RunHasOwner' /\ Justified'
  BY DEF RunIsRecorded, LockHeldByRun, RunHasOwner, Justified, AboutToRun
<1> QED BY <1>1, <1>2

LEMMA InvNext == ASSUME Inv, [Next]_vars PROVE Inv'
<1>1. CASE UNCHANGED vars
  BY <1>1 DEF vars, store, row, tasks, Inv, TypeOK, RunIsRecorded, LockHeldByRun, RunHasOwner,
              Justified, AboutToRun
<1>2. CASE Tick
  BY <1>2, TickInv
<1>3. ASSUME NEW r \in Replicas, Work(r) PROVE Inv'
  <2>1. CASE Exit(r)
    BY <2>1, DownInv DEF Exit, Inv, TypeOK
  <2> QED BY <1>3, <2>1, WorkerInv, EnterInv, ConnectInv, RunInv DEF Work
<1>4. ASSUME NEW r \in Replicas, Trigger(r) \/ Stop(r) PROVE Inv'
  BY <1>4, EnterInv, StopInv
<1>5. ASSUME NEW r \in Replicas, Fail(r) PROVE Inv'
  <2>1. CASE Crash(r)
    BY <2>1, DownInv DEF Crash, Fault, Inv, TypeOK
  <2> QED BY <1>5, <2>1, WorkerInv, RunInv DEF Fail
<1> QED BY <1>1, <1>2, <1>3, <1>4, <1>5 DEF Next

-----------------------------------------------------------------------------
(* The inductive invariant holds throughout. *)
THEOREM Invariance == Spec => []Inv
<1>1. Init => Inv
  BY InvInit
<1>2. Inv /\ [Next]_vars => Inv'
  BY InvNext
<1> QED BY <1>1, <1>2, PTL DEF Spec

(* Every variable keeps its type: no worker waits longer than Interval. *)
THEOREM TypeCorrect == Spec => []TypeOK
<1>1. Inv => TypeOK
  BY DEF Inv
<1> QED BY <1>1, Invariance, PTL

(* While a run works on the catalogue the row says "running"                *)
(* (SyncEventsUseCase.execute under SyncCoordinator.run).                    *)
THEOREM RunsAreRecorded == Spec => []RunIsRecorded
<1>1. Inv => RunIsRecorded
  BY DEF Inv
<1> QED BY <1>1, Invariance, PTL

(* The advisory lock is held exactly by the run that has it, through        *)
(* rejections, failures, crashes and restarts (SyncCoordinator.run).        *)
THEOREM LockIsHeldByRun == Spec => []LockHeldByRun
<1>1. Inv => LockHeldByRun
  BY DEF Inv
<1> QED BY <1>1, Invariance, PTL

(* No worker begins a run within Interval of a success, unless it had        *)
(* decided before that success (SyncCoordinator.seconds_until_due).         *)
THEOREM NoRunComesEarly == Spec => NoEarlyRepeat
<1>1. Inv /\ [Next]_vars =>
        [\A r \in Replicas :
           owner[r] = "worker" /\ phase[r] = "connecting" /\ phase'[r] = "starting" =>
             status # "success" \/ syncedAge = Interval \/ r \in overtaken]_vars
  BY DEF Inv, Justified, AboutToRun
<1> QED BY <1>1, Invariance, PTL DEF Spec, NoEarlyRepeat

-----------------------------------------------------------------------------
(* The scheduler implements RunService *)

(* Steps that show neither in the lock nor in the status. *)
LEMMA Unseen ==
  ASSUME NEW r \in Replicas,
         \/ Start(r) \/ Loop(r) \/ Decide(r) \/ DecideFails(r) \/ Wake(r)
         \/ Attempt(r) \/ Trigger(r) \/ Rejected(r) \/ ConnectFails(r) \/ Stop(r)
  PROVE  UNCHANGED <<lock, status>>
BY DEF Start, Loop, Decide, DecideFails, Wake, Attempt, Trigger, Rejected, ConnectFails, Stop,
       row, store

(* The run that holds the lock writes the row as RunService lets it. *)
LEMMA WritesImplement ==
  ASSUME Inv, NEW r \in Replicas,
         Begin(r) \/ BeginFails(r) \/ Succeed(r) \/ RunFails(r) \/ StatusLost(r)
  PROVE  Service!Begin(r) \/ Service!Succeed(r) \/ Service!Fail(r) \/ UNCHANGED <<lock, status>>
<1>0. /\ phase[r] \in {"starting", "executing"} => lock = r
      /\ phase[r] = "executing" => status = "running"
  BY DEF Inv, LockHeldByRun, RunIsRecorded
<1> USE DEF row, store
<1>1. CASE Begin(r) \/ BeginFails(r)
  BY <1>0, <1>1 DEF Begin, BeginFails, MarkRunning, Service!Begin
<1>2. CASE Succeed(r) \/ RunFails(r) \/ StatusLost(r)
  BY <1>0, <1>2 DEF Succeed, RunFails, StatusLost, MarkEnded, Service!Succeed, Service!Fail
<1> QED BY <1>1, <1>2

LEMMA StepImplements ==
  ASSUME Inv, [Next]_vars
  PROVE  Service!Next \/ UNCHANGED <<lock, status>>
<1>1. CASE UNCHANGED vars \/ Tick
  BY <1>1 DEF vars, store, row, Tick
<1>2. ASSUME NEW r \in Replicas, Work(r) \/ Trigger(r) \/ Stop(r) \/ Fail(r)
      PROVE  Service!Next \/ UNCHANGED <<lock, status>>
  <2>1. CASE Connect(r)
    BY <2>1 DEF Connect, Acquired, store, row, Service!Take, Service!Next
  <2>2. CASE Unlock(r)
    BY <2>2 DEF Unlock, Inv, LockHeldByRun, store, row, Service!GiveUp, Service!Next
  <2>3. CASE Crash(r) \/ Exit(r)
    BY <2>3 DEF Crash, Exit, Down, store, row, Service!GiveUp, Service!Next
  <2> QED BY <1>2, <2>1, <2>2, <2>3, Unseen, WritesImplement DEF Work, Fail, Service!Next
<1> QED BY <1>1, <1>2 DEF Next

(* Whoever triggers it and whatever fails, a run is the only one, and its   *)
(* status is written by it alone (worker.py over application/sync.py).      *)
THEOREM ServiceIsImplemented == Spec => ImplementsRunService
<1>1. Init => Service!Init
  BY DEF Init, Service!Init
<1>2. Inv /\ [Next]_vars => [Service!Next]_<<lock, status>>
  BY StepImplements
<1> QED BY <1>1, <1>2, Invariance, PTL DEF Spec, ImplementsRunService, Service!Spec

=============================================================================
