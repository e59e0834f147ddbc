------------------------- MODULE CatalogueCopyProofs -------------------------
(***************************************************************************)
(* EventSync implements CatalogueCopy for every value of its constants, in  *)
(* the setting of EventSyncProofs.  What its invariant does not say and the *)
(* refinement needs is that a run works under a status of its own.          *)
(***************************************************************************)
EXTENDS EventSyncProofs

Announced ==
  \A r \in Replicas :
    /\ run[r].pc \in {"iterating", "flushing", "completing"} => status = "running"
    /\ run[r].pc = "failing" => status \in {"running", "success"}

(* While one run is in progress, the others are idle. *)
LEMMA OthersIdle ==
  ASSUME Inv, NEW r \in Replicas, ~At(r, "idle") \/ Acquired
  PROVE  \A s \in Replicas \ {r} : run[s].pc = "idle"
BY ReplicaAssumption DEF Inv, Exclusive, At, Acquired

(* A step of the only run keeps Announced if it does so for that run. *)
LEMMA OneMoves ==
  ASSUME Announced, NEW r \in Replicas,
         \A s \in Replicas \ {r} : run[s].pc = "idle",
         \A s \in Replicas \ {r} : run'[s] = run[s],
         run'[r].pc \in {"iterating", "flushing", "completing"} => status' = "running",
         run'[r].pc = "failing" => status' \in {"running", "success"}
  PROVE  Announced'
BY DEF Announced

(* Every step of a run goes from a phase to one that its status allows. *)
LEMMA RunMoves ==
  ASSUME Inv, Announced, NEW r \in Replicas, Acquire(r) \/ Advance(r) \/ Fail(r)
  PROVE  /\ ~At(r, "idle") \/ Acquired
         /\ \A s \in Replicas \ {r} : run'[s] = run[s]
         /\ run'[r].pc \in {"iterating", "flushing", "completing"} => status' = "running"
         /\ run'[r].pc = "failing" => status' \in {"running", "success"}
<1>0. run \in [Replicas -> RunState]
  BY DEF Inv, TypeOK
<1>1. \A phase \in Phase : Unwinding(phase).pc = phase
  BY UnwindingType
<1> USE DEF At, Announced
<1>2. CASE Acquire(r) \/ Release(r) \/ Crash(r)
  BY <1>0, <1>1, <1>2 DEF Acquire, Release, Crash, IdleRun, Phase
<1>3. CASE ReadMetadata(r) \/ MarkRunning(r)
  BY <1>0, <1>3 DEF ReadMetadata, MarkRunning, RunState
<1>4. ASSUME NEW page \in SUBSET Events, NEW last \in BOOLEAN, FetchPage(r, page, last)
      PROVE  /\ ~At(r, "idle") /\ run'[r].pc = "iterating" /\ status' = "running"
             /\ \A s \in Replicas \ {r} : run'[s] = run[s]
  BY <1>0, <1>4 DEF FetchPage, RunState
<1>5. ASSUME NEW e \in Events, TakeItem(r, e)
      PROVE  /\ ~At(r, "idle") /\ run'[r].pc \in {"iterating", "flushing"}
             /\ status' = "running"
             /\ \A s \in Replicas \ {r} : run'[s] = run[s]
  BY <1>0, <1>5 DEF TakeItem, RunState
<1>6. CASE EndIteration(r) \/ Flush(r)
  BY <1>0, <1>6 DEF EndIteration, Flush, AfterLoop, RunState
<1>7. CASE Complete(r) \/ RecordFailure(r) \/ AbortStart(r) \/ RecordFailureFails(r)
  BY <1>0, <1>1, <1>7 DEF Complete, RecordFailure, AbortStart, RecordFailureFails, Phase
<1>8. CASE FetchFails(r) \/ FlushFails(r)
  BY <1>0, <1>1, <1>8 DEF FetchFails, FlushFails, Phase
<1>9. CASE CompleteFails(r)
  BY <1>0, <1>1, <1>9 DEF CompleteFails, WriteSuccess, Phase
<1> QED BY <1>2, <1>3, <1>4, <1>5, <1>6, <1>7, <1>8, <1>9 DEF Advance, Fail

LEMMA AnnouncedNext == ASSUME Setting, Inv, Announced, [Next]_vars PROVE Announced'
<1>1. CASE UNCHANGED vars \/ Tick \/ LoseLock
  BY <1>1 DEF vars, Tick, LoseLock, Announced
<1>2. ASSUME NEW e \in Events, ChangeEvent(e)
      PROVE  Announced'
  <2>1. \A r \in Replicas : run'[r].pc = run[r].pc
    BY <1>2 DEF ChangeEvent, Inv, TypeOK, RunState
  <2> QED BY <1>2, <2>1 DEF ChangeEvent, Announced
<1>3. ASSUME NEW r \in Replicas, Acquire(r) \/ Advance(r) \/ Fail(r)
      PROVE  Announced'
  BY <1>3, RunMoves, OthersIdle, OneMoves
<1> QED BY <1>1, <1>2, <1>3 DEF Next

(* A run that reads pages, writes batches or ends well has announced itself. *)
THEOREM RunIsAnnounced == ASSUME Setting PROVE Spec => []Announced
<1>1. Init => Announced
  BY UnwindingType DEF Init, Announced, IdleRun, Phase
<1>2. Inv /\ Announced /\ [Next]_vars => Announced'
  BY AnnouncedNext
<1> QED BY <1>1, <1>2, Invariance, PTL DEF Spec

-----------------------------------------------------------------------------
(* Every step is one that CatalogueCopy allows, or leaves all it shows alone *)

Shown == <<lock, status, provider, local, watermark>>

(* A change at the Provider, on the side of the copy. *)
LEMMA ChangeImplements ==
  ASSUME Inv, NEW e \in Events, ChangeEvent(e)
  PROVE  Copy!Change(e)
<1>1. provider \in [Events -> Version] /\ provider'[e] = Stamp(now)
  BY DEF ChangeEvent, Inv, TypeOK
<1>2. provider' = [provider EXCEPT ![e] = provider'[e]]
  BY <1>1 DEF ChangeEvent
<1> QED BY <1>1, <1>2 DEF ChangeEvent, Copy!Change

(* A batch that is written moves rows forward. *)
LEMMA WriteImplements ==
  ASSUME Inv, Announced, NEW r \in Replicas, At(r, "flushing"), local' = Upserted(r),
         UNCHANGED <<lock, status, provider, watermark>>
  PROVE  Copy!Store(r)
<1>1. lock = r /\ status = "running"
  BY DEF Inv, Exclusive, Announced, At
<1>2. local' = [e \in Events |-> local'[e]]
  BY DEF Upserted
<1>3. \A e \in Events : local[e] <= local'[e] /\ local'[e] <= provider[e]
  BY UpsertedRows DEF Inv
<1> QED BY <1>1, <1>2, <1>3 DEF Copy!Store

(* mark_success, applied: the watermark of the run is no older. *)
LEMMA SuccessImplements ==
  ASSUME Inv, Announced, NEW r \in Replicas, At(r, "completing"), WriteSuccess(r),
         UNCHANGED <<lock, provider, local>>
  PROVE  Copy!Finish(r)
<1>1. lock = r /\ status = "running"
  BY DEF Inv, Exclusive, Announced, At
<1>2. watermark <= PreviousWatermark /\ PreviousWatermark \in Nat /\ watermark \in Int
  BY DEF Inv, TypeOK, Version, NoRow, PreviousWatermark, FirstSync
<1>3. PreviousWatermark <= run[r].latest /\ run[r].latest \in Nat
  BY Types DEF Inv, WatermarkPast, At, Working
<1>4. watermark <= watermark'
  BY <1>2, <1>3 DEF WriteSuccess
<1> QED BY <1>1, <1>4 DEF WriteSuccess, Copy!Finish, Copy!Succeed

(* The steps of a run, case by case. *)
LEMMA RunImplements ==
  ASSUME Inv, Announced, NEW r \in Replicas, Acquire(r) \/ Advance(r) \/ Fail(r)
  PROVE  \/ Copy!Store(r) \/ Copy!Finish(r)
         \/ /\ Copy!Take(r) \/ Copy!Begin(r) \/ Copy!Fail(r) \/ Copy!GiveUp(r)
            /\ UNCHANGED Copy!copy
         \/ UNCHANGED Shown
<1>0. ~At(r, "idle") => lock = r
  BY DEF Inv, Exclusive
<1> USE DEF Copy!copy, Shown
<1>1. CASE Acquire(r)
  BY <1>1 DEF Acquire, Acquired, Copy!Take
<1>2. CASE ReadMetadata(r) \/ EndIteration(r)
  BY <1>2 DEF ReadMetadata, EndIteration
<1>3. CASE MarkRunning(r) \/ AbortStart(r)
  BY <1>0, <1>3 DEF MarkRunning, AbortStart, At, Copy!Begin
<1>4. ASSUME NEW page \in SUBSET Events, NEW last \in BOOLEAN, FetchPage(r, page, last)
      PROVE  UNCHANGED Shown
  BY <1>4 DEF FetchPage
<1>5. ASSUME NEW e \in Events, TakeItem(r, e)
      PROVE  UNCHANGED Shown
  BY <1>5 DEF TakeItem
<1>6. CASE Flush(r) \/ FlushFails(r)
  BY <1>6, WriteImplements DEF Flush, FlushFails
<1>7. CASE Complete(r) \/ CompleteFails(r)
  BY <1>7, SuccessImplements DEF Complete, CompleteFails
<1>8. CASE RecordFailure(r)
  BY <1>0, <1>8 DEF RecordFailure, At, Announced, Copy!Fail
<1>9. CASE FetchFails(r) \/ RecordFailureFails(r)
  BY <1>9 DEF FetchFails, RecordFailureFails
<1>10. CASE Release(r) \/ Crash(r)
  BY <1>0, <1>10 DEF Release, Crash, At, Released, Copy!GiveUp
<1> QED BY <1>1, <1>2, <1>3, <1>4, <1>5, <1>6, <1>7, <1>8, <1>9, <1>10 DEF Advance, Fail

LEMMA StepImplements ==
  ASSUME Setting, Inv, Announced, [Next]_vars
  PROVE  Copy!CopyNext \/ UNCHANGED Shown
<1>1. CASE UNCHANGED vars \/ Tick \/ LoseLock
  BY <1>1 DEF vars, Tick, LoseLock, Setting, Shown
<1>2. ASSUME NEW e \in Events, ChangeEvent(e)
      PROVE  Copy!CopyNext
  BY <1>2, ChangeImplements DEF Copy!CopyNext
<1>3. ASSUME NEW r \in Replicas, Acquire(r) \/ Advance(r) \/ Fail(r)
      PROVE  Copy!CopyNext \/ UNCHANGED Shown
  BY <1>3, RunImplements DEF Copy!CopyNext
<1> QED BY <1>1, <1>2, <1>3 DEF Next

(* The synchronisation implements its abstract specification: the catalogue *)
(* follows the Provider forwards, written by one announced run at a time,   *)
(* and the watermark moves with a success alone (SyncEventsUseCase.execute). *)
THEOREM CopyIsImplemented == ASSUME Setting PROVE Spec => ImplementsCopy
<1>1. Init => Copy!CopyInit
  BY DEF Init, Nothing, Copy!CopyInit, Copy!Init
<1>2. Inv /\ Announced /\ [Next]_vars => [Copy!CopyNext]_<<lock, status, Copy!copy>>
  BY StepImplements DEF Shown, Copy!copy
<1> QED BY <1>1, <1>2, Invariance, RunIsAnnounced, PTL DEF Spec, ImplementsCopy, Copy!CopySpec

=============================================================================
