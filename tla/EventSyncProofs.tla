--------------------------- MODULE EventSyncProofs ---------------------------
(***************************************************************************)
(* Proofs about EventSync for every value of its constants: type           *)
(* correctness always, all else as long as PostgreSQL keeps the connection *)
(* of the lock and the Provider's clock is behind the replicas' by no more *)
(* than the overlap.                                                       *)
(***************************************************************************)
EXTENDS EventSync, TLAPS

(* Time does not run backwards through the calendar. *)
LEMMA DayMonotone ==
  ASSUME NEW a \in Nat, NEW b \in Nat, a <= b
  PROVE  Day(a) <= Day(b)
BY ClockAssumption, Z3 DEF Day

(* A window starts no later for an earlier watermark. *)
LEMMA WindowMonotone ==
  ASSUME NEW a \in Nat, NEW b \in Nat, a <= b
  PROVE  /\ WindowStart(a) \in Nat
         /\ WindowStart(a) <= WindowStart(b)
         /\ Day(WindowStart(a)) <= Day(WindowStart(b))
<1>1. /\ WindowStart(a) \in Nat /\ WindowStart(b) \in Nat
      /\ WindowStart(a) <= WindowStart(b)
  BY ClockAssumption DEF WindowStart, MaxOf, FirstSync
<1> QED BY <1>1, DayMonotone

(* What was stamped since instant t is in the window of a watermark t: the *)
(* overlap makes up for the Provider's clock.                              *)
LEMMA StampedSince ==
  ASSUME Lag <= Overlap, NEW t \in Nat, NEW v \in Nat, v >= Stamp(t)
  PROVE  Day(v) >= Day(WindowStart(t))
<1>1. WindowStart(t) \in Nat /\ WindowStart(t) <= v
  BY ClockAssumption DEF WindowStart, MaxOf, FirstSync, Stamp
<1> QED BY <1>1, DayMonotone, ClockAssumption DEF Day

(* A run without data has the type of a run. *)
LEMMA UnwindingType ==
  ASSUME NEW phase \in Phase
  PROVE  /\ Unwinding(phase) \in RunState
         /\ Unwinding(phase).pc = phase
         /\ Unwinding(phase).items = Nothing
         /\ Unwinding(phase).batch = Nothing
         /\ Unwinding(phase).count = 0
         /\ Unwinding(phase).owed = Events
         /\ ~Unwinding(phase).requested /\ ~Unwinding(phase).finished
<1>1. Nothing \in [Events -> Version]
  BY DEF Nothing, Version
<1>2. 0 \in 0 .. BatchSize
  BY BatchAssumption
<1> QED BY <1>1, <1>2 DEF Unwinding, RunState

-----------------------------------------------------------------------------
(* A freshly migrated database and idle replicas satisfy the invariant. *)
THEOREM InvInit == ASSUME Init PROVE Inv
<1> USE DEF Init
<1>1. TypeOK
  <2>1. run \in [Replicas -> RunState]
    BY UnwindingType DEF IdleRun, Phase
  <2>2. provider \in [Events -> Version] /\ local \in [Events -> Version]
    BY DEF Nothing, Version, NoRow, FirstSync
  <2>3. now \in Nat /\ watermark \in Version /\ faults \in Nat
    BY ClockAssumption DEF Version
  <2> QED BY <2>1, <2>2, <2>3 DEF TypeOK
<1>2. ClockAhead /\ Exclusive /\ Quiet /\ Batched
  <2>1. ASSUME NEW r \in Replicas
        PROVE  run[r] = IdleRun /\ run[r].pc = "idle" /\ run[r].batch = Nothing
    BY UnwindingType DEF IdleRun, Phase
  <2> QED BY <2>1, ClockAssumption
          DEF IdleRun, ClockAhead, Exclusive, At, Quiet, Batched
<1>3. Fresh
  <2>1. ASSUME NEW e \in Events
        PROVE  local[e] <= provider[e] /\ provider[e] <= Stamp(now)
    BY ClockAssumption DEF Nothing, NoRow, FirstSync, Stamp
  <2>2. ASSUME NEW e \in Events, NEW r \in Replicas
        PROVE  run[r].items[e] = NoRow /\ run[r].batch[e] = NoRow
    BY UnwindingType DEF IdleRun, Nothing, Phase
  <2> QED BY <2>1, <2>2 DEF Fresh
<1>4. WatermarkPast /\ Covered
  BY ClockAssumption
     DEF WatermarkPast, PreviousWatermark, Covered, Working, FirstSync, IdleRun, Unwinding, NoRow
<1>5. LostOnlyAcrossMidnight
  <2>1. WindowStart(PreviousWatermark) = FirstSync
    BY ClockAssumption DEF WindowStart, PreviousWatermark, MaxOf, FirstSync, NoRow
  <2>2. ASSUME NEW e \in Events, local[e] # provider[e]
        PROVE  Day(provider[e]) >= Day(FirstSync)
    <3>1. provider[e] = FirstSync
      BY <2>2 DEF Nothing
    <3> QED BY <3>1, ClockAssumption DEF Day, FirstSync
  <2> QED BY <2>1, <2>2 DEF LostOnlyAcrossMidnight, NoLostChange
<1> QED BY <1>1, <1>2, <1>3, <1>4, <1>5 DEF Inv

-----------------------------------------------------------------------------
(* A run that gives up, or ends, takes nothing from the invariant. *)
LEMMA Retire ==
  ASSUME Inv, NEW r \in Replicas, NEW phase \in {"idle", "failing", "releasing"},
         run' = [run EXCEPT ![r] = Unwinding(phase)],
         \/ lock' = lock /\ (phase = "idle" \/ ~At(r, "idle"))
         \/ lock' = Released(r) /\ phase = "idle",
         status' \in {"none", "running", "success", "failed"}, faults' \in Nat,
         UNCHANGED <<now, provider, local, watermark, spanned>>
  PROVE  Inv'
<1> USE DEF Inv
<1>1. /\ Unwinding(phase) \in RunState
      /\ Unwinding(phase).pc = phase
      /\ Unwinding(phase).items = Nothing
      /\ Unwinding(phase).batch = Nothing
      /\ Unwinding(phase).count = 0
  BY UnwindingType DEF Phase
<1>2. TypeOK' /\ ClockAhead'
  BY <1>1 DEF TypeOK, ClockAhead, Released
<1>3. Exclusive'
  BY <1>1 DEF TypeOK, Exclusive, At, Released
<1>4. Quiet' /\ Batched'
  BY <1>1 DEF TypeOK, Quiet, Batched
<1>5. Fresh'
  BY <1>1 DEF TypeOK, Fresh, Nothing, Stamp
<1>6. WatermarkPast'
  BY <1>1 DEF TypeOK, WatermarkPast, Working, PreviousWatermark
<1>7. Covered'
  BY <1>1 DEF TypeOK, Covered, Working, Underway, Stamp
<1>8. LostOnlyAcrossMidnight'
  BY DEF LostOnlyAcrossMidnight, NoLostChange, PreviousWatermark
<1> QED BY <1>2, <1>3, <1>4, <1>5, <1>6, <1>7, <1>8

(* The clock moves on: what was stamped before stays before it. *)
LEMMA TickInv == ASSUME Inv, Tick PROVE Inv'
<1> USE DEF Inv, Tick
<1>1. TypeOK' /\ ClockAhead' /\ Exclusive' /\ Quiet' /\ Batched'
  BY ClockAssumption DEF TypeOK, ClockAhead, Exclusive, At, Quiet, Batched
<1>2. Fresh'
  <2>1. Stamp(now) <= Stamp(now') /\ Stamp(now) \in Int /\ Stamp(now') \in Int
    BY ClockAssumption DEF TypeOK, Stamp
  <2>2. \A e \in Events : provider[e] \in Int
    BY DEF TypeOK, Version, NoRow
  <2> QED BY <2>1, <2>2 DEF Fresh
<1>3. WatermarkPast'
  <2>1. \A r \in Replicas : run[r].latest \in Nat
    BY DEF TypeOK, RunState
  <2>2. PreviousWatermark \in Nat
    BY DEF TypeOK, PreviousWatermark, Version, NoRow, FirstSync
  <2> QED BY <2>1, <2>2 DEF TypeOK, WatermarkPast, PreviousWatermark
<1>4. Covered' /\ LostOnlyAcrossMidnight'
  BY DEF Covered, Underway, LostOnlyAcrossMidnight, NoLostChange, PreviousWatermark
<1> QED BY <1>1, <1>2, <1>3, <1>4

(* Types of what the actions read. *)
LEMMA Types ==
  ASSUME TypeOK
  PROVE  /\ now \in Nat /\ PreviousWatermark \in Nat
         /\ \A e \in Events :
              /\ provider[e] \in Int /\ local[e] \in Int
              /\ provider[e] >= NoRow /\ local[e] >= NoRow
         /\ \A r \in Replicas, e \in Events :
              run[r].items[e] \in Int /\ run[r].batch[e] \in Int
         /\ \A r \in Replicas :
              /\ run[r].pc \in Phase /\ run[r].since \in Nat /\ run[r].started \in Nat
              /\ run[r].latest \in Nat /\ run[r].owed \subseteq Events
              /\ run[r].count \in Nat
BY DEF TypeOK, RunState, Version, NoRow, PreviousWatermark, FirstSync

(* A change is in the window of the next run: the watermark is not ahead of *)
(* the replicas' clock, nor the overlap shorter than the Provider's lag.    *)
LEMMA ChangeInv ==
  ASSUME Inv, Lag <= Overlap, NEW e \in Events, ChangeEvent(e)
  PROVE  Inv'
<1> USE DEF Inv, ChangeEvent
<1>1. Stamp(now) \in Nat
  BY ClockAssumption DEF TypeOK, ClockAhead, Stamp
<1>2. /\ run' \in [Replicas -> RunState]
      /\ \A r \in Replicas :
           /\ run'[r].pc = run[r].pc /\ run'[r].since = run[r].since
           /\ run'[r].started = run[r].started /\ run'[r].latest = run[r].latest
           /\ run'[r].items = run[r].items /\ run'[r].batch = run[r].batch
           /\ run'[r].count = run[r].count /\ run'[r].finished = run[r].finished
           /\ run'[r].owed \in {run[r].owed, run[r].owed \ {e}}
  <2>1. run \in [Replicas -> RunState]
    BY DEF TypeOK
  <2>2. run' = [r \in Replicas |->
          IF run[r].requested THEN [run[r] EXCEPT !.owed = @ \ {e}] ELSE run[r]]
    OBVIOUS
  <2> HIDE DEF Inv, ChangeEvent
  <2>3. ASSUME NEW r \in Replicas
        PROVE  [run[r] EXCEPT !.owed = @ \ {e}] \in RunState
    BY <2>1 DEF RunState
  <2>4. run' \in [Replicas -> RunState]
    BY <2>1, <2>2, <2>3
  <2>5. ASSUME NEW r \in Replicas
        PROVE  run'[r] \in {run[r], [run[r] EXCEPT !.owed = @ \ {e}]}
    BY <2>2
  <2> QED BY <2>1, <2>4, <2>5 DEF RunState
<1>3. ASSUME NEW r \in Replicas,
             run[r].pc \in {"idle", "reading", "failing", "releasing", "marking"}
      PROVE  run'[r] = run[r]
  <2>1. ~run[r].requested
    <3>1. CASE run[r].pc = "marking"
      BY <3>1 DEF Quiet
    <3>2. CASE run[r].pc # "marking"
      BY <1>3, <3>2, UnwindingType DEF Quiet, Phase
    <3> QED BY <3>1, <3>2
  <2> QED BY <2>1 DEF TypeOK
<1>4. TypeOK' /\ ClockAhead' /\ Exclusive'
  BY <1>1, <1>2 DEF TypeOK, ClockAhead, Exclusive, At, Version
<1>5. Quiet' /\ Batched'
  <2>1. \A r \in Replicas : run'[r].pc = "marking" => run'[r] = run[r]
    BY <1>2, <1>3
  <2>2. \A r \in Replicas :
          run'[r].pc \in {"idle", "reading", "failing", "releasing"} => run'[r] = run[r]
    BY <1>2, <1>3
  <2>3. Quiet /\ Batched
    OBVIOUS
  <2> HIDE DEF Inv, ChangeEvent
  <2>4. Quiet'
    BY <1>2, <2>1, <2>2, <2>3 DEF Quiet
  <2>5. Batched'
    BY <1>2, <2>3 DEF Batched
  <2> QED BY <2>4, <2>5
<1>6. Fresh'
  BY <1>1, <1>2, Types DEF TypeOK, Fresh, Stamp
<1>7. WatermarkPast'
  BY <1>2 DEF TypeOK, WatermarkPast, PreviousWatermark
<1>8. Covered'
  <2> SUFFICES ASSUME NEW r \in Replicas, NEW f \in Events, ~spanned',
                      local'[f] # provider'[f], run'[r].pc \in Working
               PROVE  Underway(r, f)'
    BY DEF Covered
  <2>1. CASE f = e
    <3>1. provider'[e] = Stamp(now) /\ run[r].started <= now
      BY <1>2, Types DEF TypeOK, WatermarkPast
    <3> QED BY <2>1, <3>1, <1>2, Types, ClockAssumption DEF Underway, Stamp
  <2>2. CASE f # e
    <3>1. Underway(r, f)
      BY <2>2, <1>2 DEF TypeOK, Covered
    <3> QED BY <2>2, <3>1, <1>2 DEF TypeOK, Underway
  <2> QED BY <2>1, <2>2
<1>9. LostOnlyAcrossMidnight'
  <2> SUFFICES ASSUME NEW f \in Events, ~spanned, local[f] # provider'[f]
               PROVE  Day(provider'[f]) >= Day(WindowStart(PreviousWatermark))
    BY DEF LostOnlyAcrossMidnight, NoLostChange, PreviousWatermark
  <2>1. CASE f = e
    <3>1. provider'[e] = Stamp(now) /\ Day(Stamp(now)) >= Day(WindowStart(now))
      BY <1>1, StampedSince, Types DEF TypeOK
    <3>2. Day(WindowStart(PreviousWatermark)) <= Day(WindowStart(now))
      BY WindowMonotone, Types DEF WatermarkPast
    <3>3. /\ Day(WindowStart(PreviousWatermark)) \in Int /\ Day(WindowStart(now)) \in Int
          /\ Day(Stamp(now)) \in Int
      BY <1>1, Types, WindowMonotone, ClockAssumption DEF Day
    <3> QED BY <2>1, <3>1, <3>2, <3>3
  <2>2. CASE f # e
    BY <2>2 DEF TypeOK, LostOnlyAcrossMidnight, NoLostChange
  <2> QED BY <2>1, <2>2
<1> QED BY <1>4, <1>5, <1>6, <1>7, <1>8, <1>9

(* A run starts with no data, and only where no other is under way. *)
LEMMA AcquireInv ==
  ASSUME Inv, NEW r \in Replicas, Acquire(r)
  PROVE  Inv'
<1> USE DEF Inv, Acquire
<1>1. run' = [run EXCEPT ![r] = Unwinding("reading")]
  OBVIOUS
<1>2. /\ Unwinding("reading") \in RunState
      /\ Unwinding("reading").pc = "reading"
      /\ Unwinding("reading").items = Nothing
      /\ Unwinding("reading").batch = Nothing
      /\ Unwinding("reading").count = 0
  BY UnwindingType DEF Phase
<1>3. TypeOK' /\ ClockAhead' /\ Quiet' /\ Batched'
  BY <1>1, <1>2 DEF TypeOK, ClockAhead, Quiet, Batched
<1>4. Exclusive'
  BY <1>1, <1>2, ReplicaAssumption DEF TypeOK, Exclusive, At, Acquired
<1>5. Fresh'
  BY <1>1, <1>2 DEF TypeOK, Fresh, Nothing, Stamp
<1>6. WatermarkPast' /\ Covered' /\ LostOnlyAcrossMidnight'
  BY <1>1, <1>2 DEF TypeOK, WatermarkPast, Working, Covered, Underway, PreviousWatermark,
                    LostOnlyAcrossMidnight, NoLostChange, Stamp
<1> QED BY <1>3, <1>4, <1>5, <1>6

(* The window is fixed: what the catalogue lacks is owed to this run. *)
LEMMA ReadMetadataInv ==
  ASSUME Inv, NEW r \in Replicas, ReadMetadata(r)
  PROVE  Inv'
<1> USE DEF Inv, ReadMetadata, At
<1>1. /\ PreviousWatermark \in Nat /\ WindowStart(PreviousWatermark) \in Nat
      /\ LatestAtStart \in Nat /\ PreviousWatermark <= LatestAtStart
      /\ LatestAtStart = now /\ now \in Nat
  BY Types, WindowMonotone DEF WatermarkPast, LatestAtStart, MaxOf
<1>2. /\ run[r].items = Nothing /\ run[r].batch = Nothing /\ run[r].count = 0
      /\ run[r].owed = Events /\ ~run[r].requested /\ ~run[r].finished
  BY UnwindingType DEF Quiet, Phase
<1>3. /\ run' \in [Replicas -> RunState]
      /\ \A s \in Replicas : s # r => run'[s] = run[s]
      /\ run'[r].pc = "marking" /\ run'[r].since = WindowStart(PreviousWatermark)
      /\ run'[r].started = now /\ run'[r].latest = LatestAtStart
      /\ run'[r].items = run[r].items /\ run'[r].batch = run[r].batch
      /\ run'[r].count = run[r].count /\ run'[r].owed = run[r].owed
      /\ run'[r].requested = run[r].requested /\ run'[r].finished = run[r].finished
  <2> DEFINE state == [run[r] EXCEPT !.pc = "marking",
                                     !.since = WindowStart(PreviousWatermark),
                                     !.started = now, !.latest = LatestAtStart]
  <2>1. run \in [Replicas -> RunState] /\ "marking" \in Phase
    BY DEF TypeOK, Phase
  <2>2. run' = [run EXCEPT ![r] = state]
    BY <2>1 DEF RunState
  <2> HIDE DEF Inv, ReadMetadata
  <2>3. state \in RunState
    BY <1>1, <2>1 DEF RunState
  <2>4. run'[r] = state
    BY <2>1, <2>2
  <2>5. run' \in [Replicas -> RunState] /\ \A s \in Replicas : s # r => run'[s] = run[s]
    BY <2>1, <2>2, <2>3
  <2> QED BY <2>1, <2>4, <2>5 DEF RunState
<1>4. TypeOK' /\ ClockAhead' /\ Exclusive' /\ Quiet' /\ Batched'
  <2>1. TypeOK' /\ ClockAhead'
    BY <1>3 DEF TypeOK, ClockAhead
  <2>2. Exclusive'
    BY <1>3 DEF Exclusive
  <2>3. Quiet'
    BY <1>2, <1>3 DEF Quiet
  <2>4. Batched'
    BY <1>2, <1>3 DEF Batched
  <2> QED BY <2>1, <2>2, <2>3, <2>4
<1>5. Fresh'
  <2>1. \A s \in Replicas : run'[s].items = run[s].items /\ run'[s].batch = run[s].batch
    BY <1>3
  <2>2. UNCHANGED <<now, provider, local>> /\ Fresh
    OBVIOUS
  <2> HIDE DEF Inv, ReadMetadata
  <2> QED BY <2>1, <2>2 DEF Fresh, Stamp
<1>6. WatermarkPast'
  <2>1. UNCHANGED <<now, watermark>> /\ PreviousWatermark' = PreviousWatermark /\ WatermarkPast
    BY DEF PreviousWatermark
  <2> HIDE DEF Inv, ReadMetadata
  <2>2. WindowStart(PreviousWatermark)' = WindowStart(PreviousWatermark)
    BY <2>1 DEF WindowStart
  <2> HIDE DEF PreviousWatermark
  <2>3. ASSUME NEW s \in Replicas, run'[s].pc \in Working
        PROVE  /\ run'[s].since = WindowStart(PreviousWatermark)
               /\ PreviousWatermark <= run'[s].latest /\ run'[s].latest <= now
               /\ run'[s].started <= run'[s].latest
    <3>1. CASE s = r
      BY <1>1, <1>3, <3>1
    <3>2. CASE s # r
      BY <1>3, <2>1, <2>3, <3>2 DEF WatermarkPast
    <3> QED BY <3>1, <3>2
  <2> QED BY <2>1, <2>2, <2>3 DEF WatermarkPast
<1>7. Covered'
  <2> SUFFICES ASSUME NEW s \in Replicas, NEW e \in Events, ~spanned,
                      local[e] # provider[e], run'[s].pc \in Working
               PROVE  Underway(s, e)'
    BY DEF Covered
  <2>1. CASE s = r
    BY <2>1, <1>2, <1>3 DEF LostOnlyAcrossMidnight, NoLostChange, Underway
  <2>2. CASE s # r
    BY <2>2, <1>3 DEF Covered, Underway, Stamp
  <2> QED BY <2>1, <2>2
<1>8. LostOnlyAcrossMidnight'
  BY DEF LostOnlyAcrossMidnight, NoLostChange, PreviousWatermark
<1> QED BY <1>4, <1>5, <1>6, <1>7, <1>8

(* To move a run on is to change its phase and nothing else of any run. *)
LEMMA Moved ==
  ASSUME run \in [Replicas -> RunState], NEW r \in Replicas, NEW phase \in Phase,
         run' = [run EXCEPT ![r].pc = phase]
  PROVE  /\ run' \in [Replicas -> RunState]
         /\ \A s \in Replicas : s # r => run'[s] = run[s]
         /\ run'[r].pc = phase
<1>1. [run[r] EXCEPT !.pc = phase] \in RunState
  BY DEF RunState
<1>2. run' = [run EXCEPT ![r] = [run[r] EXCEPT !.pc = phase]]
  OBVIOUS
<1>3. run'[r] = [run[r] EXCEPT !.pc = phase]
  BY <1>2
<1> QED BY <1>1, <1>2, <1>3 DEF RunState

(* Steps that move a run on and touch neither its data nor the tables. *)
LEMMA PhaseInv ==
  ASSUME Inv, NEW r \in Replicas, MarkRunning(r) \/ EndIteration(r)
  PROVE  Inv'
<1> USE DEF Inv, MarkRunning, EndIteration, At
<1>1. PICK phase \in {"iterating", "flushing", "completing"} :
        /\ run' = [run EXCEPT ![r].pc = phase]
        /\ phase = "iterating" => run[r].pc = "marking"
        /\ run[r].pc \in Working
        /\ phase = "completing" => run[r].count = 0
        /\ phase # "iterating" => run[r].items = Nothing /\ run[r].finished
  BY Types DEF AfterLoop, Working
<1>2. /\ run' \in [Replicas -> RunState]
      /\ \A s \in Replicas : s # r => run'[s] = run[s]
      /\ run'[r].pc = phase /\ run[r].pc \in Working
  <2>1. phase \in Phase
    BY <1>1 DEF Phase
  <2>2. run \in [Replicas -> RunState]
    BY DEF TypeOK
  <2>3. run' = [run EXCEPT ![r].pc = phase] /\ run[r].pc \in Working
    BY <1>1
  <2> HIDE DEF Inv, MarkRunning, EndIteration
  <2> QED BY <2>1, <2>2, <2>3, Moved
<1>3. \A s \in Replicas :
        /\ run'[s].since = run[s].since
        /\ run'[s].started = run[s].started /\ run'[s].latest = run[s].latest
        /\ run'[s].items = run[s].items /\ run'[s].batch = run[s].batch
        /\ run'[s].count = run[s].count /\ run'[s].owed = run[s].owed
        /\ run'[s].finished = run[s].finished
  BY <1>1 DEF TypeOK, RunState
<1>4. TypeOK' /\ ClockAhead'
  BY <1>2 DEF TypeOK, ClockAhead
<1>5. Exclusive' /\ Quiet' /\ Batched'
  BY <1>1, <1>2, <1>3, BatchAssumption DEF Exclusive, Quiet, Batched
<1>6. Fresh' /\ WatermarkPast'
  BY <1>2, <1>3 DEF Fresh, Stamp, WatermarkPast, PreviousWatermark
<1>7. Covered' /\ LostOnlyAcrossMidnight'
  BY <1>2, <1>3 DEF Covered, Underway, Stamp, LostOnlyAcrossMidnight, NoLostChange,
                    PreviousWatermark
<1> QED BY <1>4, <1>5, <1>6, <1>7

(* What was owed is on the page, or still owed. *)
LEMMA FetchPageInv ==
  ASSUME Inv, NEW r \in Replicas, NEW page \in SUBSET Events, NEW last \in BOOLEAN,
         FetchPage(r, page, last)
  PROVE  Inv'
<1> USE DEF Inv
<1>0. /\ run[r].pc = "iterating" /\ run[r].items = Nothing /\ ~run[r].finished
      /\ last => run[r].owed \cap Matching(r) \subseteq page
      /\ UNCHANGED <<now, provider, local, status, watermark, lock, faults, spanned>>
  BY DEF FetchPage, At
<1>1. /\ run' \in [Replicas -> RunState]
      /\ \A s \in Replicas : s # r => run'[s] = run[s]
      /\ run'[r].pc = run[r].pc /\ run'[r].since = run[r].since
      /\ run'[r].started = run[r].started /\ run'[r].latest = run[r].latest
      /\ run'[r].batch = run[r].batch /\ run'[r].count = run[r].count
      /\ run'[r].owed = run[r].owed \ page /\ run'[r].finished = last
      /\ \A e \in Events :
           run'[r].items[e] = IF e \in page THEN provider[e] ELSE NoRow
  <2> DEFINE listed == [e \in Events |-> IF e \in page THEN provider[e] ELSE NoRow]
  <2>1. listed \in [Events -> Version]
    BY DEF TypeOK, Version
  <2>2. \A e \in Events : listed[e] = IF e \in page THEN provider[e] ELSE NoRow
    OBVIOUS
  <2>3. run' = [run EXCEPT ![r].items = listed, ![r].requested = TRUE,
                           ![r].owed = run[r].owed \ page, ![r].finished = last]
    BY DEF FetchPage
  <2> HIDE DEF listed
  <2>4. run[r].owed \ page \in SUBSET Events
    BY DEF TypeOK, RunState
  <2>5. run' \in [Replicas -> RunState]
    <3>1. last \in BOOLEAN /\ TRUE \in BOOLEAN
      OBVIOUS
    <3>2. [run[r] EXCEPT !.items = listed, !.requested = TRUE,
                         !.owed = run[r].owed \ page, !.finished = last] \in RunState
      <4>1. run[r] \in RunState
        BY DEF TypeOK
      <4> HIDE DEF Inv
      <4> QED BY <2>1, <2>4, <3>1, <4>1 DEF RunState
    <3> QED BY <2>3, <3>2 DEF TypeOK
  <2>6. run'[r] = [run[r] EXCEPT !.items = listed, !.requested = TRUE,
                                 !.owed = run[r].owed \ page, !.finished = last]
    BY <2>3 DEF TypeOK
  <2>7. run'[r].items = listed
    BY <2>6 DEF TypeOK, RunState
  <2> QED BY <2>2, <2>3, <2>5, <2>6, <2>7 DEF TypeOK, RunState
<1>2. TypeOK' /\ ClockAhead' /\ Exclusive' /\ Quiet' /\ Batched'
  <2>1. TypeOK' /\ ClockAhead'
    BY <1>0, <1>1 DEF TypeOK, ClockAhead
  <2>2. Exclusive' /\ Quiet' /\ Batched'
    BY <1>0, <1>1 DEF Exclusive, At, Quiet, Batched
  <2> QED BY <2>1, <2>2
<1>3. Fresh'
  <2> SUFFICES ASSUME NEW e \in Events, NEW s \in Replicas
               PROVE  LET item == run'[s].items[e]
                          batched == run'[s].batch[e]
                      IN /\ item # NoRow => local[e] <= item /\ item <= provider[e]
                         /\ batched # NoRow => local[e] <= batched /\ batched <= provider[e]
                         /\ item # NoRow /\ batched # NoRow => batched <= item
    BY <1>0 DEF Fresh, Stamp
  <2>1. CASE s = r
    <3>1. /\ run'[r].items[e] # NoRow => run'[r].items[e] = provider[e]
          /\ run'[r].batch[e] = run[r].batch[e]
      BY <1>1
    <3>2. /\ local[e] <= provider[e] /\ provider[e] \in Int
          /\ run[r].batch[e] # NoRow =>
               local[e] <= run[r].batch[e] /\ run[r].batch[e] <= provider[e]
      BY Types DEF Fresh
    <3> QED BY <2>1, <3>1, <3>2
  <2>2. CASE s # r
    BY <1>0, <2>2, <1>1 DEF Fresh
  <2> QED BY <2>1, <2>2
<1>4. WatermarkPast'
  BY <1>0, <1>1 DEF WatermarkPast, PreviousWatermark
<1>5. Covered'
  <2> SUFFICES ASSUME NEW s \in Replicas, NEW e \in Events, ~spanned,
                      local[e] # provider[e], run'[s].pc \in Working
               PROVE  Underway(s, e)'
    BY <1>0 DEF Covered
  <2>1. CASE s = r
    <3>1. provider[e] # NoRow /\ run[r].items[e] = NoRow
      <4>1. local[e] <= provider[e] /\ local[e] >= NoRow /\ provider[e] \in Int /\ local[e] \in Int
        BY Types DEF Fresh
      <4>2. run[r].items[e] = NoRow
        BY <1>0 DEF Nothing
      <4> QED BY <4>1, <4>2 DEF NoRow
    <3>2. Underway(r, e)
      BY <2>1, <1>0, <1>1 DEF Covered
    <3>3. CASE provider[e] >= Stamp(run[r].started) \/ run[r].batch[e] = provider[e]
      BY <2>1, <3>3, <1>0, <1>1 DEF Underway, Stamp
    <3>4. CASE /\ e \in run[r].owed /\ ~run[r].finished
               /\ Day(provider[e]) >= Day(run[r].since)
      <4>1. e \in Matching(r)
        BY <3>1, <3>4 DEF Matching
      <4>2. CASE e \in page
        BY <2>1, <4>2, <1>0, <1>1 DEF Underway
      <4>3. CASE e \notin page
        BY <2>1, <4>1, <4>3, <3>4, <1>0, <1>1 DEF Underway, Day
      <4> QED BY <4>2, <4>3
    <3> QED BY <3>1, <3>2, <3>3, <3>4 DEF Underway
  <2>2. CASE s # r
    BY <1>0, <2>2, <1>1 DEF Covered, Underway, Stamp
  <2> QED BY <2>1, <2>2
<1>6. LostOnlyAcrossMidnight'
  BY <1>0 DEF LostOnlyAcrossMidnight, NoLostChange, PreviousWatermark
<1> QED BY <1>2, <1>3, <1>4, <1>5, <1>6

(* Taking an item from the page yields a run again. *)
LEMMA Taken ==
  ASSUME run \in [Replicas -> RunState], NEW r \in Replicas,
         NEW items \in [Events -> Version], NEW batch \in [Events -> Version],
         NEW count \in 0 .. BatchSize, NEW latest \in Nat, NEW phase \in Phase,
         run' = [run EXCEPT ![r].items = items, ![r].batch = batch,
                            ![r].count = count, ![r].latest = latest, ![r].pc = phase]
  PROVE  /\ run' \in [Replicas -> RunState]
         /\ \A s \in Replicas : s # r => run'[s] = run[s]
         /\ run'[r] = [run[r] EXCEPT !.items = items, !.batch = batch, !.count = count,
                                    !.latest = latest, !.pc = phase]
<1>1. [run[r] EXCEPT !.items = items, !.batch = batch, !.count = count,
                     !.latest = latest, !.pc = phase] \in RunState
  BY DEF RunState
<1> QED BY <1>1

(* What was on the page is in the batch. *)
LEMMA TakeItemInv ==
  ASSUME Inv, NEW r \in Replicas, NEW e \in Events, TakeItem(r, e)
  PROVE  Inv'
<1> DEFINE version == run[r].items[e]
           items == [run[r].items EXCEPT ![e] = NoRow]
           batch == [run[r].batch EXCEPT ![e] = version]
           latest == IF e \in Undated THEN run[r].latest ELSE MaxOf(run[r].latest, version)
           phase == IF BatchFull(run[r].count + 1) THEN "flushing" ELSE "iterating"
<1>0. /\ run[r].pc = "iterating" /\ version # NoRow
      /\ run' = [run EXCEPT ![r].items = items, ![r].batch = batch,
                           ![r].count = run[r].count + 1, ![r].latest = latest,
                           ![r].pc = phase]
      /\ UNCHANGED <<now, provider, local, status, watermark, lock, faults, spanned>>
  BY DEF TakeItem, At, Inv, TypeOK, RunState
<1> HIDE DEF version, items, batch, latest, phase
<1>1. /\ version \in Nat /\ run[r].count + 1 \in 0 .. BatchSize
      /\ version <= now
  <2>1. version \in Nat /\ version <= provider[e] /\ provider[e] <= Stamp(now)
    BY <1>0, Types DEF Inv, Fresh, TypeOK, RunState, Version, NoRow, version
  <2>2. Stamp(now) <= now /\ Stamp(now) \in Int
    BY Types, ClockAssumption DEF Inv, Stamp
  <2>3. run[r].count + 1 \in 0 .. BatchSize
    BY <1>0, BatchAssumption, Types DEF Inv, Batched
  <2> QED BY <2>1, <2>2, <2>3, Types DEF Inv
<1>2. /\ run' \in [Replicas -> RunState]
      /\ \A s \in Replicas : s # r => run'[s] = run[s]
      /\ run'[r].since = run[r].since /\ run'[r].started = run[r].started
      /\ run'[r].owed = run[r].owed /\ run'[r].finished = run[r].finished
      /\ run'[r].items = items /\ run'[r].batch = batch
      /\ run'[r].count = run[r].count + 1
      /\ run'[r].latest \in {run[r].latest, MaxOf(run[r].latest, version)}
      /\ run'[r].pc \in {"iterating", "flushing"}
      /\ run'[r].pc = "iterating" => ~BatchFull(run[r].count + 1)
  <2>1. run \in [Replicas -> RunState]
    BY DEF Inv, TypeOK
  <2>2. items \in [Events -> Version] /\ batch \in [Events -> Version]
    BY <1>1, <2>1 DEF RunState, Version, items, batch
  <2>3. latest \in Nat /\ latest \in {run[r].latest, MaxOf(run[r].latest, version)}
    BY <1>1, <2>1 DEF RunState, MaxOf, latest
  <2>4. /\ phase \in Phase /\ phase \in {"iterating", "flushing"}
        /\ phase = "iterating" => ~BatchFull(run[r].count + 1)
    BY DEF Phase, phase
  <2>5. /\ run' \in [Replicas -> RunState]
        /\ \A s \in Replicas : s # r => run'[s] = run[s]
        /\ run'[r] = [run[r] EXCEPT !.items = items, !.batch = batch,
                                   !.count = run[r].count + 1, !.latest = latest,
                                   !.pc = phase]
    BY <1>0, <1>1, <2>1, <2>2, <2>3, <2>4, Taken
  <2> QED BY <2>1, <2>3, <2>4, <2>5 DEF RunState
<1>3. \A f \in Events :
        /\ run'[r].items[f] = IF f = e THEN NoRow ELSE run[r].items[f]
        /\ run'[r].batch[f] = IF f = e THEN version ELSE run[r].batch[f]
  <2>1. run[r].items \in [Events -> Version] /\ run[r].batch \in [Events -> Version]
    BY DEF Inv, TypeOK, RunState
  <2> QED BY <1>2, <2>1 DEF items, batch
<1>4. TypeOK' /\ ClockAhead' /\ Exclusive' /\ Quiet'
  <2>1. TypeOK' /\ ClockAhead'
    BY <1>0, <1>2 DEF Inv, TypeOK, ClockAhead
  <2>2. Exclusive'
    BY <1>0, <1>2 DEF Inv, Exclusive, At
  <2>3. Quiet'
    BY <1>2 DEF Inv, Quiet
  <2> QED BY <2>1, <2>2, <2>3
<1>5. Batched'
  <2>1. run[r].count + 1 # 0
    BY Types DEF Inv
  <2>2. run'[r].pc = "iterating" => run'[r].count < BatchSize
    BY <1>2, BatchAssumption, Types DEF Inv, BatchFull
  <2> QED BY <1>2, <2>1, <2>2 DEF Inv, Batched
<1>6. Fresh'
  <2> SUFFICES ASSUME NEW f \in Events, NEW s \in Replicas
               PROVE  LET item == run'[s].items[f]
                          batched == run'[s].batch[f]
                      IN /\ item # NoRow => local[f] <= item /\ item <= provider[f]
                         /\ batched # NoRow => local[f] <= batched /\ batched <= provider[f]
                         /\ item # NoRow /\ batched # NoRow => batched <= item
    BY <1>0 DEF Inv, Fresh, Stamp
  <2>1. CASE s = r
    BY <2>1, <1>3 DEF Inv, Fresh, version
  <2>2. CASE s # r
    BY <1>0, <2>2, <1>2 DEF Inv, Fresh
  <2> QED BY <2>1, <2>2
<1>7. WatermarkPast'
  <2>1. /\ run[r].latest <= run'[r].latest /\ run'[r].latest <= now
        /\ run'[r].latest \in Nat
    BY <1>0, <1>1, <1>2, Types DEF Inv, MaxOf, WatermarkPast, Working
  <2>2. /\ run[r].since = WindowStart(PreviousWatermark) /\ run[r].started <= run[r].latest
        /\ PreviousWatermark <= run[r].latest /\ PreviousWatermark <= now
    BY <1>0 DEF Inv, WatermarkPast, Working
  <2>3. /\ PreviousWatermark <= run'[r].latest /\ run'[r].started <= run'[r].latest
        /\ run'[r].since = WindowStart(PreviousWatermark)
    BY <1>2, <2>1, <2>2, Types DEF Inv
  <2> QED BY <1>0, <1>2, <2>1, <2>2, <2>3 DEF Inv, WatermarkPast, PreviousWatermark
<1>8. Covered'
  <2> SUFFICES ASSUME NEW s \in Replicas, NEW f \in Events, ~spanned,
                      local[f] # provider[f], run'[s].pc \in Working
               PROVE  Underway(s, f)'
    BY <1>0 DEF Covered
  <2>1. CASE s = r
    <3>1. Underway(r, f)
      BY <1>0, <2>1 DEF Inv, Covered, Working
    <3>2. CASE f = e /\ run[r].batch[f] = provider[f]
      <4>1. version = provider[f]
        <5>1. version <= provider[f] /\ (run[r].batch[f] # NoRow => run[r].batch[f] <= version)
          BY <1>0, <3>2 DEF Inv, Fresh, version
        <5>2. provider[f] # NoRow
          BY <3>2, Types DEF Inv, Fresh, NoRow
        <5> QED BY <5>1, <5>2, <3>2, <1>1, Types DEF Inv
      <4> QED BY <1>0, <2>1, <3>2, <4>1, <1>3 DEF Underway
    <3>3. CASE f = e /\ run[r].items[f] = provider[f]
      BY <1>0, <2>1, <3>3, <1>3 DEF Underway, version
    <3> QED BY <2>1, <3>1, <3>2, <3>3, <1>0, <1>2, <1>3 DEF Underway, Stamp
  <2>2. CASE s # r
    BY <1>0, <2>2, <1>2 DEF Inv, Covered, Underway, Stamp
  <2> QED BY <2>1, <2>2
<1>9. LostOnlyAcrossMidnight'
  BY <1>0 DEF Inv, LostOnlyAcrossMidnight, NoLostChange, PreviousWatermark
<1> QED BY <1>4, <1>5, <1>6, <1>7, <1>8, <1>9 DEF Inv

(* What the upsert of a batch does to the table: no row goes back, and a row *)
(* that is still behind was behind, and not in the batch at its newest.      *)
LEMMA UpsertedRows ==
  ASSUME TypeOK, Fresh, NEW r \in Replicas
  PROVE  /\ Upserted(r) \in [Events -> Version]
         /\ \A e \in Events :
              /\ Upserted(r)[e] =
                   IF run[r].batch[e] # NoRow THEN run[r].batch[e] ELSE local[e]
              /\ local[e] <= Upserted(r)[e] /\ Upserted(r)[e] <= provider[e]
              /\ run[r].items[e] # NoRow => Upserted(r)[e] <= run[r].items[e]
              /\ Upserted(r)[e] # provider[e] =>
                   local[e] # provider[e] /\ run[r].batch[e] # provider[e]
<1>1. \A e \in Events :
        Upserted(r)[e] = IF run[r].batch[e] # NoRow THEN run[r].batch[e] ELSE local[e]
  BY DEF Upserted
<1>2. Upserted(r) \in [Events -> Version]
  BY DEF Upserted, TypeOK, RunState
<1>3. ASSUME NEW e \in Events
      PROVE  /\ local[e] <= Upserted(r)[e] /\ Upserted(r)[e] <= provider[e]
             /\ run[r].items[e] # NoRow => Upserted(r)[e] <= run[r].items[e]
             /\ Upserted(r)[e] # provider[e] =>
                  local[e] # provider[e] /\ run[r].batch[e] # provider[e]
  <2>1. /\ local[e] <= provider[e] /\ provider[e] \in Int /\ local[e] \in Int
        /\ local[e] >= NoRow /\ run[r].items[e] \in Int /\ run[r].batch[e] \in Int
    BY Types DEF Fresh
  <2>2. /\ run[r].items[e] # NoRow =>
             local[e] <= run[r].items[e] /\ run[r].items[e] <= provider[e]
        /\ run[r].batch[e] # NoRow =>
             local[e] <= run[r].batch[e] /\ run[r].batch[e] <= provider[e]
        /\ run[r].items[e] # NoRow /\ run[r].batch[e] # NoRow =>
             run[r].batch[e] <= run[r].items[e]
    BY DEF Fresh
  <2> QED BY <1>1, <2>1, <2>2 DEF NoRow
<1> QED BY <1>1, <1>2, <1>3

(* Only the run that holds the lock has rows in hand. *)
LEMMA OthersEmpty ==
  ASSUME Inv, NEW r \in Replicas, ~At(r, "idle"), NEW s \in Replicas, s # r
  PROVE  /\ run[s].pc = "idle"
         /\ run[s].items = Nothing /\ run[s].batch = Nothing
BY UnwindingType DEF Inv, Exclusive, At, Quiet, Phase

(* A write of the batch, whatever becomes of the run. *)
LEMMA WriteBatch ==
  ASSUME Inv, NEW r \in Replicas, At(r, "flushing"), local' = Upserted(r),
         UNCHANGED <<now, provider, watermark, spanned>>
  PROVE  /\ local' \in [Events -> Version]
         /\ \A e \in Events : local[e] <= local'[e] /\ local'[e] <= provider[e]
         /\ LostOnlyAcrossMidnight'
<1>1. \A e \in Events : local'[e] # provider[e] => local[e] # provider[e]
  BY UpsertedRows DEF Inv
<1>2. LostOnlyAcrossMidnight'
  BY <1>1 DEF Inv, LostOnlyAcrossMidnight, NoLostChange, PreviousWatermark
<1> QED BY <1>2, UpsertedRows DEF Inv

(* What was in the batch is in the table. *)
LEMMA FlushInv ==
  ASSUME Inv, NEW r \in Replicas, Flush(r)
  PROVE  Inv'
<1> USE DEF Inv
<1>0. /\ run[r].pc = "flushing" /\ local' = Upserted(r)
      /\ run' = [run EXCEPT ![r].pc = "iterating", ![r].batch = Nothing, ![r].count = 0]
      /\ UNCHANGED <<now, provider, status, watermark, lock, faults, spanned>>
  BY DEF Flush, At
<1>1. /\ run' \in [Replicas -> RunState]
      /\ \A s \in Replicas : s # r => run'[s] = run[s]
      /\ run'[r].pc = "iterating" /\ run'[r].since = run[r].since
      /\ run'[r].started = run[r].started /\ run'[r].latest = run[r].latest
      /\ run'[r].items = run[r].items /\ run'[r].batch = Nothing
      /\ run'[r].count = 0 /\ run'[r].owed = run[r].owed
      /\ run'[r].finished = run[r].finished
  <2>1. /\ Nothing \in [Events -> Version] /\ 0 \in 0 .. BatchSize
        /\ "iterating" \in Phase
    BY BatchAssumption DEF Nothing, Version, Phase
  <2>2. run \in [Replicas -> RunState]
    BY DEF TypeOK
  <2> HIDE DEF Inv
  <2> DEFINE state == [run[r] EXCEPT !.pc = "iterating", !.batch = Nothing, !.count = 0]
  <2>3. state \in RunState
    BY <2>1, <2>2 DEF RunState
  <2>4. run' = [run EXCEPT ![r] = state]
    BY <1>0, <2>2 DEF RunState
  <2>5. run'[r] = state
    BY <2>2, <2>4
  <2>6. run' \in [Replicas -> RunState] /\ \A s \in Replicas : s # r => run'[s] = run[s]
    BY <2>2, <2>3, <2>4
  <2> QED BY <2>2, <2>5, <2>6 DEF RunState
<1>2. /\ local' \in [Events -> Version] /\ LostOnlyAcrossMidnight'
      /\ \A e \in Events : local[e] <= local'[e] /\ local'[e] <= provider[e]
  BY <1>0, WriteBatch DEF At
<1>3. TypeOK' /\ ClockAhead'
  BY <1>0, <1>1, <1>2 DEF TypeOK, ClockAhead
<1>4. Exclusive' /\ Quiet' /\ Batched'
  BY <1>0, <1>1, BatchAssumption DEF Exclusive, At, Quiet, Batched
<1>5. Fresh'
  <2> SUFFICES ASSUME NEW e \in Events, NEW s \in Replicas
               PROVE  LET item == run'[s].items[e]
                          batched == run'[s].batch[e]
                      IN /\ item # NoRow => local'[e] <= item /\ item <= provider[e]
                         /\ batched # NoRow => local'[e] <= batched /\ batched <= provider[e]
                         /\ item # NoRow /\ batched # NoRow => batched <= item
    BY <1>0, <1>2 DEF Fresh, Stamp
  <2>1. CASE s = r
    <3>1. run'[r].items[e] = run[r].items[e] /\ run'[r].batch[e] = NoRow
      BY <1>1 DEF Nothing
    <3>2. run[r].items[e] # NoRow =>
            local'[e] <= run[r].items[e] /\ run[r].items[e] <= provider[e]
      BY <1>0, UpsertedRows DEF Fresh
    <3> QED BY <2>1, <3>1, <3>2
  <2>2. CASE s # r
    <3>1. run'[s].items[e] = NoRow /\ run'[s].batch[e] = NoRow
      BY <2>2, <1>0, <1>1, OthersEmpty DEF At, Nothing
    <3> QED BY <3>1
  <2> QED BY <2>1, <2>2
<1>6. WatermarkPast'
  BY <1>0, <1>1 DEF WatermarkPast, PreviousWatermark, Working
<1>7. Covered'
  <2> SUFFICES ASSUME NEW s \in Replicas, NEW e \in Events, ~spanned,
                      local'[e] # provider[e], run'[s].pc \in Working
               PROVE  Underway(s, e)'
    BY <1>0 DEF Covered
  <2>1. s = r
    BY <1>0, <1>1, OthersEmpty DEF At, Working
  <2>2. local[e] # provider[e] /\ run[r].batch[e] # provider[e]
    BY <1>0, UpsertedRows
  <2>3. Underway(r, e)
    BY <1>0, <2>2 DEF Covered, Working
  <2> QED BY <1>0, <1>1, <2>1, <2>2, <2>3 DEF Underway, Stamp
<1> QED BY <1>2, <1>3, <1>4, <1>5, <1>6, <1>7

(* The batch may have been written although the COMMIT raised. *)
LEMMA FlushFailsInv ==
  ASSUME Inv, NEW r \in Replicas, FlushFails(r)
  PROVE  Inv'
<1> USE DEF Inv
<1>0. /\ run[r].pc = "flushing" /\ local' \in {local, Upserted(r)}
      /\ run' = [run EXCEPT ![r] = Unwinding("failing")] /\ faults' \in Nat
      /\ UNCHANGED <<now, provider, status, watermark, lock, spanned>>
  BY DEF FlushFails, At, Fault, TypeOK
<1>1. CASE local' = local
  BY <1>0, <1>1, Retire DEF At, TypeOK
<1>2. CASE local' = Upserted(r)
  <2>1. /\ Unwinding("failing") \in RunState
        /\ Unwinding("failing").pc = "failing"
        /\ Unwinding("failing").items = Nothing
        /\ Unwinding("failing").batch = Nothing
    BY UnwindingType DEF Phase
  <2>2. /\ run' \in [Replicas -> RunState]
        /\ run'[r] = Unwinding("failing")
        /\ \A s \in Replicas : s # r => run'[s] = run[s]
    BY <1>0, <2>1 DEF TypeOK
  <2>3. /\ local' \in [Events -> Version] /\ LostOnlyAcrossMidnight'
        /\ \A e \in Events : local[e] <= local'[e] /\ local'[e] <= provider[e]
    BY <1>0, <1>2, WriteBatch DEF At
  <2>4. TypeOK' /\ ClockAhead'
    BY <1>0, <2>2, <2>3 DEF TypeOK, ClockAhead
  <2>5. Exclusive' /\ Quiet' /\ Batched'
    BY <1>0, <2>1, <2>2, UnwindingType DEF Exclusive, At, Quiet, Batched, Phase
  <2>6. \A s \in Replicas : run'[s].items = Nothing /\ run'[s].batch = Nothing
    BY <1>0, <2>1, <2>2, OthersEmpty DEF At
  <2>7. Fresh'
    BY <1>0, <2>3, <2>6 DEF Fresh, Nothing, Stamp
  <2>8. \A s \in Replicas : run'[s].pc \notin Working
    BY <1>0, <2>1, <2>2, OthersEmpty DEF At, Working
  <2>9. WatermarkPast' /\ Covered'
    BY <1>0, <2>8 DEF WatermarkPast, Covered, PreviousWatermark
  <2> QED BY <2>3, <2>4, <2>5, <2>7, <2>9
<1> QED BY <1>0, <1>1, <1>2

(* The watermark of a complete run: what the catalogue still lacks was      *)
(* stamped after the run started, so a window that begins on the day the    *)
(* run started, or before, covers it.                                       *)
LEMMA WriteSuccessInv ==
  ASSUME Inv, Lag <= Overlap, NEW r \in Replicas, NEW phase \in {"failing", "releasing"},
         At(r, "completing"), WriteSuccess(r),
         run' = [run EXCEPT ![r] = Unwinding(phase)], faults' \in Nat,
         UNCHANGED <<now, provider, local, lock>>
  PROVE  Inv'
<1> USE DEF Inv, At
<1>1. /\ Unwinding(phase) \in RunState
      /\ Unwinding(phase).pc = phase
      /\ Unwinding(phase).items = Nothing
      /\ Unwinding(phase).batch = Nothing
      /\ Unwinding(phase).count = 0
  BY UnwindingType DEF Phase
<1>2. /\ run' \in [Replicas -> RunState]
      /\ run'[r] = Unwinding(phase)
      /\ \A s \in Replicas : s # r => run'[s] = run[s]
  BY <1>1 DEF TypeOK
<1>3. /\ watermark' = run[r].latest /\ run[r].latest \in Nat /\ run[r].latest <= now
      /\ run[r].started \in Nat /\ PreviousWatermark' = run[r].latest
  BY Types DEF WriteSuccess, WatermarkPast, Working, PreviousWatermark, NoRow
<1>4. TypeOK' /\ ClockAhead'
  <2>1. status' = "success" /\ spanned' \in BOOLEAN
    BY DEF WriteSuccess, TypeOK
  <2> QED BY <1>2, <1>3, <2>1 DEF TypeOK, ClockAhead, Version
<1>5. Exclusive' /\ Quiet' /\ Batched'
  BY <1>1, <1>2 DEF Exclusive, Quiet, Batched
<1>6. Fresh'
  <2>1. \A s \in Replicas : run'[s].items = Nothing /\ run'[s].batch = Nothing
    BY <1>1, <1>2, OthersEmpty
  <2> QED BY <2>1 DEF Fresh, Nothing, Stamp
<1>7. WatermarkPast' /\ Covered'
  <2>1. \A s \in Replicas : run'[s].pc \notin Working
    BY <1>1, <1>2, OthersEmpty DEF Working
  <2> QED BY <1>3, <2>1 DEF WatermarkPast, Covered
<1>8. LostOnlyAcrossMidnight'
  <2> SUFFICES ASSUME NEW e \in Events, ~spanned', local[e] # provider[e]
               PROVE  Day(provider[e]) >= Day(WindowStart(run[r].latest))
    BY <1>3 DEF LostOnlyAcrossMidnight, NoLostChange
  <2>1. provider[e] >= Stamp(run[r].started) /\ provider[e] \in Nat
    <3>1. local[e] <= provider[e] /\ provider[e] \in Int /\ local[e] \in Int /\ local[e] >= NoRow
      BY Types DEF Fresh
    <3>2. provider[e] # NoRow /\ provider[e] \in Nat
      BY <3>1 DEF NoRow
    <3>3. Underway(r, e)
      BY DEF Covered, Working, WriteSuccess
    <3>4. run[r].items[e] = NoRow /\ run[r].batch[e] = NoRow /\ run[r].finished
      BY DEF Quiet, Nothing
    <3> QED BY <3>2, <3>3, <3>4 DEF Underway
  <2>2. Day(provider[e]) >= Day(WindowStart(run[r].started))
    BY <2>1, <1>3, StampedSince
  <2>3. Day(WindowStart(run[r].latest)) <= Day(WindowStart(run[r].started))
    <3>1. /\ Day(WindowStart(run[r].latest)) \in Int
          /\ Day(WindowStart(run[r].started)) \in Int
      BY <1>3, WindowMonotone, ClockAssumption DEF Day
    <3>2. ~(Day(WindowStart(run[r].latest)) > Day(WindowStart(run[r].started)))
      BY Zenon DEF WriteSuccess
    <3> QED BY <3>1, <3>2
  <2>4. /\ Day(provider[e]) \in Int /\ Day(WindowStart(run[r].latest)) \in Int
        /\ Day(WindowStart(run[r].started)) \in Int
    BY <2>1, <1>3, WindowMonotone, ClockAssumption DEF Day
  <2> QED BY <2>2, <2>3, <2>4
<1> QED BY <1>4, <1>5, <1>6, <1>7, <1>8

-----------------------------------------------------------------------------
(* The setting of the theorems: PostgreSQL keeps the connection that holds  *)
(* the lock, and the overlap is no shorter than the Provider's clock is     *)
(* behind.                                                                  *)
Setting == ~LockCanBeLost /\ Lag <= Overlap

(* Every step of a run, a fault or the environment preserves the invariant. *)
THEOREM InvNext == ASSUME Setting, Inv, [Next]_vars PROVE Inv'
<1> USE DEF Setting
<1> SUFFICES ASSUME Next PROVE Inv'
  BY DEF vars, Inv, TypeOK, ClockAhead, Exclusive, At, Quiet, Batched, Fresh, Stamp,
         WatermarkPast, PreviousWatermark, Covered, Underway, LostOnlyAcrossMidnight,
         NoLostChange
<1>1. CASE Tick
  BY <1>1, TickInv
<1>2. ASSUME NEW e \in Events, ChangeEvent(e) PROVE Inv'
  BY <1>2, ChangeInv
<1>3. CASE LoseLock
  BY <1>3 DEF LoseLock
<1>4. ASSUME NEW r \in Replicas, Acquire(r) PROVE Inv'
  BY <1>4, AcquireInv
<1>5. ASSUME NEW r \in Replicas, Advance(r) PROVE Inv'
  <2>1. CASE ReadMetadata(r)
    BY <2>1, ReadMetadataInv
  <2>2. CASE MarkRunning(r) \/ EndIteration(r)
    BY <2>2, PhaseInv
  <2>3. ASSUME NEW page \in SUBSET Events, NEW last \in BOOLEAN, FetchPage(r, page, last)
        PROVE  Inv'
    BY <2>3, FetchPageInv
  <2>4. ASSUME NEW e \in Events, TakeItem(r, e) PROVE Inv'
    BY <2>4, TakeItemInv
  <2>5. CASE Flush(r)
    BY <2>5, FlushInv
  <2>6. CASE Complete(r)
    BY <2>6, WriteSuccessInv DEF Complete, Inv, TypeOK
  <2>7. CASE RecordFailure(r)
    BY <2>7, Retire DEF RecordFailure, At, Inv, TypeOK
  <2>8. CASE Release(r)
    BY <2>8, Retire DEF Release, IdleRun, Inv, TypeOK
  <2> QED BY <1>5, <2>1, <2>2, <2>3, <2>4, <2>5, <2>6, <2>7, <2>8 DEF Advance
<1>6. ASSUME NEW r \in Replicas, Fail(r) PROVE Inv'
  <2> faults' \in Nat \/ UNCHANGED faults
    BY <1>6 DEF Fail, AbortStart, FetchFails, FlushFails, CompleteFails,
                RecordFailureFails, Crash, Fault, Inv, TypeOK
  <2>1. CASE AbortStart(r)
    BY <2>1, Retire DEF AbortStart, At, Fault, Inv, TypeOK
  <2>2. CASE FetchFails(r)
    BY <2>2, Retire DEF FetchFails, At, Fault, Inv, TypeOK
  <2>3. CASE FlushFails(r)
    BY <2>3, FlushFailsInv
  <2>4. CASE CompleteFails(r)
    <3>1. CASE WriteSuccess(r)
      BY <2>4, <3>1, WriteSuccessInv DEF CompleteFails, Fault, Inv, TypeOK
    <3>2. CASE UNCHANGED <<status, watermark, spanned>>
      BY <2>4, <3>2, Retire DEF CompleteFails, At, Fault, Inv, TypeOK
    <3> QED BY <2>4, <3>1, <3>2 DEF CompleteFails
  <2>5. CASE RecordFailureFails(r)
    BY <2>5, Retire DEF RecordFailureFails, At, Fault, Inv, TypeOK
  <2>6. CASE Crash(r)
    BY <2>6, Retire DEF Crash, IdleRun, Fault, Inv, TypeOK
  <2> QED BY <1>6, <2>1, <2>2, <2>3, <2>4, <2>5, <2>6 DEF Fail
<1> QED BY <1>1, <1>2, <1>3, <1>4, <1>5, <1>6 DEF Next

-----------------------------------------------------------------------------
(* The inductive invariant holds throughout. *)
THEOREM Invariance == ASSUME Setting PROVE Spec => []Inv
<1>1. Init => Inv
  BY InvInit
<1>2. Inv /\ [Next]_vars => Inv'
  BY InvNext
<1> QED BY <1>1, <1>2, PTL DEF Spec

(* No two replicas are inside a run at once (SyncCoordinator.run). *)
THEOREM OneRunAtATime == ASSUME Setting PROVE Spec => []MutualExclusion
<1>1. Inv => MutualExclusion
  BY DEF Inv, Exclusive, MutualExclusion
<1> QED BY <1>1, Invariance, PTL

(* A change leaves every later window only after a run that crossed midnight. *)
THEOREM LossNeedsMidnight == ASSUME Setting PROVE Spec => []LostOnlyAcrossMidnight
<1>1. Inv => LostOnlyAcrossMidnight
  BY DEF Inv
<1> QED BY <1>1, Invariance, PTL

(* Who writes the table of events, and who the watermark. *)
LEMMA Writers ==
  ASSUME [Next]_vars
  PROVE  /\ \/ local' = local
            \/ \E r \in Replicas : local' = Upserted(r)
         /\ \/ watermark' = watermark
            \/ \E r \in Replicas : At(r, "completing") /\ watermark' = run[r].latest
<1>1. CASE UNCHANGED vars
  BY <1>1 DEF vars
<1>2. CASE Tick \/ LoseLock \/ \E e \in Events : ChangeEvent(e)
  BY <1>2 DEF Tick, LoseLock, ChangeEvent
<1>3. ASSUME NEW r \in Replicas, Acquire(r) \/ Advance(r)
      PROVE  /\ local' = local \/ local' = Upserted(r)
             /\ watermark' = watermark \/ (At(r, "completing") /\ watermark' = run[r].latest)
  <2>1. CASE Acquire(r) \/ ReadMetadata(r) \/ MarkRunning(r) \/ EndIteration(r)
    BY <2>1 DEF Acquire, ReadMetadata, MarkRunning, EndIteration
  <2>2. CASE \E page \in SUBSET Events, last \in BOOLEAN : FetchPage(r, page, last)
    BY <2>2 DEF FetchPage
  <2>3. CASE \E e \in Events : TakeItem(r, e)
    BY <2>3 DEF TakeItem
  <2>4. CASE Flush(r) \/ Complete(r) \/ RecordFailure(r) \/ Release(r)
    BY <2>4 DEF Flush, Complete, WriteSuccess, RecordFailure, Release
  <2> QED BY <1>3, <2>1, <2>2, <2>3, <2>4 DEF Advance
<1>4. ASSUME NEW r \in Replicas, Fail(r)
      PROVE  /\ local' = local \/ local' = Upserted(r)
             /\ watermark' = watermark \/ (At(r, "completing") /\ watermark' = run[r].latest)
  BY <1>4 DEF Fail, AbortStart, FetchFails, FlushFails, CompleteFails, WriteSuccess,
              RecordFailureFails, Crash
<1> QED BY <1>1, <1>2, <1>3, <1>4 DEF Next

(* The unconditional upsert never takes a row back: runs are serial and every *)
(* page is read from the Provider before the batch it ends up in is written.  *)
THEOREM RowsNeverRegress == ASSUME Setting PROVE Spec => NeverRegresses
<1>1. ASSUME Inv, [Next]_vars, NEW e \in Events
      PROVE  local'[e] >= local[e]
  <2>1. /\ local[e] \in Int
        /\ \A r \in Replicas : Upserted(r)[e] >= local[e]
    BY <1>1, UpsertedRows, Types DEF Inv
  <2>2. local' = local \/ \E r \in Replicas : local' = Upserted(r)
    BY <1>1, Writers
  <2> QED BY <2>1, <2>2
<1>2. Inv /\ [Next]_vars => [\A e \in Events : local'[e] >= local[e]]_vars
  BY <1>1
<1> QED BY <1>2, Invariance, PTL DEF Spec, NeverRegresses

(* The stored watermark never moves back, although every run writes one it   *)
(* computed from what it read before its first request.                      *)
THEOREM WatermarkNeverRegresses == ASSUME Setting PROVE Spec => WatermarkMonotone
<1>1. ASSUME Inv, [Next]_vars
      PROVE  watermark' >= watermark
  <2>1. watermark \in Int /\ watermark <= PreviousWatermark /\ PreviousWatermark \in Nat
    BY <1>1 DEF Inv, TypeOK, Version, NoRow, PreviousWatermark, FirstSync
  <2>2. \/ watermark' = watermark
        \/ \E r \in Replicas : At(r, "completing") /\ watermark' = run[r].latest
    BY <1>1, Writers
  <2>3. \A r \in Replicas : At(r, "completing") =>
          PreviousWatermark <= run[r].latest /\ run[r].latest \in Nat
    BY <1>1, Types DEF Inv, WatermarkPast, At, Working
  <2> QED BY <2>1, <2>2, <2>3
<1>2. Inv /\ [Next]_vars => [watermark' >= watermark]_vars
  BY <1>1
<1> QED BY <1>2, Invariance, PTL DEF Spec, WatermarkMonotone

-----------------------------------------------------------------------------
(* Type correctness needs no exclusion: it holds also of runs side by side,  *)
(* after a connection of the lock was lost, and however far the Provider's   *)
(* clock is behind.                                                          *)

(* A run that may take an event has room for it in its batch. *)
Room ==
  \A r \in Replicas :
    run[r].pc \in {"reading", "marking", "iterating"} => run[r].count < BatchSize

TypeInv == TypeOK /\ ClockAhead /\ Room

(* A step that changes the run of r alone. *)
LEMMA RunTyped ==
  ASSUME TypeInv, NEW r \in Replicas, NEW state \in RunState,
         run' = [run EXCEPT ![r] = state],
         state.pc \in {"reading", "marking", "iterating"} => state.count < BatchSize
  PROVE  run' \in [Replicas -> RunState] /\ Room'
BY DEF TypeInv, TypeOK, Room

(* A run that begins, or drops its data. *)
LEMMA UnwindTyped ==
  ASSUME TypeInv, NEW r \in Replicas, NEW phase \in Phase,
         run' = [run EXCEPT ![r] = Unwinding(phase)]
  PROVE  run' \in [Replicas -> RunState] /\ Room'
<1>1. Unwinding(phase) \in RunState /\ Unwinding(phase).count = 0
  BY UnwindingType
<1>2. 0 < BatchSize
  BY BatchAssumption
<1> QED BY <1>1, <1>2, RunTyped

(* The table of events after a batch is written. *)
LEMMA UpsertedType ==
  ASSUME TypeOK, NEW r \in Replicas
  PROVE  Upserted(r) \in [Events -> Version]
BY DEF TypeOK, RunState, Upserted

LEMMA TypeInvChange ==
  ASSUME TypeInv, NEW e \in Events, ChangeEvent(e)
  PROVE  TypeInv'
<1>1. Stamp(now) \in Version /\ provider' \in [Events -> Version]
  BY ClockAssumption DEF TypeInv, TypeOK, ClockAhead, Stamp, Version, ChangeEvent
<1>2. /\ run \in [Replicas -> RunState]
      /\ run' = [r \in Replicas |->
           IF run[r].requested THEN [run[r] EXCEPT !.owed = @ \ {e}] ELSE run[r]]
  BY DEF TypeInv, TypeOK, ChangeEvent
<1>3. ASSUME NEW r \in Replicas
      PROVE  run'[r] \in RunState /\ run'[r].pc = run[r].pc /\ run'[r].count = run[r].count
  <2>1. /\ [run[r] EXCEPT !.owed = @ \ {e}] \in RunState
        /\ [run[r] EXCEPT !.owed = @ \ {e}].pc = run[r].pc
        /\ [run[r] EXCEPT !.owed = @ \ {e}].count = run[r].count
    BY <1>2 DEF RunState
  <2> QED BY <1>2, <2>1
<1>4. run' \in [Replicas -> RunState]
  BY <1>2, <1>3
<1>5. UNCHANGED <<now, local, status, watermark, lock, faults, spanned>>
  BY DEF ChangeEvent
<1> QED BY <1>1, <1>3, <1>4, <1>5 DEF TypeInv, TypeOK, ClockAhead, Room

(* The steps of a live run. *)
LEMMA TypeInvAdvance ==
  ASSUME TypeInv, NEW r \in Replicas, Advance(r)
  PROVE  TypeInv'
<1>0. /\ run \in [Replicas -> RunState] /\ run[r] \in RunState
      /\ now \in Nat /\ PreviousWatermark \in Nat /\ run[r].latest \in Nat
  BY Types DEF TypeInv, TypeOK
<1>1. CASE ReadMetadata(r)
  <2> DEFINE state == [run[r] EXCEPT !.pc = "marking",
                                     !.since = WindowStart(PreviousWatermark),
                                     !.started = now, !.latest = LatestAtStart]
  <2>1. WindowStart(PreviousWatermark) \in Nat /\ LatestAtStart \in Nat
    BY <1>0, WindowMonotone DEF LatestAtStart, MaxOf
  <2>2. run' = [run EXCEPT ![r] = state]
    BY <1>0, <1>1 DEF ReadMetadata, RunState
  <2>3. state \in RunState /\ state.count = run[r].count
    BY <1>0, <2>1 DEF RunState, Phase
  <2>4. run[r].count < BatchSize
    BY <1>1 DEF ReadMetadata, At, TypeInv, Room
  <2> HIDE DEF state
  <2>5. run' \in [Replicas -> RunState] /\ Room'
    BY <2>2, <2>3, <2>4, RunTyped
  <2> QED BY <1>1, <2>5 DEF ReadMetadata, TypeInv, TypeOK, ClockAhead
<1>2. CASE MarkRunning(r)
  <2> DEFINE state == [run[r] EXCEPT !.pc = "iterating"]
  <2>1. run' = [run EXCEPT ![r] = state]
    BY <1>0, <1>2 DEF MarkRunning, RunState
  <2>2. state \in RunState /\ state.count = run[r].count
    BY <1>0 DEF RunState, Phase
  <2>3. run[r].count < BatchSize
    BY <1>2 DEF MarkRunning, At, TypeInv, Room
  <2> HIDE DEF state
  <2>4. run' \in [Replicas -> RunState] /\ Room'
    BY <2>1, <2>2, <2>3, RunTyped
  <2> QED BY <1>2, <2>4 DEF MarkRunning, TypeInv, TypeOK, ClockAhead
<1>3. ASSUME NEW page \in SUBSET Events, NEW last \in BOOLEAN, FetchPage(r, page, last)
      PROVE  TypeInv'
  <2> DEFINE items == [e \in Events |-> IF e \in page THEN provider[e] ELSE NoRow]
  <2> DEFINE state == [run[r] EXCEPT !.items = items, !.requested = TRUE,
                                     !.owed = @ \ page, !.finished = last]
  <2>1. items \in [Events -> Version]
    BY DEF TypeInv, TypeOK, Version
  <2>2. run' = [run EXCEPT ![r] = state]
    BY <1>0, <1>3 DEF FetchPage, RunState
  <2> HIDE DEF items
  <2>3. state \in RunState /\ state.count = run[r].count
    BY <1>0, <2>1 DEF RunState
  <2>4. run[r].count < BatchSize
    BY <1>3 DEF FetchPage, At, TypeInv, Room
  <2> HIDE DEF state
  <2>5. run' \in [Replicas -> RunState] /\ Room'
    BY <2>2, <2>3, <2>4, RunTyped
  <2> QED BY <1>3, <2>5 DEF FetchPage, TypeInv, TypeOK, ClockAhead
<1>4. ASSUME NEW e \in Events, TakeItem(r, e)
      PROVE  TypeInv'
  <2> DEFINE version == run[r].items[e]
  <2> DEFINE state == [run[r] EXCEPT
        !.items[e] = NoRow, !.batch[e] = version, !.count = @ + 1,
        !.latest = IF e \in Undated THEN @ ELSE MaxOf(@, version),
        !.pc = IF BatchFull(run[r].count + 1) THEN "flushing" ELSE @]
  <2>1. /\ run' = [run EXCEPT ![r] = state] /\ run[r].pc = "iterating"
        /\ version # NoRow /\ UNCHANGED <<now, provider, local, status, watermark, lock, faults, spanned>>
    BY <1>0, <1>4 DEF TakeItem, At, RunState
  <2>2. version \in Nat
    BY <1>0, <2>1 DEF RunState, Version
  <2>3. run[r].count < BatchSize /\ run[r].count \in Nat /\ BatchSize \in Nat
    BY <1>0, <2>1, BatchAssumption DEF TypeInv, Room, RunState
  <2>4. MaxOf(run[r].latest, version) \in Nat
    BY <1>0, <2>2 DEF MaxOf
  <2>5. run[r].count + 1 \in 0 .. BatchSize
    BY <2>3
  <2>6. state \in RunState
    BY <1>0, <2>2, <2>4, <2>5 DEF RunState, Phase, Version, NoRow
  <2>7. /\ state.count = run[r].count + 1
        /\ state.pc = IF BatchFull(run[r].count + 1) THEN "flushing" ELSE "iterating"
    BY <1>0, <2>1 DEF RunState
  <2> HIDE DEF state
  <2>8. state.pc \in {"reading", "marking", "iterating"} => state.count < BatchSize
    BY <2>3, <2>7 DEF BatchFull
  <2>9. run' \in [Replicas -> RunState] /\ Room'
    BY <2>1, <2>6, <2>8, RunTyped
  <2> QED BY <2>1, <2>9 DEF TypeInv, TypeOK, ClockAhead
<1>5. CASE EndIteration(r)
  <2> DEFINE state == [run[r] EXCEPT !.pc = AfterLoop(run[r].count)]
  <2>1. run' = [run EXCEPT ![r] = state]
    BY <1>0, <1>5 DEF EndIteration, RunState
  <2>2. state \in RunState /\ state.pc \in {"flushing", "completing"}
    BY <1>0 DEF RunState, Phase, AfterLoop
  <2> HIDE DEF state
  <2>3. run' \in [Replicas -> RunState] /\ Room'
    BY <2>1, <2>2, RunTyped
  <2> QED BY <1>5, <2>3 DEF EndIteration, TypeInv, TypeOK, ClockAhead
<1>6. CASE Flush(r)
  <2> DEFINE state == [run[r] EXCEPT !.pc = "iterating", !.batch = Nothing, !.count = 0]
  <2>1. run' = [run EXCEPT ![r] = state]
    BY <1>0, <1>6 DEF Flush, RunState
  <2>2. Nothing \in [Events -> Version] /\ 0 \in 0 .. BatchSize /\ 0 < BatchSize
    BY BatchAssumption DEF Nothing, Version
  <2>3. state \in RunState /\ state.count = 0
    BY <1>0, <2>2 DEF RunState, Phase
  <2> HIDE DEF state
  <2>4. run' \in [Replicas -> RunState] /\ Room'
    BY <2>1, <2>2, <2>3, RunTyped
  <2>5. local' \in [Events -> Version]
    BY <1>6, UpsertedType DEF Flush, TypeInv
  <2> QED BY <1>6, <2>4, <2>5 DEF Flush, TypeInv, TypeOK, ClockAhead
<1>7. CASE Complete(r)
  <2>1. run' \in [Replicas -> RunState] /\ Room'
    BY <1>7, UnwindTyped DEF Complete, Phase
  <2>2. watermark' \in Version /\ status' = "success" /\ spanned' \in BOOLEAN
    BY <1>0, <1>7 DEF Complete, WriteSuccess, Version, TypeInv, TypeOK
  <2> QED BY <1>7, <2>1, <2>2 DEF Complete, TypeInv, TypeOK, ClockAhead
<1>8. CASE RecordFailure(r)
  <2>1. run' \in [Replicas -> RunState] /\ Room'
    BY <1>8, UnwindTyped DEF RecordFailure, Phase
  <2> QED BY <1>8, <2>1 DEF RecordFailure, TypeInv, TypeOK, ClockAhead
<1>9. CASE Release(r)
  <2>1. run' \in [Replicas -> RunState] /\ Room'
    BY <1>9, UnwindTyped DEF Release, IdleRun, Phase
  <2> QED BY <1>9, <2>1 DEF Release, Released, TypeInv, TypeOK, ClockAhead
<1> QED BY <1>1, <1>2, <1>3, <1>4, <1>5, <1>6, <1>7, <1>8, <1>9 DEF Advance

(* The steps by which a run fails: each leaves it without data. *)
LEMMA TypeInvFail ==
  ASSUME TypeInv, NEW r \in Replicas, Fail(r)
  PROVE  TypeInv'
<1>1. \E phase \in {"releasing", "failing", "idle"} : run' = [run EXCEPT ![r] = Unwinding(phase)]
  BY DEF Fail, AbortStart, FetchFails, FlushFails, CompleteFails, RecordFailureFails, Crash, IdleRun
<1>2. run' \in [Replicas -> RunState] /\ Room'
  BY <1>1, UnwindTyped DEF Phase
<1>3. faults' \in Nat /\ UNCHANGED <<now, provider>>
  BY DEF Fail, AbortStart, FetchFails, FlushFails, CompleteFails, RecordFailureFails, Crash,
         Fault, TypeInv, TypeOK
<1>4. local' \in [Events -> Version]
  <2>1. local' \in {local, Upserted(r)}
    BY DEF Fail, AbortStart, FetchFails, FlushFails, CompleteFails, RecordFailureFails, Crash
  <2> QED BY <2>1, UpsertedType DEF TypeInv, TypeOK
<1>5. lock' \in Replicas \cup {NoReplica}
  BY DEF Fail, AbortStart, FetchFails, FlushFails, CompleteFails, RecordFailureFails, Crash,
         Released, TypeInv, TypeOK
<1>6. /\ status' \in {"none", "running", "success", "failed"} /\ watermark' \in Version
      /\ spanned' \in BOOLEAN
  <2>1. CASE WriteSuccess(r)
    <3>1. run[r].latest \in Nat
      BY Types DEF TypeInv
    <3> QED BY <2>1, <3>1 DEF WriteSuccess, Version, TypeInv, TypeOK
  <2>2. CASE status' \in {status, "running"} /\ UNCHANGED <<watermark, spanned>>
    BY <2>2 DEF TypeInv, TypeOK
  <2>3. WriteSuccess(r) \/ (status' \in {status, "running"} /\ UNCHANGED <<watermark, spanned>>)
    BY DEF Fail, AbortStart, FetchFails, FlushFails, CompleteFails, RecordFailureFails, Crash
  <2> QED BY <2>1, <2>2, <2>3
<1> QED BY <1>2, <1>3, <1>4, <1>5, <1>6 DEF TypeInv, TypeOK, ClockAhead

(* Every variable keeps its type, whatever fails and whoever has lost the    *)
(* lock: in particular a batch never holds more than BatchSize events, and   *)
(* no date before the first is ever asked for.                               *)
THEOREM TypeCorrect == Spec => []TypeOK
<1>1. Init => TypeInv
  <2>1. ASSUME Init PROVE TypeInv
    <3>1. TypeOK /\ ClockAhead
      BY <2>1, InvInit DEF Inv
    <3>2. Room
      BY <2>1 DEF Init, IdleRun, Room, Unwinding
    <3> QED BY <3>1, <3>2 DEF TypeInv
  <2> QED BY <2>1
<1>2. TypeInv /\ [Next]_vars => TypeInv'
  <2> SUFFICES ASSUME TypeInv, [Next]_vars PROVE TypeInv'
    OBVIOUS
  <2>1. CASE Tick
    BY <2>1, ClockAssumption DEF Tick, TypeInv, TypeOK, ClockAhead, Room
  <2>2. ASSUME NEW e \in Events, ChangeEvent(e) PROVE TypeInv'
    BY <2>2, TypeInvChange
  <2>3. CASE LoseLock
    BY <2>3 DEF LoseLock, Fault, TypeInv, TypeOK, ClockAhead, Room
  <2>4. ASSUME NEW r \in Replicas, Acquire(r) PROVE TypeInv'
    <3>1. run' \in [Replicas -> RunState] /\ Room'
      BY <2>4, UnwindTyped DEF Acquire, Phase
    <3> QED BY <2>4, <3>1 DEF Acquire, TypeInv, TypeOK, ClockAhead
  <2>5. ASSUME NEW r \in Replicas, Advance(r) \/ Fail(r) PROVE TypeInv'
    BY <2>5, TypeInvAdvance, TypeInvFail
  <2>6. CASE UNCHANGED vars
    BY <2>6 DEF vars, TypeInv, TypeOK, ClockAhead, Room
  <2> QED BY <2>1, <2>2, <2>3, <2>4, <2>5, <2>6 DEF Next
<1>3. TypeInv => TypeOK
  BY DEF TypeInv
<1> QED BY <1>1, <1>2, <1>3, PTL DEF Spec

=============================================================================
