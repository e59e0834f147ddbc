--------------------------- MODULE RequestsProofs ---------------------------
(***************************************************************************)
(* Proofs about Requests for any number of requests at hand, any pool and   *)
(* failures without a bound.                                               *)
(***************************************************************************)
EXTENDS Requests, FiniteSetTheorems, TLAPS

-----------------------------------------------------------------------------
(* Statuses *)

LEMMA MinIs ==
  ASSUME NEW S \in SUBSET Int, NEW n \in S, \A i \in S : n <= i
  PROVE  Min(S) = n
<1>1. \E x \in S : \A y \in S : x <= y
  OBVIOUS
<1>2. Min(S) \in S /\ \A y \in S : Min(S) <= y
  BY <1>1 DEF Min
<1> DEFINE first == Min(S)
<1>3. first \in S /\ first <= n
  BY <1>2
<1> HIDE DEF first
<1>4. first \in Int /\ n <= first
  BY <1>3
<1>5. first = n
  BY <1>3, <1>4
<1> QED BY <1>5 DEF first

(* The first class that has a handler gives the status. *)
LEMMA FirstHandled ==
  ASSUME NEW error, NEW n \in Nat, n \in DOMAIN Mro(error), DOMAIN Mro(error) \subseteq Nat,
         HandlerStatus(Mro(error)[n]) # 500,
         \A i \in DOMAIN Mro(error) : i < n => HandlerStatus(Mro(error)[i]) = 500
  PROVE  StatusOfError(error) = HandlerStatus(Mro(error)[n])
<1> DEFINE handled == {i \in DOMAIN Mro(error) : HandlerStatus(Mro(error)[i]) # 500}
<1> HIDE DEF handled
<1>1. n \in handled /\ handled \in SUBSET Int
  BY DEF handled
<1>2. ASSUME NEW i \in handled
      PROVE  n <= i
  <2>1. i \in DOMAIN Mro(error) /\ HandlerStatus(Mro(error)[i]) # 500
    BY DEF handled
  <2>2. ~(i < n)
    BY <2>1
  <2>3. i \in Int
    BY <2>1
  <2> QED BY <2>2, <2>3
<1>3. Min(handled) = n
  BY <1>1, <1>2, MinIs
<1>4. StatusOfError(error) = IF handled = {} THEN 500 ELSE HandlerStatus(Mro(error)[Min(handled)])
  BY DEF StatusOfError, handled
<1> QED BY <1>1, <1>3, <1>4

LEMMA ClassStatuses ==
  /\ HandlerStatus("DomainError") = 500 /\ HandlerStatus("ProviderError") = 502
  /\ HandlerStatus("ProviderNotFoundError") = 404
  /\ HandlerStatus("ProviderConflictError") = 409
  /\ HandlerStatus("ProviderResponseError") = 500
  /\ HandlerStatus("PaginationLoopError") = 500
BY DEF HandlerStatus

LEMMA ErrorStatuses ==
  /\ StatusOfError("EventNotFoundError") = 404
  /\ StatusOfError("TicketNotFoundError") = 404
  /\ StatusOfError("EventUnavailableError") = 409
  /\ StatusOfError("RegistrationClosedError") = 409
  /\ StatusOfError("SyncInProgressError") = 202
<1>1. \A error \in {"EventNotFoundError", "TicketNotFoundError", "EventUnavailableError",
                    "RegistrationClosedError", "SyncInProgressError"} :
        Mro(error) = <<error, "DomainError">> /\ HandlerStatus(error) # 500
  BY DEF Mro, HandlerStatus
<1>2. \A error \in {"EventNotFoundError", "TicketNotFoundError", "EventUnavailableError",
                    "RegistrationClosedError", "SyncInProgressError"} :
        StatusOfError(error) = HandlerStatus(error)
  <2> TAKE error \in {"EventNotFoundError", "TicketNotFoundError", "EventUnavailableError",
                     "RegistrationClosedError", "SyncInProgressError"}
  <2>1. 1 \in DOMAIN Mro(error) /\ DOMAIN Mro(error) \subseteq Nat /\ Mro(error)[1] = error
    BY <1>1
  <2>2. \A i \in DOMAIN Mro(error) : i < 1 => HandlerStatus(Mro(error)[i]) = 500
    BY <1>1
  <2>3. StatusOfError(error) = HandlerStatus(Mro(error)[1])
    BY <1>1, <2>1, <2>2, FirstHandled
  <2> QED BY <2>1, <2>3
<1> QED BY <1>2 DEF HandlerStatus

LEMMA DatabaseStatus ==
  ASSUME NEW k \in Kinds
  PROVE  StatusOf(k, "DatabaseError") = IF k = "health" THEN 503 ELSE 500
<1>1. Mro("DatabaseError") = <<"DatabaseError">> /\ HandlerStatus("DatabaseError") = 500
  BY DEF Mro, HandlerStatus
<1>2. {i \in DOMAIN Mro("DatabaseError") : HandlerStatus(Mro("DatabaseError")[i]) # 500} = {}
  BY <1>1
<1> QED BY <1>2 DEF StatusOf, StatusOfError

(* Each answer of the Provider that is an error has a status of its own. *)
LEMMA UnusableStatus == StatusOfError(ErrorOf("unusable")) = 500
<1>1. ErrorOf("unusable") = "ValueError"
  BY DEF ErrorOf
<1>2. Mro("ValueError") = <<"ValueError">> /\ HandlerStatus("ValueError") = 500
  BY DEF Mro, HandlerStatus
<1>3. {i \in DOMAIN Mro("ValueError") : HandlerStatus(Mro("ValueError")[i]) # 500} = {}
  BY <1>2
<1> QED BY <1>1, <1>3 DEF StatusOfError

LEMMA ProviderStatuses ==
  /\ StatusOfError(ErrorOf("404")) = 404
  /\ StatusOfError(ErrorOf("409")) = 409
  /\ StatusOfError(ErrorOf("unavailable")) = 502
  /\ StatusOfError(ErrorOf("nonsense")) = 502
  /\ StatusOfError(ErrorOf("loop")) = 502
<1>1. ASSUME NEW error \in {"ProviderNotFoundError", "ProviderConflictError"}
      PROVE  StatusOfError(error) = HandlerStatus(error)
  <2>1. Mro(error) = <<error, "ProviderError", "DomainError">>
    BY DEF Mro
  <2>2. /\ 1 \in DOMAIN Mro(error) /\ DOMAIN Mro(error) \subseteq Nat /\ Mro(error)[1] = error
        /\ HandlerStatus(error) # 500
        /\ \A i \in DOMAIN Mro(error) : i < 1 => HandlerStatus(Mro(error)[i]) = 500
    BY <2>1, ClassStatuses
  <2> QED BY <2>2, FirstHandled
<1>2. StatusOfError("ProviderError") = 502
  <2>1. Mro("ProviderError") = <<"ProviderError", "DomainError">>
    BY DEF Mro
  <2>2. /\ 1 \in DOMAIN Mro("ProviderError") /\ DOMAIN Mro("ProviderError") \subseteq Nat
        /\ HandlerStatus(Mro("ProviderError")[1]) = 502
        /\ \A i \in DOMAIN Mro("ProviderError") :
             i < 1 => HandlerStatus(Mro("ProviderError")[i]) = 500
    BY <2>1, ClassStatuses
  <2> QED BY <2>2, FirstHandled
<1>3. StatusOfError("ProviderResponseError") = 502
  <2> DEFINE mro == Mro("ProviderResponseError")
  <2>1. mro = <<"ProviderResponseError", "ProviderError", "DomainError">>
    BY DEF Mro
  <2>2. /\ 2 \in DOMAIN mro /\ DOMAIN mro \subseteq Nat /\ HandlerStatus(mro[2]) = 502
        /\ \A i \in DOMAIN mro : i < 2 => HandlerStatus(mro[i]) = 500
    BY <2>1, ClassStatuses
  <2> QED BY <2>2, FirstHandled
<1>4. StatusOfError("PaginationLoopError") = 502
  <2> DEFINE mro == Mro("PaginationLoopError")
  <2>1. mro = <<"PaginationLoopError", "ProviderResponseError", "ProviderError", "DomainError">>
    BY DEF Mro
  <2>2. /\ 3 \in DOMAIN mro /\ DOMAIN mro \subseteq Nat /\ HandlerStatus(mro[3]) = 502
        /\ \A i \in DOMAIN mro : i < 3 => HandlerStatus(mro[i]) = 500
    BY <2>1, ClassStatuses
  <2> QED BY <2>2, FirstHandled
<1>5. /\ ErrorOf("404") = "ProviderNotFoundError" /\ ErrorOf("409") = "ProviderConflictError"
      /\ ErrorOf("unavailable") = "ProviderError" /\ ErrorOf("nonsense") = "ProviderResponseError"
      /\ ErrorOf("loop") = "PaginationLoopError"
  BY DEF ErrorOf
<1> QED BY <1>1, <1>2, <1>3, <1>4, <1>5, ClassStatuses

(* Every error of the Provider is a status of its own, a string that is of   *)
(* no use a 500.                                                             *)
LEMMA ErrorStatus ==
  /\ \A answer \in Errors \cup {"loop"} :
       /\ StatusOfError(ErrorOf(answer)) \in {404, 409, 502}
       /\ answer \in Uncertain => StatusOfError(ErrorOf(answer)) = 502
  /\ StatusOfError(ErrorOf("unusable")) = 500
BY ProviderStatuses, UnusableStatus DEF Errors, Uncertain

-----------------------------------------------------------------------------
(* The pool *)

LEMMA PoolFinite == IsFiniteSet(CheckedOut) /\ InUse \in Nat
<1>1. IsFiniteSet(Tasks)
  BY FiniteAssumption, FS_AddElement DEF Tasks
<1>2. IsFiniteSet({1, 2})
  <2>1. IsFiniteSet({1})
    BY FS_Singleton, Zenon
  <2>2. IsFiniteSet({1} \cup {2})
    BY <2>1, FS_AddElement, Zenon
  <2>3. {1, 2} = {1} \cup {2}
    OBVIOUS
  <2> QED BY <2>2, <2>3, Zenon
<1>3. IsFiniteSet(Tasks \X {1, 2})
  BY <1>1, <1>2, FS_Product
<1>4. IsFiniteSet(CheckedOut)
  BY <1>3, FS_Subset DEF CheckedOut
<1> QED BY <1>4, FS_CardinalityType DEF InUse

(* A connection is taken from the pool only while one is left. *)
LEMMA PoolBound ==
  ASSUME TypeOK, NEW t \in Tasks, held' \in [Tasks -> 0 .. 2],
         \A u \in Tasks \ {t} : held'[u] = held[u],
         held'[t] <= held[t] \/ (held'[t] = held[t] + 1 /\ Free)
  PROVE  InUse' <= Capacity
<1>0. /\ IsFiniteSet(CheckedOut) /\ InUse \in Nat /\ InUse <= Capacity /\ Capacity \in Nat
      /\ held \in [Tasks -> 0 .. 2]
  BY PoolFinite, PoolAssumption DEF TypeOK
<1>1. CASE held'[t] <= held[t]
  <2>1. ASSUME NEW c \in CheckedOut'
        PROVE  c \in CheckedOut
    <3>1. c \in Tasks \X {1, 2} /\ c[2] <= held'[c[1]] /\ c[1] \in Tasks /\ c[2] \in Int
      BY DEF CheckedOut
    <3>2. held'[c[1]] <= held[c[1]] /\ held[c[1]] \in Int /\ held'[c[1]] \in Int
      BY <1>0, <1>1, <3>1
    <3>3. c[2] <= held[c[1]]
      BY <3>1, <3>2
    <3> QED BY <3>1, <3>3 DEF CheckedOut
  <2>2. /\ IsFiniteSet(CheckedOut') /\ Cardinality(CheckedOut') <= Cardinality(CheckedOut)
    BY <1>0, <2>1, FS_Subset
  <2>3. Cardinality(CheckedOut') \in Nat
    BY <2>2, FS_CardinalityType
  <2> QED BY <1>0, <2>2, <2>3 DEF InUse
<1>2. CASE held'[t] = held[t] + 1 /\ Free
  <2> DEFINE new == <<t, held[t] + 1>>
  <2>1. ASSUME NEW c \in CheckedOut', c # new
        PROVE  c \in CheckedOut
    <3>1. c \in Tasks \X {1, 2} /\ c[2] <= held'[c[1]] /\ c[1] \in Tasks /\ c[2] \in {1, 2}
          /\ c = <<c[1], c[2]>>
      BY DEF CheckedOut
    <3>2. CASE c[1] = t
      <4>1. held[t] \in Int /\ c[2] <= held[t] + 1 /\ c[2] # held[t] + 1 /\ c[2] \in Int
        BY <1>0, <1>2, <2>1, <3>1, <3>2
      <4>2. c[2] <= held[t]
        BY <4>1
      <4> QED BY <3>1, <3>2, <4>2 DEF CheckedOut
    <3>3. CASE c[1] # t
      BY <3>1, <3>3 DEF CheckedOut
    <3> QED BY <3>2, <3>3
  <2> HIDE DEF new
  <2>2. CheckedOut' \in SUBSET (CheckedOut \cup {new})
    BY <2>1
  <2>3. /\ IsFiniteSet(CheckedOut \cup {new})
        /\ Cardinality(CheckedOut \cup {new}) <= InUse + 1
    <3>1. /\ IsFiniteSet(CheckedOut \cup {new})
          /\ Cardinality(CheckedOut \cup {new}) =
               IF new \in CheckedOut THEN Cardinality(CheckedOut) ELSE Cardinality(CheckedOut) + 1
      BY <1>0, FS_AddElement, Zenon
    <3>2. Cardinality(CheckedOut) \in Nat
      BY <1>0, FS_CardinalityType, Zenon
    <3> HIDE DEF TypeOK
    <3> QED BY <3>1, <3>2 DEF InUse
  <2>4. /\ IsFiniteSet(CheckedOut')
        /\ Cardinality(CheckedOut') <= Cardinality(CheckedOut \cup {new})
    BY <2>2, <2>3, FS_Subset
  <2>5. Cardinality(CheckedOut') \in Nat /\ Cardinality(CheckedOut \cup {new}) \in Nat
    BY <2>3, <2>4, FS_CardinalityType
  <2>6. InUse < Capacity
    BY <1>2 DEF Free
  <2>7. InUse' = Cardinality(CheckedOut')
    BY DEF InUse
  <2> QED BY <1>0, <2>3, <2>4, <2>5, <2>6, <2>7
<1> QED BY <1>1, <1>2

-----------------------------------------------------------------------------
(* A step of one task *)

(* StatusTellsOutcome of one request. *)
Told(t) ==
  place[t] = "closing" /\ kind[t] \in {"create", "cancel"} =>
    /\ status[t] < 300 => force[t] = {"provider", "table"}
    /\ status[t] \in 400 .. 499 => force[t] = {}

Typed ==
  /\ kind \in [Tasks -> Kinds]
  /\ place \in [Tasks -> {"idle", "queued", "database", "provider", "closing"}]
  /\ goal \in [Tasks -> Goals]
  /\ held \in [Tasks -> 0 .. 2]
  /\ status \in [Tasks -> Statuses]
  /\ force \in [Tasks -> SUBSET {"provider", "table"}]
  /\ faults \in Nat

OthersKeep(t) ==
  \A u \in Tasks \ {t} :
    /\ kind'[u] = kind[u] /\ place'[u] = place[u] /\ goal'[u] = goal[u]
    /\ held'[u] = held[u] /\ status'[u] = status[u] /\ force'[u] = force[u]

LEMMA TaskStep ==
  ASSUME Inv, NEW t \in Tasks, Typed', OthersKeep(t),
         held'[t] <= held[t] \/ (held'[t] = held[t] + 1 /\ Free),
         \/ UNCHANGED syncing
         \/ syncing = Nobody /\ syncing' = t
         \/ syncing = t /\ syncing' = Nobody,
         OnCourse(t)', SoFar(t)', RunHasLock(t)', Told(t)'
  PROVE  Inv'
<1> USE DEF Inv
<1>1. \A u \in Tasks : OnCourse(u)' /\ SoFar(u)' /\ RunHasLock(u)'
  <2>1. ASSUME NEW u \in Tasks \ {t}
        PROVE  OnCourse(u)' /\ SoFar(u)'
    BY DEF OthersKeep, OnCourse, Is, SoFar
  <2>2. ASSUME NEW u \in Tasks \ {t}
        PROVE  RunHasLock(u)'
    BY TaskAssumption DEF OthersKeep, RunHasLock, Tasks
  <2> QED BY <2>1, <2>2
<1>2. InUse' <= Capacity
  BY PoolBound DEF Typed, OthersKeep
<1>3. TypeOK'
  <2>1. syncing' \in Tasks \cup {Nobody}
    BY DEF TypeOK
  <2>2. ASSUME NEW u \in Tasks, place'[u] = "database"
        PROVE  held'[u] > 0
    BY <1>1, <2>2 DEF OnCourse, Is
  <2> QED BY <1>2, <2>1, <2>2 DEF Typed, TypeOK
<1>4. StatusTellsOutcome'
  BY DEF StatusTellsOutcome, Told, OthersKeep
<1> QED BY <1>1, <1>3, <1>4

(* The entries of t change, and the entries of t only. *)
LEMMA Moves ==
  ASSUME Inv, NEW t \in Tasks,
         NEW where \in {"idle", "queued", "database", "provider", "closing"},
         NEW purpose \in Goals, Move(t, where, purpose)
  PROVE  /\ place' \in [Tasks -> {"idle", "queued", "database", "provider", "closing"}]
         /\ goal' \in [Tasks -> Goals]
         /\ place'[t] = where /\ goal'[t] = purpose
         /\ \A u \in Tasks \ {t} : place'[u] = place[u] /\ goal'[u] = goal[u]
BY DEF Inv, TypeOK, Move

LEMMA Closes ==
  ASSUME Inv, NEW t \in Tasks, NEW code \in Statuses, Answer(t, code)
  PROVE  /\ place' \in [Tasks -> {"idle", "queued", "database", "provider", "closing"}]
         /\ goal' \in [Tasks -> Goals]
         /\ status' \in [Tasks -> Statuses]
         /\ place'[t] = "closing" /\ goal'[t] = "none" /\ status'[t] = code
         /\ \A u \in Tasks \ {t} :
              place'[u] = place[u] /\ goal'[u] = goal[u] /\ status'[u] = status[u]
BY DEF Inv, TypeOK, Answer, Move, Goals

LEMMA Enforces ==
  ASSUME Inv, NEW t \in Tasks, NEW where \in {"provider", "table"}, Enforce(t, where)
  PROVE  /\ force' \in [Tasks -> SUBSET {"provider", "table"}]
         /\ force'[t] = force[t] \cup {where}
         /\ \A u \in Tasks \ {t} : force'[u] = force[u]
BY DEF Inv, TypeOK, Enforce

LEMMA GivesBack ==
  ASSUME Inv, NEW t \in Tasks, place[t] = "database", GiveBack(t)
  PROVE  /\ held' \in [Tasks -> 0 .. 2] /\ held'[t] = held[t] - 1
         /\ \A u \in Tasks \ {t} : held'[u] = held[u]
BY DEF Inv, TypeOK, GiveBack

-----------------------------------------------------------------------------
(* Requests arrive and leave *)

LEMMA ArriveInv == ASSUME Inv, NEW t \in Tasks, NEW k \in KindsOf(t), Arrive(t, k) PROVE Inv'
<1> USE DEF Inv
<1>1. k \in Kinds /\ k # "sync" /\ Move(t, "queued", "read") /\ place[t] = "idle"
  BY DEF Arrive, KindsOf, Kinds
<1>2. held[t] = 0 /\ status[t] = 0
  BY <1>1 DEF OnCourse, Is
<1>3. /\ place' \in [Tasks -> {"idle", "queued", "database", "provider", "closing"}]
      /\ goal' \in [Tasks -> Goals]
      /\ place'[t] = "queued" /\ goal'[t] = "read"
      /\ \A u \in Tasks \ {t} : place'[u] = place[u] /\ goal'[u] = goal[u]
  BY <1>1, Moves DEF Goals
<1>4. PICK f \in ForceAtFirst(k) : force' = [force EXCEPT ![t] = f]
  BY DEF Arrive
<1>5. /\ f \in {{}, {"provider"}, {"provider", "table"}} /\ (k # "cancel" => f = {})
  BY <1>4 DEF ForceAtFirst
<1>6. /\ UNCHANGED <<held, status, syncing, faults>> /\ kind' = [kind EXCEPT ![t] = k]
  BY DEF Arrive
<1>7. Typed' /\ OthersKeep(t) /\ kind'[t] = k /\ force'[t] = f
  BY <1>1, <1>3, <1>4, <1>5, <1>6 DEF Typed, TypeOK, OthersKeep
<1>8. OnCourse(t)' /\ SoFar(t)' /\ RunHasLock(t)' /\ Told(t)'
  BY <1>1, <1>2, <1>3, <1>5, <1>6, <1>7 DEF OnCourse, Is, SoFar, RunHasLock, Told
<1>9. held'[t] <= held[t]
  BY <1>2, <1>6
<1> QED BY <1>6, <1>7, <1>8, <1>9, TaskStep

LEMMA ArriveInvalidInv == ASSUME Inv, NEW t \in Tasks, ArriveInvalid(t) PROVE Inv'
<1> USE DEF Inv
<1>1. /\ kind[t] = "read" /\ held[t] = 0
      /\ Answer(t, 400) /\ UNCHANGED <<kind, held, force, syncing, faults>>
  BY DEF ArriveInvalid, OnCourse, Is
<1>2. /\ place' \in [Tasks -> {"idle", "queued", "database", "provider", "closing"}]
      /\ goal' \in [Tasks -> Goals] /\ status' \in [Tasks -> Statuses]
      /\ place'[t] = "closing" /\ goal'[t] = "none" /\ status'[t] = 400
      /\ \A u \in Tasks \ {t} :
           place'[u] = place[u] /\ goal'[u] = goal[u] /\ status'[u] = status[u]
  BY <1>1, Closes DEF Statuses
<1>3. Typed' /\ OthersKeep(t) /\ held'[t] <= held[t]
  BY <1>1, <1>2 DEF Typed, TypeOK, OthersKeep
<1>4. OnCourse(t)' /\ SoFar(t)' /\ RunHasLock(t)' /\ Told(t)'
  BY <1>1, <1>2 DEF OnCourse, Is, SoFar, RunHasLock, Told
<1> QED BY <1>1, <1>3, <1>4, TaskStep

LEMMA ArriveSyncInv == ASSUME Inv, NEW t \in Tasks, ArriveSync(t) PROVE Inv'
<1> USE DEF Inv
<1>1. /\ kind[t] = "read" /\ held[t] = 0 /\ status[t] = 0
      /\ kind' = [kind EXCEPT ![t] = "sync"] /\ UNCHANGED <<held, force, faults>>
      /\ kind' \in [Tasks -> Kinds] /\ kind'[t] = "sync"
      /\ \A u \in Tasks \ {t} : kind'[u] = kind[u]
  BY DEF ArriveSync, OnCourse, Is, TypeOK, Kinds
<1>4. held'[t] <= held[t]
  BY <1>1
<1>2. CASE syncing = Nobody
  <2>1. Move(t, "queued", "lock") /\ syncing' = t /\ UNCHANGED status
    BY <1>2 DEF ArriveSync
  <2>2. /\ place' \in [Tasks -> {"idle", "queued", "database", "provider", "closing"}]
        /\ goal' \in [Tasks -> Goals]
        /\ place'[t] = "queued" /\ goal'[t] = "lock"
        /\ \A u \in Tasks \ {t} : place'[u] = place[u] /\ goal'[u] = goal[u]
    BY <2>1, Moves DEF Goals
  <2>3. Typed' /\ OthersKeep(t)
    BY <1>1, <2>1, <2>2 DEF Typed, TypeOK, OthersKeep
  <2>4. OnCourse(t)' /\ SoFar(t)' /\ RunHasLock(t)' /\ Told(t)'
    BY <1>1, <2>1, <2>2 DEF OnCourse, Is, SoFar, RunHasLock, Told
  <2> QED BY <1>2, <1>4, <2>1, <2>3, <2>4, TaskStep
<1>3. CASE syncing # Nobody
  <2>1. Answer(t, 202) /\ UNCHANGED syncing
    BY <1>3, ErrorStatuses DEF ArriveSync
  <2>2. /\ place' \in [Tasks -> {"idle", "queued", "database", "provider", "closing"}]
        /\ goal' \in [Tasks -> Goals] /\ status' \in [Tasks -> Statuses]
        /\ place'[t] = "closing" /\ goal'[t] = "none"
        /\ \A u \in Tasks \ {t} :
             place'[u] = place[u] /\ goal'[u] = goal[u] /\ status'[u] = status[u]
    BY <2>1, Closes DEF Statuses
  <2>3. Typed' /\ OthersKeep(t)
    BY <1>1, <2>2 DEF Typed, TypeOK, OthersKeep
  <2>4. OnCourse(t)' /\ SoFar(t)' /\ RunHasLock(t)' /\ Told(t)'
    BY <1>1, <2>2 DEF OnCourse, Is, SoFar, RunHasLock, Told
  <2> QED BY <1>4, <2>1, <2>3, <2>4, TaskStep
<1> QED BY <1>2, <1>3

LEMMA CloseInv == ASSUME Inv, NEW t \in Tasks, Close(t) PROVE Inv'
<1> USE DEF Inv, Close
<1>1. /\ place' \in [Tasks -> {"idle", "queued", "database", "provider", "closing"}]
      /\ goal' \in [Tasks -> Goals]
      /\ place'[t] = "idle" /\ goal'[t] = "none"
      /\ \A u \in Tasks \ {t} : place'[u] = place[u] /\ goal'[u] = goal[u]
  BY Moves DEF Goals
<1>2. /\ kind'[t] = "read" /\ held'[t] = 0 /\ status'[t] = 0 /\ 0 <= held[t]
  BY DEF TypeOK, HeldAfter
<1>6. /\ kind' \in [Tasks -> Kinds] /\ held' \in [Tasks -> 0 .. 2] /\ status' \in [Tasks -> Statuses]
      /\ force' \in [Tasks -> SUBSET {"provider", "table"}]
  BY DEF TypeOK, HeldAfter, Kinds, Statuses
<1>7. \A u \in Tasks \ {t} : /\ kind'[u] = kind[u] /\ held'[u] = held[u]
                              /\ status'[u] = status[u] /\ force'[u] = force[u]
  BY DEF TypeOK
<1>8. faults' \in Nat
  BY DEF TypeOK
<1>3. Typed' /\ OthersKeep(t)
  BY <1>1, <1>6, <1>7, <1>8 DEF Typed, OthersKeep
<1>4. OnCourse(t)' /\ SoFar(t)' /\ RunHasLock(t)' /\ Told(t)'
  BY <1>1, <1>2 DEF OnCourse, Is, SoFar, RunHasLock, Told
<1>5. UNCHANGED syncing \/ (syncing = t /\ syncing' = Nobody)
  OBVIOUS
<1> QED BY <1>2, <1>3, <1>4, <1>5, TaskStep

(* A connection is there for the statement that waits. *)
LEMMA CheckOutInv == ASSUME Inv, NEW t \in Tasks, CheckOut(t) PROVE Inv'
<1> USE DEF Inv, CheckOut
<1>1. held[t] \in {0, 1}
  BY DEF OnCourse, Is
<1>2. /\ held'[t] = held[t] + 1 /\ place'[t] = "database"
      /\ UNCHANGED <<kind, goal, status, force, syncing, faults>>
  BY DEF TypeOK
<1>3. Typed' /\ OthersKeep(t)
  BY <1>1 DEF Typed, TypeOK, OthersKeep
<1>4. OnCourse(t)'
  BY <1>1, <1>2 DEF OnCourse, Is, Writes
<1>5. SoFar(t)' /\ RunHasLock(t)' /\ Told(t)'
  BY <1>2 DEF SoFar, RunHasLock, Told
<1> QED BY <1>2, <1>3, <1>4, <1>5, TaskStep

-----------------------------------------------------------------------------
(* Steps of a request that is being served *)

Places == {"idle", "queued", "database", "provider", "closing"}

Busy == {"queued", "database", "provider"}

(* f becomes g, which differs from it at t at most. *)
Only(f, g, t, S) == g \in [Tasks -> S] /\ \A u \in Tasks \ {t} : g[u] = f[u]

Wheres == SUBSET {"provider", "table"}

(* A request gets its answer. *)
LEMMA AnswerStep ==
  ASSUME Inv, NEW t \in Tasks, NEW code \in Statuses, Answer(t, code),
         UNCHANGED <<kind, syncing>>, faults' \in Nat,
         Only(held, held', t, 0 .. 2), held'[t] \in {0, 1}, held'[t] <= held[t],
         Only(force, force', t, Wheres),
         kind[t] \in {"create", "cancel"} =>
           /\ code < 300 => force'[t] = {"provider", "table"}
           /\ code \in 400 .. 499 => force'[t] = {}
  PROVE  Inv'
<1>1. /\ place' \in [Tasks -> Places] /\ goal' \in [Tasks -> Goals]
      /\ status' \in [Tasks -> Statuses]
      /\ place'[t] = "closing" /\ goal'[t] = "none" /\ status'[t] = code
      /\ \A u \in Tasks \ {t} :
           place'[u] = place[u] /\ goal'[u] = goal[u] /\ status'[u] = status[u]
  BY Closes DEF Places
<1>2. Typed'
  BY <1>1 DEF Typed, Inv, TypeOK, Only, Places, Wheres
<1>3. OthersKeep(t)
  BY <1>1 DEF OthersKeep, Only
<1>4. OnCourse(t)'
  BY <1>1 DEF OnCourse, Is
<1>5. SoFar(t)' /\ RunHasLock(t)' /\ Told(t)'
  BY <1>1 DEF SoFar, RunHasLock, Told
<1> QED BY <1>2, <1>3, <1>4, <1>5, TaskStep

(* A request goes on. *)
LEMMA MoveStep ==
  ASSUME Inv, NEW t \in Tasks, place[t] \in Busy, NEW where \in Busy, NEW purpose \in Goals,
         Move(t, where, purpose), UNCHANGED <<kind, syncing>>, faults' \in Nat,
         Only(held, held', t, 0 .. 2), held'[t] <= held[t],
         Only(status, status', t, Statuses), Only(force, force', t, Wheres),
         place'[t] = where /\ goal'[t] = purpose => OnCourse(t)' /\ SoFar(t)'
  PROVE  Inv'
<1>1. /\ place' \in [Tasks -> Places] /\ goal' \in [Tasks -> Goals]
      /\ place'[t] = where /\ goal'[t] = purpose
      /\ \A u \in Tasks \ {t} : place'[u] = place[u] /\ goal'[u] = goal[u]
  BY Moves DEF Places, Busy
<1>2. Typed'
  BY <1>1 DEF Typed, Inv, TypeOK, Only, Places, Wheres
<1>3. OthersKeep(t)
  BY <1>1 DEF OthersKeep, Only
<1>4. RunHasLock(t)' /\ Told(t)'
  BY <1>1 DEF Inv, RunHasLock, Told, Busy
<1> QED BY <1>1, <1>2, <1>3, <1>4, TaskStep

(* What a step leaves alone, or changes at t by a helper of the model. *)
LEMMA Unchanged ==
  ASSUME Inv, NEW t \in Tasks
  PROVE  /\ UNCHANGED held => Only(held, held', t, 0 .. 2) /\ held'[t] <= held[t]
         /\ UNCHANGED status => Only(status, status', t, Statuses)
         /\ UNCHANGED force => Only(force, force', t, Wheres)
         /\ UNCHANGED faults => faults' \in Nat
BY DEF Inv, TypeOK, Only, Wheres

LEMMA Changed ==
  ASSUME Inv, NEW t \in Tasks
  PROVE  /\ GiveBack(t) /\ place[t] = "database" =>
              Only(held, held', t, 0 .. 2) /\ held'[t] = held[t] - 1 /\ held'[t] <= held[t]
         /\ \A where \in {"provider", "table"} :
              Enforce(t, where) =>
                Only(force, force', t, Wheres) /\ force'[t] = force[t] \cup {where}
         /\ \A code \in Statuses :
              status' = [status EXCEPT ![t] = code] =>
                Only(status, status', t, Statuses) /\ status'[t] = code
<1>1. ASSUME GiveBack(t), place[t] = "database"
      PROVE  Only(held, held', t, 0 .. 2) /\ held'[t] = held[t] - 1 /\ held'[t] <= held[t]
  <2>1. /\ held' \in [Tasks -> 0 .. 2] /\ held'[t] = held[t] - 1 /\ held[t] \in Int
        /\ \A u \in Tasks \ {t} : held'[u] = held[u]
    BY <1>1, GivesBack DEF Inv, TypeOK
  <2> QED BY <2>1 DEF Only
<1>2. ASSUME NEW where \in {"provider", "table"}, Enforce(t, where)
      PROVE  Only(force, force', t, Wheres) /\ force'[t] = force[t] \cup {where}
  BY <1>2, Enforces DEF Only, Wheres
<1>3. ASSUME NEW code \in Statuses, status' = [status EXCEPT ![t] = code]
      PROVE  Only(status, status', t, Statuses) /\ status'[t] = code
  BY <1>3 DEF Inv, TypeOK, Only
<1> QED BY <1>1, <1>2, <1>3

-----------------------------------------------------------------------------
(* The first statement of a handler *)

LEMMA Reading ==
  ASSUME Inv, NEW t \in Tasks, At(t, "database", "read")
  PROVE  /\ held[t] = 1 /\ kind[t] \in Kinds \ {"sync"} /\ force[t] \in Wheres
         /\ status[t] = 0
         /\ kind[t] \in {"create", "cancel"} /\ "table" \in force[t] =>
              force[t] = {"provider", "table"}
         /\ kind[t] = "create" => force[t] = {}
<1>1. kind[t] \in Kinds /\ force[t] \in Wheres
  BY DEF Inv, TypeOK, Wheres
<1>2. held[t] = 1 /\ kind[t] # "sync"
  BY DEF Inv, OnCourse, Is, At, Writes
<1> QED BY <1>1, <1>2 DEF Inv, SoFar, At, Wheres

LEMMA ReadRejectsInv == ASSUME Inv, NEW t \in Tasks, ReadRejects(t) PROVE Inv'
<1>1. /\ At(t, "database", "read") /\ force[t] = {}
      /\ UNCHANGED <<kind, held, force, syncing, faults>>
  BY DEF ReadRejects
<1>2. PICK error \in Rejections(kind[t]) : Answer(t, StatusOfError(error))
  BY DEF ReadRejects
<1>3. StatusOfError(error) \in {404, 409}
  BY <1>1, <1>2, Reading, ErrorStatuses DEF Rejections, Kinds
<1>4. held'[t] \in {0, 1} /\ force'[t] = {}
  BY <1>1, Reading
<1>5. PICK code \in {404, 409} : Answer(t, code)
  BY <1>2, <1>3
<1>6. code \in Statuses /\ ~(code < 300)
  BY <1>5 DEF Statuses
<1> QED BY <1>1, <1>4, <1>5, <1>6, Unchanged, AnswerStep

LEMMA ReadSufficesInv == ASSUME Inv, NEW t \in Tasks, ReadSuffices(t) PROVE Inv'
<1>1. /\ At(t, "database", "read") /\ UNCHANGED <<kind, held, force, syncing, faults>>
      /\ \/ Answer(t, Success(kind[t]))
         \/ kind[t] = "seats" /\ Answer(t, StatusOfError(ErrorOf("unusable")))
      /\ kind[t] \in {"health", "read", "seats"} \/ "table" \in force[t]
  BY DEF ReadSuffices
<1>2. PICK code \in {200, 201, 500} : Answer(t, code)
  BY <1>1, ErrorStatus DEF Success
<1>3. code \in Statuses /\ code \notin 400 .. 499
  BY <1>2 DEF Statuses
<1>4. held'[t] \in {0, 1}
  BY <1>1, Reading
<1>5. kind[t] \in {"create", "cancel"} => force'[t] = {"provider", "table"}
  BY <1>1, Reading
<1> QED BY <1>1, <1>2, <1>3, <1>4, <1>5, Unchanged, AnswerStep

LEMMA ReadPassesInv == ASSUME Inv, NEW t \in Tasks, ReadPasses(t) PROVE Inv'
<1>1. /\ At(t, "database", "read") /\ UNCHANGED <<kind, status, force, syncing, faults>>
      /\ kind[t] \in {"seats", "create", "cancel"} /\ "table" \notin force[t]
      /\ Move(t, "provider", kind[t]) /\ held' = [held EXCEPT ![t] = held[t]]
  BY DEF ReadPasses, Call, HeldWhileCalling
<1>2. Only(held, held', t, 0 .. 2) /\ held'[t] = held[t] /\ held'[t] <= held[t]
  BY <1>1 DEF Inv, TypeOK, Only
<1>3. kind[t] \in Goals /\ place[t] \in Busy
  BY <1>1 DEF Goals, Busy, At
<1>4. ASSUME place'[t] = "provider", goal'[t] = kind[t]
      PROVE  OnCourse(t)' /\ SoFar(t)'
  BY <1>1, <1>2, <1>4, Reading DEF OnCourse, Is, SoFar
<1> QED BY <1>1, <1>2, <1>3, <1>4, Unchanged, MoveStep DEF Busy

-----------------------------------------------------------------------------
(* The Provider answers *)

(* What is known of a request that awaits the Provider. *)
LEMMA Awaiting ==
  ASSUME Inv, NEW t \in Tasks, place[t] = "provider"
  PROVE  /\ goal[t] = "seats" => kind[t] = "seats" /\ held[t] = 1
         /\ goal[t] # "compensate" => status[t] = 0
         /\ goal[t] = "create" =>
              kind[t] = "create" /\ held[t] = 1 /\ status[t] = 0 /\ force[t] = {}
         /\ goal[t] = "cancel" =>
              kind[t] = "cancel" /\ held[t] = 1 /\ status[t] = 0 /\ "table" \notin force[t]
         /\ goal[t] = "compensate" => kind[t] = "create" /\ held[t] = 0 /\ status[t] = 500
         /\ goal[t] = "page" => kind[t] = "sync" /\ held[t] = 1
         /\ goal[t] \in {"seats", "create", "cancel", "compensate", "page"}
         /\ force[t] \in Wheres
<1>1. force[t] \in Wheres
  BY DEF Inv, TypeOK, Wheres
<1>2. \/ goal[t] = kind[t] /\ kind[t] \in {"seats", "create", "cancel"} /\ held[t] = 1
      \/ goal[t] = "compensate" /\ kind[t] = "create" /\ held[t] = 0
      \/ goal[t] = "page" /\ kind[t] = "sync" /\ held[t] = 1
  BY DEF Inv, OnCourse, Is
<1> QED BY <1>1, <1>2 DEF Inv, SoFar

LEMMA SeatsAnsweredInv ==
  ASSUME Inv, NEW t \in Tasks, NEW answer \in Answers \cup {"unusable"}, SeatsAnswered(t, answer)
  PROVE  Inv'
<1>1. /\ place[t] = "provider" /\ goal[t] = "seats"
      /\ UNCHANGED <<kind, held, force, syncing, faults>>
      /\ Answer(t, IF answer = "ok" THEN 200 ELSE StatusOfError(ErrorOf(answer)))
  BY DEF SeatsAnswered, Awaits, At
<1>2. PICK code \in {200, 404, 409, 500, 502} : Answer(t, code)
  BY <1>1, ErrorStatus DEF Answers
<1>3. code \in Statuses /\ held'[t] \in {0, 1} /\ kind[t] = "seats"
  BY <1>1, <1>2, Awaiting DEF Statuses
<1> QED BY <1>1, <1>2, <1>3, Unchanged, AnswerStep

LEMMA RegisteredInv == ASSUME Inv, NEW t \in Tasks, Registered(t) PROVE Inv'
<1>1. /\ place[t] = "provider" /\ goal[t] = "create" /\ Enforce(t, "provider")
      /\ UNCHANGED <<kind, held, status, syncing, faults>>
      /\ Move(t, IF held[t] > 0 THEN "database" ELSE "queued", "save")
  BY DEF Registered, Awaits, At, Query
<1>2. /\ kind[t] = "create" /\ held[t] = 1 /\ status[t] = 0 /\ force[t] = {}
      /\ Move(t, "database", "save")
  BY <1>1, Awaiting
<1>3. Only(force, force', t, Wheres) /\ force'[t] = {"provider"}
  BY <1>1, <1>2, Changed
<1>4. ASSUME place'[t] = "database", goal'[t] = "save"
      PROVE  OnCourse(t)' /\ SoFar(t)'
  BY <1>1, <1>2, <1>3, <1>4 DEF OnCourse, Is, SoFar
<1>5. "save" \in Goals /\ place[t] \in Busy /\ "database" \in Busy
  BY <1>1 DEF Goals, Busy
<1> QED BY <1>1, <1>2, <1>3, <1>4, <1>5, Unchanged, MoveStep

LEMMA RegisterFailsInv ==
  ASSUME Inv, NEW t \in Tasks, NEW answer \in Errors, RegisterFails(t, answer) PROVE Inv'
<1>1. /\ place[t] = "provider" /\ goal[t] = "create"
      /\ Answer(t, StatusOfError(ErrorOf(answer)))
      /\ UNCHANGED force \/ (answer \in Uncertain /\ Enforce(t, "provider"))
      /\ UNCHANGED <<kind, held, syncing, faults>>
  BY DEF RegisterFails, Awaits, At
<1>2. PICK code \in {404, 409, 502} : Answer(t, code) /\ (answer \in Uncertain => code = 502)
  BY <1>1, ErrorStatus
<1>3. held'[t] \in {0, 1} /\ force[t] = {}
  BY <1>1, Awaiting
<1>4. Only(force, force', t, Wheres) /\ (answer \in Uncertain \/ force'[t] = {})
  BY <1>1, <1>3, Unchanged, Changed
<1>5. code \in Statuses /\ ~(code < 300) /\ (code \in 400 .. 499 => force'[t] = {})
  BY <1>2, <1>4 DEF Statuses
<1> QED BY <1>1, <1>2, <1>3, <1>4, <1>5, Unchanged, AnswerStep

LEMMA ReleasedInv ==
  ASSUME Inv, NEW t \in Tasks, NEW answer \in Answers, Released(t, answer) PROVE Inv'
<1>1. /\ place[t] = "provider" /\ goal[t] = "cancel" /\ Enforce(t, "provider")
      /\ UNCHANGED <<kind, held, status, syncing, faults>>
      /\ Move(t, IF held[t] > 0 THEN "database" ELSE "queued", "mark")
  BY DEF Released, Awaits, At, Query
<1>2. /\ kind[t] = "cancel" /\ held[t] = 1 /\ status[t] = 0 /\ "table" \notin force[t]
      /\ force[t] \in Wheres /\ Move(t, "database", "mark")
  BY <1>1, Awaiting
<1>3. Only(force, force', t, Wheres) /\ force'[t] = {"provider"}
  BY <1>1, <1>2, Changed DEF Wheres
<1>4. ASSUME place'[t] = "database", goal'[t] = "mark"
      PROVE  OnCourse(t)' /\ SoFar(t)'
  BY <1>1, <1>2, <1>3, <1>4 DEF OnCourse, Is, SoFar
<1>5. "mark" \in Goals /\ place[t] \in Busy /\ "database" \in Busy
  BY <1>1 DEF Goals, Busy
<1> QED BY <1>1, <1>2, <1>3, <1>4, <1>5, Unchanged, MoveStep

LEMMA ReleaseFailsInv ==
  ASSUME Inv, NEW t \in Tasks, NEW answer \in Errors, ReleaseFails(t, answer) PROVE Inv'
<1>1. /\ place[t] = "provider" /\ goal[t] = "cancel"
      /\ answer # "404" /\ (answer = "409" => "provider" \notin force[t])
      /\ Answer(t, StatusOfError(ErrorOf(answer)))
      /\ UNCHANGED force \/ (answer \in Uncertain /\ Enforce(t, "provider"))
      /\ UNCHANGED <<kind, held, syncing, faults>>
  BY DEF ReleaseFails, Awaits, At
<1>2. PICK code \in {404, 409, 502} : Answer(t, code) /\ (answer \in Uncertain => code = 502)
  BY <1>1, ErrorStatus
<1>3. held'[t] \in {0, 1} /\ "table" \notin force[t] /\ force[t] \in Wheres
  BY <1>1, Awaiting
<1>4. answer = "409" \/ answer \in Uncertain
  BY <1>1 DEF Errors, Uncertain
<1>5. Only(force, force', t, Wheres) /\ (answer \in Uncertain \/ force'[t] = {})
  BY <1>1, <1>3, <1>4, Unchanged, Changed DEF Wheres
<1>6. code \in Statuses /\ ~(code < 300) /\ (code \in 400 .. 499 => force'[t] = {})
  BY <1>2, <1>5 DEF Statuses
<1> QED BY <1>1, <1>2, <1>3, <1>5, <1>6, Unchanged, AnswerStep

LEMMA CompensatedInv ==
  ASSUME Inv, NEW t \in Tasks, NEW answer \in Answers, Compensated(t, answer) PROVE Inv'
<1>1. /\ place[t] = "provider" /\ goal[t] = "compensate" /\ Answer(t, status[t])
      /\ force' = [force EXCEPT ![t] = force[t] \ {"provider"}] \/ UNCHANGED force
      /\ UNCHANGED <<kind, held, syncing, faults>>
  BY DEF Compensated, Awaits, At, FirstError
<1>2. Answer(t, 500) /\ held'[t] \in {0, 1}
  BY <1>1, Awaiting
<1>3. Only(force, force', t, Wheres)
  BY <1>1 DEF Inv, TypeOK, Only, Wheres
<1>4. 500 \in Statuses /\ ~(500 < 300) /\ 500 \notin 400 .. 499
  BY DEF Statuses
<1> QED BY <1>1, <1>2, <1>3, <1>4, Unchanged, AnswerStep

LEMMA PageInv ==
  ASSUME Inv, NEW t \in Tasks, NEW next \in {"store", "finish"}, Page(t, next) PROVE Inv'
<1>1. /\ place[t] = "provider" /\ goal[t] = "page" /\ Move(t, "queued", next)
      /\ UNCHANGED <<kind, held, status, force, syncing, faults>>
  BY DEF Page, Awaits, At
<1>2. kind[t] = "sync" /\ held[t] = 1 /\ status[t] = 0
  BY <1>1, Awaiting
<1>3. ASSUME place'[t] = "queued", goal'[t] = next
      PROVE  OnCourse(t)' /\ SoFar(t)'
  BY <1>1, <1>2, <1>3 DEF OnCourse, Is, SoFar, Writes
<1>4. next \in Goals /\ place[t] \in Busy /\ "queued" \in Busy
  BY <1>1 DEF Goals, Busy
<1> QED BY <1>1, <1>3, <1>4, Unchanged, MoveStep

LEMMA PageFailsInv ==
  ASSUME Inv, NEW t \in Tasks, NEW answer \in Errors \cup {"loop", "unusable"}, PageFails(t, answer)
  PROVE  Inv'
<1>1. /\ place[t] = "provider" /\ goal[t] = "page" /\ Move(t, "queued", "fail")
      /\ status' = [status EXCEPT ![t] = StatusOfError(ErrorOf(answer))]
      /\ UNCHANGED <<kind, held, force, syncing, faults>>
  BY DEF PageFails, Awaits, At
<1>2. kind[t] = "sync" /\ held[t] = 1
  BY <1>1, Awaiting
<1>3. StatusOfError(ErrorOf(answer)) \in Statuses
  BY ErrorStatus DEF Statuses
<1>4. Only(status, status', t, Statuses)
  BY <1>1, <1>3, Changed
<1>5. ASSUME place'[t] = "queued", goal'[t] = "fail"
      PROVE  OnCourse(t)' /\ SoFar(t)'
  BY <1>1, <1>2, <1>5 DEF OnCourse, Is, SoFar, Writes
<1>6. "fail" \in Goals /\ place[t] \in Busy /\ "queued" \in Busy
  BY <1>1 DEF Goals, Busy
<1> QED BY <1>1, <1>4, <1>5, <1>6, Unchanged, MoveStep

-----------------------------------------------------------------------------
(* The other statements *)

(* What is known of a request that has a statement under way. *)
LEMMA Executing ==
  ASSUME Inv, NEW t \in Tasks, place[t] = "database"
  PROVE  /\ goal[t] \in {"read", "save", "mark", "lock", "unlock"} \cup Writes
         /\ goal[t] \in {"lock", "unlock"} => kind[t] = "sync" /\ held[t] = 1
         /\ goal[t] \in Writes => kind[t] = "sync" /\ held[t] = 2
         /\ goal[t] \in {"save", "mark"} =>
              held[t] = 1 /\ status[t] = 0 /\ force[t] = {"provider"}
         /\ goal[t] = "save" => kind[t] = "create"
         /\ goal[t] = "mark" => kind[t] = "cancel"
         /\ goal[t] \notin {"fail", "unlock"} => status[t] = 0
<1>1. /\ goal[t] \in {"read", "save", "mark", "lock", "unlock"} \cup Writes
      /\ goal[t] \in {"lock", "unlock"} => kind[t] = "sync" /\ held[t] = 1
      /\ goal[t] \in Writes => kind[t] = "sync" /\ held[t] = 2
      /\ goal[t] \in {"save", "mark"} => held[t] = 1
      /\ goal[t] = "save" => kind[t] = "create"
      /\ goal[t] = "mark" => kind[t] = "cancel"
  BY DEF Inv, OnCourse, Is, Writes
<1> QED BY <1>1 DEF Inv, SoFar, Writes

(* And of one that waits for a connection. *)
LEMMA Waiting ==
  ASSUME Inv, NEW t \in Tasks, place[t] = "queued"
  PROVE  \/ /\ kind[t] \in Kinds \ {"sync"} /\ goal[t] = "read" /\ held[t] = 0
            /\ status[t] = 0
         \/ kind[t] = "sync" /\ goal[t] = "lock" /\ held[t] = 0
         \/ kind[t] = "sync" /\ goal[t] \in Writes /\ held[t] = 1
<1>1. kind[t] \in Kinds
  BY DEF Inv, TypeOK
<1> QED BY <1>1 DEF Inv, OnCourse, Is, SoFar, Writes

LEMMA RecordedInv == ASSUME Inv, NEW t \in Tasks, Recorded(t) PROVE Inv'
<1>1. /\ place[t] = "database" /\ goal[t] \in {"save", "mark"}
      /\ Enforce(t, "table") /\ GiveBack(t) /\ Answer(t, Success(kind[t]))
      /\ UNCHANGED <<kind, syncing, faults>>
  BY DEF Recorded
<1>2. PICK code \in {200, 201} : Answer(t, code)
  BY <1>1 DEF Success
<1>3. held[t] = 1 /\ force[t] = {"provider"}
  BY <1>1, Executing
<1>4. /\ Only(held, held', t, 0 .. 2) /\ held'[t] = held[t] - 1 /\ held'[t] <= held[t]
      /\ Only(force, force', t, Wheres) /\ force'[t] = force[t] \cup {"table"}
  BY <1>1, Changed
<1>5. held'[t] \in {0, 1} /\ force'[t] = {"provider", "table"}
  BY <1>3, <1>4
<1>6. code \in Statuses /\ code \notin 400 .. 499
  BY <1>2 DEF Statuses
<1> QED BY <1>1, <1>2, <1>4, <1>5, <1>6, Unchanged, AnswerStep

LEMMA TryLockInv ==
  ASSUME Inv, NEW t \in Tasks, NEW acquired \in BOOLEAN, TryLock(t, acquired) PROVE Inv'
<1>1. /\ place[t] = "database" /\ goal[t] = "lock"
      /\ UNCHANGED <<kind, held, force, syncing, faults>>
  BY DEF TryLock, At
<1>2. kind[t] = "sync" /\ held[t] = 1 /\ held'[t] = 1 /\ status[t] = 0
  BY <1>1, Executing
<1>3. CASE acquired
  <2>1. Move(t, "queued", "begin") /\ UNCHANGED status
    BY <1>3 DEF TryLock
  <2>2. ASSUME place'[t] = "queued", goal'[t] = "begin"
        PROVE  OnCourse(t)' /\ SoFar(t)'
    BY <1>1, <1>2, <2>1, <2>2 DEF OnCourse, Is, SoFar, Writes
  <2>3. "begin" \in Goals /\ place[t] \in Busy /\ "queued" \in Busy
    BY <1>1 DEF Goals, Busy
  <2> QED BY <1>1, <2>1, <2>2, <2>3, Unchanged, MoveStep
<1>4. CASE ~acquired
  <2>1. Answer(t, 202)
    BY <1>4, ErrorStatuses DEF TryLock
  <2>2. 202 \in Statuses /\ held'[t] \in {0, 1} /\ kind[t] \notin {"create", "cancel"}
    BY <1>2 DEF Statuses
  <2> QED BY <1>1, <2>1, <2>2, Unchanged, AnswerStep
<1> QED BY <1>3, <1>4

LEMMA CommittedInv == ASSUME Inv, NEW t \in Tasks, Committed(t) PROVE Inv'
<1>1. /\ place[t] = "database" /\ goal[t] \in {"begin", "store"}
      /\ GiveBack(t) /\ Move(t, "provider", "page")
      /\ UNCHANGED <<kind, status, force, syncing, faults>>
  BY DEF Committed
<1>2. /\ kind[t] = "sync" /\ held[t] = 2 /\ status[t] = 0
      /\ Only(held, held', t, 0 .. 2) /\ held'[t] = held[t] - 1 /\ held'[t] <= held[t]
  BY <1>1, Executing, Changed DEF Writes
<1>3. held'[t] = 1
  BY <1>2
<1>4. ASSUME place'[t] = "provider", goal'[t] = "page"
      PROVE  OnCourse(t)' /\ SoFar(t)'
  BY <1>1, <1>2, <1>3, <1>4 DEF OnCourse, Is, SoFar
<1>5. "page" \in Goals /\ place[t] \in Busy /\ "provider" \in Busy
  BY <1>1 DEF Goals, Busy
<1> QED BY <1>1, <1>2, <1>4, <1>5, Unchanged, MoveStep

LEMMA RunEndsInv == ASSUME Inv, NEW t \in Tasks, RunEnds(t) PROVE Inv'
<1>1. /\ place[t] = "database" /\ goal[t] \in {"finish", "fail"}
      /\ GiveBack(t) /\ Move(t, "database", "unlock")
      /\ UNCHANGED <<kind, force, syncing, faults>>
  BY DEF RunEnds
<1>2. /\ kind[t] = "sync" /\ held[t] = 2
      /\ Only(held, held', t, 0 .. 2) /\ held'[t] = held[t] - 1 /\ held'[t] <= held[t]
  BY <1>1, Executing, Changed DEF Writes
<1>3. held'[t] = 1
  BY <1>2
<1>4. ASSUME place'[t] = "database", goal'[t] = "unlock"
      PROVE  OnCourse(t)' /\ SoFar(t)'
  BY <1>1, <1>2, <1>3, <1>4 DEF OnCourse, Is, SoFar
<1>5. "unlock" \in Goals /\ place[t] \in Busy /\ "database" \in Busy
  BY <1>1 DEF Goals, Busy
<1>6. Only(status, status', t, Statuses)
  <2> DEFINE code == IF goal[t] = "finish" THEN 200 ELSE status[t]
  <2>1. code \in Statuses
    BY DEF Inv, TypeOK, Statuses
  <2>2. status' = [status EXCEPT ![t] = code]
    BY DEF RunEnds
  <2> QED BY <2>1, <2>2, Changed
<1> QED BY <1>1, <1>2, <1>4, <1>5, <1>6, Unchanged, MoveStep

LEMMA UnlockInv == ASSUME Inv, NEW t \in Tasks, Unlock(t) PROVE Inv'
<1>1. /\ place[t] = "database" /\ goal[t] = "unlock" /\ Answer(t, status[t])
      /\ UNCHANGED <<kind, held, force, syncing, faults>>
  BY DEF Unlock, At
<1>2. /\ kind[t] = "sync" /\ held[t] = 1 /\ status[t] \in Statuses
  BY <1>1, Executing DEF Inv, TypeOK
<1>3. held'[t] \in {0, 1} /\ kind[t] \notin {"create", "cancel"}
  BY <1>1, <1>2
<1> QED BY <1>1, <1>2, <1>3, Unchanged, AnswerStep

-----------------------------------------------------------------------------
(* The database fails *)

(* The status an error of the database leaves a request with. *)
StatusBroken(t) ==
  IF status[t] >= 400 THEN status[t] ELSE StatusOf(kind[t], "DatabaseError")

LEMMA BreakStatus ==
  ASSUME Inv, NEW t \in Tasks
  PROVE  /\ StatusOf(kind[t], "DatabaseError") \in Statuses /\ StatusBroken(t) \in Statuses
         /\ StatusOf(kind[t], "DatabaseError") \in {500, 503}
         /\ kind[t] # "health" /\ status[t] = 0 => StatusBroken(t) = 500
<1>1. status[t] \in Statuses /\ kind[t] \in Kinds
  BY DEF Inv, TypeOK
<1>2. StatusOf(kind[t], "DatabaseError") = IF kind[t] = "health" THEN 503 ELSE 500
  BY <1>1, DatabaseStatus
<1> QED BY <1>1, <1>2 DEF StatusBroken, Statuses

(* A run records its failure, or lets go of its lock; what could not be      *)
(* saved is given back; all else is answered.                                *)
LEMMA BreakCases ==
  ASSUME NEW t \in Tasks, Break(t)
  PROVE  \/ /\ goal[t] \in {"store", "finish"} /\ Move(t, "queued", "fail")
            /\ status' = [status EXCEPT ![t] = StatusBroken(t)]
         \/ /\ goal[t] \in {"begin", "fail"} /\ Move(t, "database", "unlock")
            /\ status' = [status EXCEPT ![t] = StatusBroken(t)]
         \/ /\ goal[t] = "save" /\ Move(t, "provider", "compensate")
            /\ status' = [status EXCEPT ![t] = StatusBroken(t)]
         \/ /\ goal[t] \notin Writes \cup {"save"}
            /\ Answer(t, StatusOf(kind[t], "DatabaseError"))
BY DEF Break, StatusBroken, Writes

LEMMA AnsweredBroken ==
  ASSUME Inv, NEW t \in Tasks, Answer(t, StatusOf(kind[t], "DatabaseError")),
         UNCHANGED <<kind, syncing>>, faults' \in Nat,
         Only(held, held', t, 0 .. 2), held'[t] \in {0, 1}, held'[t] <= held[t],
         Only(force, force', t, Wheres)
  PROVE  Inv'
<1>1. PICK code \in {500, 503} : Answer(t, code)
  BY BreakStatus
<1>2. code \in Statuses /\ ~(code < 300) /\ code \notin 400 .. 499
  BY <1>1 DEF Statuses
<1> QED BY <1>1, <1>2, AnswerStep

(* A run goes on, to record that it has failed or to let go of its lock. *)
LEMMA RunBroken ==
  ASSUME Inv, NEW t \in Tasks, place[t] \in Busy, kind[t] = "sync", held'[t] = 1,
         \/ Move(t, "queued", "fail") \/ Move(t, "database", "unlock"),
         status' = [status EXCEPT ![t] = StatusBroken(t)],
         UNCHANGED <<kind, syncing>>, faults' \in Nat,
         Only(held, held', t, 0 .. 2), held'[t] <= held[t],
         Only(force, force', t, Wheres)
  PROVE  Inv'
<1>1. Only(status, status', t, Statuses)
  <2>1. StatusBroken(t) \in Statuses
    BY BreakStatus
  <2> QED BY <2>1 DEF Inv, TypeOK, Only
<1>2. CASE Move(t, "queued", "fail")
  <2>1. ASSUME place'[t] = "queued", goal'[t] = "fail"
        PROVE  OnCourse(t)' /\ SoFar(t)'
    BY <2>1 DEF OnCourse, Is, SoFar, Writes
  <2>2. "fail" \in Goals /\ "queued" \in Busy
    BY DEF Goals, Busy
  <2> QED BY <1>1, <1>2, <2>1, <2>2, MoveStep
<1>3. CASE Move(t, "database", "unlock")
  <2>1. ASSUME place'[t] = "database", goal'[t] = "unlock"
        PROVE  OnCourse(t)' /\ SoFar(t)'
    BY <2>1 DEF OnCourse, Is, SoFar
  <2>2. "unlock" \in Goals /\ "database" \in Busy
    BY DEF Goals, Busy
  <2> QED BY <1>1, <1>3, <2>1, <2>2, MoveStep
<1> QED BY <1>2, <1>3

LEMMA PoolTimeoutInv == ASSUME Inv, NEW t \in Tasks, PoolTimeout(t) PROVE Inv'
<1>1. /\ place[t] = "queued" /\ Break(t) /\ UNCHANGED <<kind, held, force, syncing>>
      /\ faults' \in Nat /\ place[t] \in Busy
  BY DEF PoolTimeout, Fault, Inv, TypeOK, Busy
<1>2. goal[t] # "save" /\ held'[t] \in {0, 1}
      /\ (goal[t] \in Writes => kind[t] = "sync" /\ held'[t] = 1)
  BY <1>1, Waiting DEF Writes
<1>3. CASE goal[t] \in Writes
  <2>1. /\ Move(t, "queued", "fail") \/ Move(t, "database", "unlock")
        /\ status' = [status EXCEPT ![t] = StatusBroken(t)]
    BY <1>1, <1>2, <1>3, BreakCases DEF Writes
  <2> QED BY <1>1, <1>2, <1>3, <2>1, Unchanged, RunBroken
<1>4. CASE goal[t] \notin Writes
  <2>1. Answer(t, StatusOf(kind[t], "DatabaseError"))
    BY <1>1, <1>2, <1>4, BreakCases DEF Writes
  <2> QED BY <1>1, <1>2, <2>1, Unchanged, AnsweredBroken
<1> QED BY <1>3, <1>4

LEMMA DatabaseFailsInv == ASSUME Inv, NEW t \in Tasks, DatabaseFails(t) PROVE Inv'
<1>1. /\ place[t] = "database" /\ Break(t) /\ UNCHANGED <<kind, syncing>>
      /\ IF goal[t] \in Transactions THEN GiveBack(t) ELSE UNCHANGED held
      /\ UNCHANGED force \/ (goal[t] \in {"save", "mark"} /\ Enforce(t, "table"))
      /\ faults' \in Nat /\ place[t] \in Busy
  BY DEF DatabaseFails, Fault, Inv, TypeOK, Busy
<1>2. /\ Only(force, force', t, Wheres) /\ Only(held, held', t, 0 .. 2) /\ held'[t] <= held[t]
      /\ held'[t] = IF goal[t] \in Transactions THEN held[t] - 1 ELSE held[t]
      /\ UNCHANGED force \/ force'[t] = force[t] \cup {"table"}
  BY <1>1, Unchanged, Changed
<1>3. CASE goal[t] \in Writes
  <2>1. kind[t] = "sync" /\ held[t] = 2 /\ goal[t] \in Transactions
    BY <1>1, <1>3, Executing DEF Writes, Transactions
  <2>2. held'[t] = 1
    BY <1>2, <2>1
  <2>3. /\ Move(t, "queued", "fail") \/ Move(t, "database", "unlock")
        /\ status' = [status EXCEPT ![t] = StatusBroken(t)]
    BY <1>1, <1>3, BreakCases DEF Writes
  <2> QED BY <1>1, <1>2, <2>1, <2>2, <2>3, RunBroken
<1>4. CASE goal[t] = "save"
  <2>1. /\ Move(t, "provider", "compensate")
        /\ status' = [status EXCEPT ![t] = StatusBroken(t)]
    BY <1>1, <1>4, BreakCases DEF Writes
  <2>2. /\ kind[t] = "create" /\ held[t] = 1 /\ status[t] = 0 /\ force[t] = {"provider"}
        /\ goal[t] \in Transactions
    BY <1>1, <1>4, Executing DEF Transactions
  <2>3. held'[t] = 0 /\ StatusBroken(t) = 500 /\ "provider" \in force'[t]
    BY <1>2, <2>2, BreakStatus
  <2>4. Only(status, status', t, Statuses) /\ status'[t] = 500
    BY <2>1, <2>3 DEF Inv, TypeOK, Only, Statuses
  <2>5. ASSUME place'[t] = "provider", goal'[t] = "compensate"
        PROVE  OnCourse(t)' /\ SoFar(t)'
    BY <1>1, <2>2, <2>3, <2>4, <2>5 DEF OnCourse, Is, SoFar
  <2>6. "compensate" \in Goals /\ "provider" \in Busy
    BY DEF Goals, Busy
  <2> QED BY <1>1, <1>2, <2>1, <2>4, <2>5, <2>6, MoveStep
<1>5. CASE goal[t] \notin Writes \cup {"save"}
  <2>1. Answer(t, StatusOf(kind[t], "DatabaseError"))
    BY <1>1, <1>5, BreakCases DEF Writes
  <2>2. held[t] = 1
    BY <1>1, <1>5, Executing, Reading DEF At
  <2>3. held'[t] \in {0, 1}
    BY <1>2, <2>2
  <2> QED BY <1>1, <1>2, <2>1, <2>3, AnsweredBroken
<1> QED BY <1>3, <1>4, <1>5

-----------------------------------------------------------------------------
(* Theorems *)

LEMMA InvInit == Init => Inv
<1> SUFFICES ASSUME Init PROVE Inv
  OBVIOUS
<1>1. CheckedOut = {}
  BY DEF Init, CheckedOut
<1>2. InUse <= Capacity
  BY <1>1, FS_EmptySet, PoolAssumption DEF InUse
<1>3. TypeOK
  BY <1>2 DEF Init, TypeOK, Kinds, Goals, Statuses
<1>4. \A t \in Tasks : OnCourse(t) /\ SoFar(t) /\ RunHasLock(t)
  BY DEF Init, OnCourse, Is, SoFar, RunHasLock
<1>5. StatusTellsOutcome
  BY DEF Init, StatusTellsOutcome
<1> QED BY <1>3, <1>4, <1>5 DEF Inv

LEMMA ProviderStepInv == ASSUME Inv, NEW t \in Tasks, ProviderStep(t) PROVE Inv'
<1>1. CASE \/ \E answer \in Answers \cup {"unusable"} : SeatsAnswered(t, answer)
           \/ \E answer \in Answers : Released(t, answer) \/ Compensated(t, answer)
  BY <1>1, SeatsAnsweredInv, ReleasedInv, CompensatedInv
<1>2. CASE \E answer \in Errors : RegisterFails(t, answer) \/ ReleaseFails(t, answer)
  BY <1>2, RegisterFailsInv, ReleaseFailsInv
<1>3. CASE \E answer \in Errors \cup {"loop", "unusable"} : PageFails(t, answer)
  BY <1>3, PageFailsInv
<1>4. CASE Registered(t)
  BY <1>4, RegisteredInv
<1>5. CASE Page(t, "store") \/ Page(t, "finish")
  BY <1>5, PageInv
<1> QED BY <1>1, <1>2, <1>3, <1>4, <1>5 DEF ProviderStep

LEMMA DatabaseStepInv == ASSUME Inv, NEW t \in Tasks, DatabaseStep(t) PROVE Inv'
<1>1. CASE ReadRejects(t) \/ ReadSuffices(t) \/ ReadPasses(t)
  BY <1>1, ReadRejectsInv, ReadSufficesInv, ReadPassesInv
<1>2. CASE \E acquired \in BOOLEAN : TryLock(t, acquired)
  BY <1>2, TryLockInv
<1>3. CASE Recorded(t) \/ Committed(t) \/ RunEnds(t) \/ Unlock(t)
  BY <1>3, RecordedInv, CommittedInv, RunEndsInv, UnlockInv
<1> QED BY <1>1, <1>2, <1>3 DEF DatabaseStep

LEMMA InvNext == Inv /\ [Next]_vars => Inv'
<1> SUFFICES ASSUME Inv, [Next]_vars PROVE Inv'
  OBVIOUS
<1>1. CASE Next
  <2> PICK t \in Tasks :
        \/ \E k \in KindsOf(t) : Arrive(t, k)
        \/ ArriveInvalid(t) \/ ArriveSync(t)
        \/ CheckOut(t) \/ DatabaseStep(t) \/ ProviderStep(t) \/ Close(t)
        \/ PoolTimeout(t) \/ DatabaseFails(t)
    BY <1>1 DEF Next
  <2>1. CASE \E k \in KindsOf(t) : Arrive(t, k)
    BY <2>1, ArriveInv
  <2>2. CASE ArriveInvalid(t) \/ ArriveSync(t) \/ CheckOut(t) \/ Close(t)
    BY <2>2, ArriveInvalidInv, ArriveSyncInv, CheckOutInv, CloseInv
  <2>3. CASE DatabaseStep(t) \/ ProviderStep(t)
    BY <2>3, DatabaseStepInv, ProviderStepInv
  <2>4. CASE PoolTimeout(t) \/ DatabaseFails(t)
    BY <2>4, PoolTimeoutInv, DatabaseFailsInv
  <2> QED BY <2>1, <2>2, <2>3, <2>4
<1>2. CASE UNCHANGED vars
  BY <1>2 DEF vars, Inv, TypeOK, InUse, CheckedOut, StatusTellsOutcome, OnCourse, Is,
              SoFar, RunHasLock
<1> QED BY <1>1, <1>2

(* Every request keeps to the way of its kind through the process, with the  *)
(* connections of the place it has come to and what it has done in force.   *)
THEOREM Invariance == Spec => []Inv
BY InvInit, InvNext, PTL DEF Spec

(* Every state is well typed, and the process never has more connections     *)
(* than its pool may open.                                                   *)
THEOREM TypeCorrect == Spec => []TypeOK
<1>1. Inv => TypeOK
  BY DEF Inv
<1> QED BY <1>1, Invariance, PTL

(* A success means that what was asked for is in force at the Provider and   *)
(* in the table, and a 4xx that it is in force in neither.                  *)
THEOREM StatusIsTrue == Spec => []StatusTellsOutcome
<1>1. Inv => StatusTellsOutcome
  BY DEF Inv
<1> QED BY <1>1, Invariance, PTL

(* A handler waits for the pool before it does anything, and never again.   *)
THEOREM PoolIsAskedFirst == Spec => []QueuesFirst
<1>1. Inv => QueuesFirst
  BY DEF Inv, QueuesFirst, OnCourse, Is
<1> QED BY <1>1, Invariance, PTL

(* A request that has failed keeps its status until it is over.              *)
LEMMA FirstErrorStays ==
  ASSUME Inv, Next, NEW t \in Tasks, status[t] >= 400, ~At(t, "database", "unlock")
  PROVE  status'[t] \in {status[t], 0}
<1>1. PICK u \in Tasks :
        \/ \E k \in KindsOf(u) : Arrive(u, k)
        \/ ArriveInvalid(u) \/ ArriveSync(u)
        \/ CheckOut(u) \/ DatabaseStep(u) \/ ProviderStep(u) \/ Close(u)
        \/ PoolTimeout(u) \/ DatabaseFails(u)
  BY DEF Next
<1>2. status \in [Tasks -> Statuses]
  BY DEF Inv, TypeOK
<1>3. \/ place[t] = "closing"
      \/ place[t] = "provider" /\ goal[t] = "compensate"
      \/ place[t] \in {"queued", "database"} /\ goal[t] = "fail"
  <2>1. place[t] = "closing" \/ goal[t] \in {"compensate", "fail", "unlock"}
    BY DEF Inv, SoFar
  <2> QED BY <2>1 DEF Inv, OnCourse, Is, At, Writes
<1>4. CASE \/ \E answer \in Answers : Released(u, answer)
           \/ \E k \in KindsOf(u) : Arrive(u, k)
           \/ Registered(u) \/ Page(u, "store") \/ Page(u, "finish") \/ CheckOut(u)
           \/ ReadPasses(u) \/ Committed(u)
  BY <1>4 DEF Released, Arrive, Registered, Page, CheckOut, ReadPasses, Committed
<1>5. CASE \/ ArriveInvalid(u) \/ ArriveSync(u) \/ ReadRejects(u) \/ ReadSuffices(u)
           \/ Recorded(u) \/ \E acquired \in BOOLEAN : TryLock(u, acquired)
           \/ Unlock(u) \/ \E answer \in Answers \cup {"unusable"} : SeatsAnswered(u, answer)
           \/ \E answer \in Errors : RegisterFails(u, answer) \/ ReleaseFails(u, answer)
           \/ \E answer \in Errors \cup {"loop", "unusable"} : PageFails(u, answer)
  <2>1. \/ place[u] = "idle" \/ At(u, "database", "unlock")
        \/ place[u] # "closing" /\ goal[u] \notin {"compensate", "fail"}
    BY <1>5 DEF ArriveInvalid, ArriveSync, ReadRejects, ReadSuffices, Recorded, TryLock,
                Unlock, SeatsAnswered, RegisterFails, ReleaseFails, PageFails, Awaits, At
  <2>2. UNCHANGED status \/ \E code : status' = [status EXCEPT ![u] = code]
    BY <1>5 DEF ArriveInvalid, ArriveSync, ReadRejects, ReadSuffices, Recorded, TryLock,
                Unlock, SeatsAnswered, RegisterFails, ReleaseFails, PageFails, Answer
  <2> QED BY <1>2, <1>3, <2>1, <2>2
<1>6. CASE RunEnds(u)
  BY <1>2, <1>3, <1>6 DEF RunEnds
<1>7. CASE \E answer \in Answers : Compensated(u, answer)
  BY <1>2, <1>7 DEF Compensated, FirstError, Answer
<1>8. CASE Close(u)
  BY <1>2, <1>8 DEF Close
<1>9. CASE PoolTimeout(u) \/ DatabaseFails(u)
  <2>1. place[u] \in {"queued", "database"} /\ Break(u)
    BY <1>9 DEF PoolTimeout, DatabaseFails
  <2>2. CASE u = t
    <3>1. goal[t] = "fail"
      BY <1>3, <2>1, <2>2
    <3>2. status' = [status EXCEPT ![t] = StatusBroken(t)]
      BY <2>1, <2>2, <3>1, BreakCases DEF Writes
    <3> QED BY <1>2, <3>2 DEF StatusBroken
  <2>3. CASE u # t
    <3>1. \E code : status' = [status EXCEPT ![u] = code]
      BY <2>1, BreakCases DEF Answer
    <3> QED BY <1>2, <2>3, <3>1
  <2> QED BY <2>2, <2>3
<1> QED BY <1>1, <1>4, <1>5, <1>6, <1>7, <1>8, <1>9 DEF DatabaseStep, ProviderStep

(* Each error the client of the Provider raises has a status that is not     *)
(* this service's own, whatever its class, and nothing that fails later, in  *)
(* the compensation or in mark_failed, takes the place of it: only the       *)
(* release of the lock may.                                                  *)
THEOREM ErrorsOfTheProviderAreItsOwn == Spec => ProviderErrorsAreNotOurs
<1>1. ASSUME Inv, NEW t \in Tasks, NEW answer \in Errors \cup {"loop"}, FailsBy(t, answer)
      PROVE  status'[t] \in {404, 409, 502}
  <2>1. StatusOfError(ErrorOf(answer)) \in {404, 409, 502} /\ answer # "ok"
    BY ErrorStatus DEF Errors
  <2>2. status' = [status EXCEPT ![t] = StatusOfError(ErrorOf(answer))]
    BY <1>1, <2>1 DEF FailsBy, SeatsAnswered, RegisterFails, ReleaseFails, PageFails, Answer
  <2> QED BY <1>1, <2>1, <2>2 DEF Inv, TypeOK
<1>2. Inv /\ [Next]_vars =>
        [\A t \in Tasks :
           /\ \A answer \in Errors \cup {"loop"} :
                FailsBy(t, answer) => status'[t] \in {404, 409, 502}
           /\ status[t] >= 400 /\ ~At(t, "database", "unlock") =>
                status'[t] \in {status[t], 0}]_vars
  BY <1>1, FirstErrorStays DEF vars
<1> QED BY <1>2, Invariance, PTL DEF Spec, ProviderErrorsAreNotOurs

=============================================================================
