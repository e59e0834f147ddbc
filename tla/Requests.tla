------------------------------ MODULE Requests ------------------------------
(***************************************************************************)
(* One process serving requests: the handlers of api/routes.py, the         *)
(* sessions they get from api/dependencies.py, the pool of database         *)
(* connections, the answers of the Provider as provider/client.py reports   *)
(* them, and the HTTP statuses api/errors.py makes of what is raised.       *)
(*                                                                         *)
(* A session takes a connection from the pool at its first statement and    *)
(* gives it back at COMMIT, at ROLLBACK or when the request is over: so a   *)
(* handler that has read a row keeps the connection while it awaits the     *)
(* Provider.  A run of the synchronisation keeps one for its lock and takes *)
(* another for each of its transactions (worker.py, application/sync.py).   *)
(* What a run writes is in EventSync, who may start one in SyncScheduler,   *)
(* and what two requests about one ticket do to each other in Tickets.      *)
(***************************************************************************)
EXTENDS Integers, FiniteSets, Sequences, FiniteSetsExt, SequencesExt

CONSTANTS
  Handlers,   \* requests the process can have at hand at one time
  Worker,     \* the worker task, which runs the synchronisation too
  Nobody,     \* the local lock is free
  Capacity,   \* connections the pool may open, overflow included
  MaxFaults   \* bound: database errors and pool timeouts, in all

ASSUME TaskAssumption == Worker \notin Handlers /\ Nobody \notin Handlers \cup {Worker}
ASSUME FiniteAssumption == IsFiniteSet(Handlers)
ASSUME PoolAssumption == Capacity \in Nat \ {0} /\ MaxFaults \in Nat

Tasks == Handlers \cup {Worker}

VARIABLES
  kind,      \* what a request asks for
  place,     \* what its handler awaits
  goal,      \* what it awaits it for
  held,      \* connections it has checked out
  status,    \* HTTP status it is going to answer, 0 while that is open
  force,     \* where what it asks for is in force: at the Provider, in the table
  syncing,   \* the task that holds _local_lock
  faults     \* faults so far

vars == <<kind, place, goal, held, status, force, syncing, faults>>

Kinds == {"health", "read", "seats", "create", "cancel", "sync"}

KindsOf(t) == IF t = Worker THEN {"read", "sync"} ELSE Kinds

Init ==
  /\ kind = [t \in Tasks |-> "read"]
  /\ place = [t \in Tasks |-> "idle"]
  /\ goal = [t \in Tasks |-> "none"]
  /\ held = [t \in Tasks |-> 0]
  /\ status = [t \in Tasks |-> 0]
  /\ force = [t \in Tasks |-> {}]
  /\ syncing = Nobody
  /\ faults = 0

-----------------------------------------------------------------------------
(* From answers of the Provider to exceptions, and to statuses *)

(* What becomes of a request: a success, 404, another 4xx that is a          *)
(* rejection, any other error or none at all, or a success that makes no     *)
(* sense.  The client raises an error for all but the first.  It does not    *)
(* look into a string: when no request can be made of a cursor or a link, or *)
(* no response of a seat, the error is Python's or that of a library.        *)
ErrorOf(answer) ==
  CASE answer = "404" -> "ProviderNotFoundError"
    [] answer = "409" -> "ProviderConflictError"
    [] answer = "unavailable" -> "ProviderError"
    [] answer = "nonsense" -> "ProviderResponseError"
    [] answer = "loop" -> "PaginationLoopError"
    [] answer = "unusable" -> "ValueError"

(* The class of an exception and its base classes, in order. *)
Mro(error) ==
  CASE error \in {"ProviderNotFoundError", "ProviderConflictError", "ProviderResponseError"} ->
         <<error, "ProviderError", "DomainError">>
    [] error = "PaginationLoopError" ->
         <<error, "ProviderResponseError", "ProviderError", "DomainError">>
    [] error \in {"DatabaseError", "ValueError"} -> <<error>>
    [] OTHER -> <<error, "DomainError">>

(* The classes that register_error_handlers knows. *)
HandlerStatus(class) ==
  CASE class \in {"EventNotFoundError", "TicketNotFoundError", "ProviderNotFoundError"} -> 404
    [] class \in {"EventUnavailableError", "RegistrationClosedError",
                  "ProviderConflictError"} -> 409
    [] class = "SyncInProgressError" -> 202
    [] class = "ProviderError" -> 502
    [] OTHER -> 500

(* Mutation: a handler serves its own class only. *)
StatusOfClass(error) == HandlerStatus(error)

(* The handler of the first class that has one; without one it is a 500. *)
StatusOfError(error) ==
  LET handled == {i \in DOMAIN Mro(error) : HandlerStatus(Mro(error)[i]) # 500}
  IN IF handled = {} THEN 500 ELSE HandlerStatus(Mro(error)[Min(handled)])

(* The health check answers 503 whatever is raised. *)
StatusOf(k, error) == IF k = "health" THEN 503 ELSE StatusOfError(error)

Success(k) == IF k = "create" THEN 201 ELSE 200

-----------------------------------------------------------------------------
(* Moves of a task *)

Move(t, next, purpose) ==
  /\ place' = [place EXCEPT ![t] = next]
  /\ goal' = [goal EXCEPT ![t] = purpose]

(* A statement: on the session's connection, or on one from the pool. *)
Query(t, own, purpose) == Move(t, IF own > 0 THEN "database" ELSE "queued", purpose)

Answer(t, code) ==
  /\ Move(t, "closing", "none")
  /\ status' = [status EXCEPT ![t] = code]

(* COMMIT or ROLLBACK ends the transaction of the session. *)
GiveBack(t) == held' = [held EXCEPT ![t] = @ - 1]

Enforce(t, where) == force' = [force EXCEPT ![t] = @ \cup {where}]

Fault ==
  /\ faults < MaxFaults
  /\ faults' = faults + 1

-----------------------------------------------------------------------------
(* Requests arrive *)

(* What a cancellation asks for may be in force in part or in full already. *)
ForceAtFirst(k) ==
  IF k = "cancel" THEN {{}, {"provider"}, {"provider", "table"}} ELSE {{}}

Arrive(t, k) ==
  /\ place[t] = "idle"
  /\ k # "sync"
  /\ kind' = [kind EXCEPT ![t] = k]
  /\ Move(t, "queued", "read")
  /\ \E f \in ForceAtFirst(k) : force' = [force EXCEPT ![t] = f]
  /\ UNCHANGED <<held, status, syncing, faults>>

(* Path, query or body do not validate: no session is used. *)
ArriveInvalid(t) ==
  /\ place[t] = "idle"
  /\ t # Worker
  /\ Answer(t, 400)
  /\ UNCHANGED <<kind, held, force, syncing, faults>>

(* SyncCoordinator.run: rejected at once if a run of this process is on. *)
ArriveSync(t) ==
  /\ place[t] = "idle"
  /\ kind' = [kind EXCEPT ![t] = "sync"]
  /\ IF syncing = Nobody
       THEN /\ syncing' = t
            /\ Move(t, "queued", "lock")
            /\ UNCHANGED status
       ELSE Answer(t, StatusOfError("SyncInProgressError")) /\ UNCHANGED syncing
  /\ UNCHANGED <<held, force, faults>>

-----------------------------------------------------------------------------
(* The pool *)

(* A handler has one connection at most, a run two. *)
CheckedOut == {c \in Tasks \X {1, 2} : c[2] <= held[c[1]]}

InUse == Cardinality(CheckedOut)

Free == InUse < Capacity

CheckOut(t) ==
  /\ place[t] = "queued"
  /\ Free
  /\ held' = [held EXCEPT ![t] = @ + 1]
  /\ place' = [place EXCEPT ![t] = "database"]
  /\ UNCHANGED <<kind, goal, status, force, syncing, faults>>

(* Mutation: the connection of a request that fails is not given back. *)
LeakedOnError(t) == IF status[t] >= 400 THEN held[t] ELSE 0

HeldAfter(t) == 0

(* The dependency closes the session, the coordinator its connection. *)
Close(t) ==
  /\ place[t] = "closing"
  /\ Move(t, "idle", "none")
  /\ held' = [held EXCEPT ![t] = HeldAfter(t)]
  /\ status' = [status EXCEPT ![t] = 0]
  /\ force' = [force EXCEPT ![t] = {}]
  /\ kind' = [kind EXCEPT ![t] = "read"]
  /\ syncing' = IF syncing = t THEN Nobody ELSE syncing
  /\ UNCHANGED faults

-----------------------------------------------------------------------------
(* The first statement of a handler *)

(* Mutation: the session is closed before the Provider is called. *)
HeldNever(t) == 0

HeldWhileCalling(t) == held[t]

Call(t, purpose) ==
  /\ Move(t, "provider", purpose)
  /\ held' = [held EXCEPT ![t] = HeldWhileCalling(t)]

Rejections(k) ==
  CASE k \in {"read", "seats"} -> {"EventNotFoundError"}
    [] k = "create" -> {"EventNotFoundError", "EventUnavailableError", "RegistrationClosedError"}
    [] k = "cancel" -> {"TicketNotFoundError"}
    [] OTHER -> {}

At(t, where, purpose) == place[t] = where /\ goal[t] = purpose

ReadRejects(t) ==
  /\ At(t, "database", "read")
  /\ force[t] = {}
  /\ \E error \in Rejections(kind[t]) : Answer(t, StatusOfError(error))
  /\ UNCHANGED <<kind, held, force, syncing, faults>>

(* The row is there: the handler is done, or goes on to the Provider.  A   *)
(* ticket already cancelled needs no more, nor do seats in the cache, which *)
(* are of no more use than they were when they came.                       *)
ReadSuffices(t) ==
  /\ At(t, "database", "read")
  /\ kind[t] \in {"health", "read", "seats"} \/ "table" \in force[t]
  /\ \/ Answer(t, Success(kind[t]))
     \/ kind[t] = "seats" /\ Answer(t, StatusOfError(ErrorOf("unusable")))
  /\ UNCHANGED <<kind, held, force, syncing, faults>>

ReadPasses(t) ==
  /\ At(t, "database", "read")
  /\ kind[t] \in {"seats", "create", "cancel"} /\ "table" \notin force[t]
  /\ Call(t, kind[t])
  /\ UNCHANGED <<kind, status, force, syncing, faults>>

-----------------------------------------------------------------------------
(* The Provider answers *)

Errors == {"404", "409", "unavailable", "nonsense"}

(* The request may have been served although its answer is an error. *)
Uncertain == {"unavailable", "nonsense"}

Awaits(t, k) == At(t, "provider", k)

SeatsAnswered(t, answer) ==
  /\ Awaits(t, "seats")
  /\ Answer(t, IF answer = "ok" THEN 200 ELSE StatusOfError(ErrorOf(answer)))
  /\ UNCHANGED <<kind, held, force, syncing, faults>>

(* CreateTicketUseCase: the INSERT follows on the session's connection. *)
Registered(t) ==
  /\ Awaits(t, "create")
  /\ Enforce(t, "provider")
  /\ Query(t, held[t], "save")
  /\ UNCHANGED <<kind, held, status, syncing, faults>>

RegisterFails(t, answer) ==
  /\ Awaits(t, "create")
  /\ Answer(t, StatusOfError(ErrorOf(answer)))
  /\ UNCHANGED force \/ (answer \in Uncertain /\ Enforce(t, "provider"))
  /\ UNCHANGED <<kind, held, syncing, faults>>

(* CancelTicketUseCase: an absent registration is as good as a cancelled one. *)
Released(t, answer) ==
  /\ Awaits(t, "cancel")
  /\ \/ answer = "ok"
     \/ answer = "404" /\ "provider" \in force[t]
  /\ Enforce(t, "provider")
  /\ Query(t, held[t], "mark")
  /\ UNCHANGED <<kind, held, status, syncing, faults>>

(* A rejection leaves the registration as it was, so it is assumed that the  *)
(* Provider rejects no cancellation of a registration that is gone: it       *)
(* answers 404.                                                              *)
ReleaseFails(t, answer) ==
  /\ Awaits(t, "cancel")
  /\ answer # "404"
  /\ answer = "409" => "provider" \notin force[t]
  /\ Answer(t, StatusOfError(ErrorOf(answer)))
  /\ UNCHANGED force \/ (answer \in Uncertain /\ Enforce(t, "provider"))
  /\ UNCHANGED <<kind, held, syncing, faults>>

(* Mutation: an error of the compensation takes the place of the first one. *)
LastError(t, answer) ==
  IF answer = "ok" THEN status[t] ELSE StatusOfError(ErrorOf(answer))

FirstError(t, answer) == status[t]

(* Whatever comes of the compensation, the first error is raised. *)
Compensated(t, answer) ==
  /\ Awaits(t, "compensate")
  /\ Answer(t, FirstError(t, answer))
  /\ \/ /\ answer \in {"ok"} \cup Uncertain
        /\ force' = [force EXCEPT ![t] = @ \ {"provider"}]
     \/ answer \in {"409"} \cup Uncertain /\ UNCHANGED force
  /\ UNCHANGED <<kind, held, syncing, faults>>

(* A page of the paginator: more batches to come, or the end of the loop. *)
Page(t, next) ==
  /\ Awaits(t, "page")
  /\ Move(t, "queued", next)
  /\ UNCHANGED <<kind, held, status, force, syncing, faults>>

PageFails(t, answer) ==
  /\ Awaits(t, "page")
  /\ status' = [status EXCEPT ![t] = StatusOfError(ErrorOf(answer))]
  /\ Move(t, "queued", "fail")
  /\ UNCHANGED <<kind, held, force, syncing, faults>>

-----------------------------------------------------------------------------
(* The other statements *)

(* tickets.create or tickets.mark_cancelled commits. *)
Recorded(t) ==
  /\ place[t] = "database" /\ goal[t] \in {"save", "mark"}
  /\ Enforce(t, "table")
  /\ GiveBack(t)
  /\ Answer(t, Success(kind[t]))
  /\ UNCHANGED <<kind, syncing, faults>>

(* pg_try_advisory_lock; a run of another replica may hold the lock. *)
TryLock(t, acquired) ==
  /\ At(t, "database", "lock")
  /\ IF acquired
       THEN Move(t, "queued", "begin") /\ UNCHANGED status
       ELSE Answer(t, StatusOfError("SyncInProgressError"))
  /\ UNCHANGED <<kind, held, force, syncing, faults>>

(* mark_running or a batch has been committed: the next page is asked for. *)
Committed(t) ==
  /\ place[t] = "database" /\ goal[t] \in {"begin", "store"}
  /\ GiveBack(t)
  /\ Move(t, "provider", "page")
  /\ UNCHANGED <<kind, status, force, syncing, faults>>

(* mark_success or mark_failed has been committed. *)
RunEnds(t) ==
  /\ place[t] = "database" /\ goal[t] \in {"finish", "fail"}
  /\ status' = [status EXCEPT ![t] = IF goal[t] = "finish" THEN 200 ELSE @]
  /\ GiveBack(t)
  /\ Move(t, "database", "unlock")
  /\ UNCHANGED <<kind, force, syncing, faults>>

Unlock(t) ==
  /\ At(t, "database", "unlock")
  /\ Answer(t, status[t])
  /\ UNCHANGED <<kind, held, force, syncing, faults>>

-----------------------------------------------------------------------------
(* The database fails *)

(* What an error while t is after its goal leads to.  A run records its      *)
(* failure in another transaction, unless it has not begun or that is what  *)
(* failed; a ticket that cannot be saved is given back to the Provider.      *)
Break(t) ==
  LET code == IF status[t] >= 400 THEN status[t] ELSE StatusOf(kind[t], "DatabaseError") IN
  CASE goal[t] \in {"store", "finish"} ->
         Move(t, "queued", "fail") /\ status' = [status EXCEPT ![t] = code]
    [] goal[t] \in {"begin", "fail"} ->
         Move(t, "database", "unlock") /\ status' = [status EXCEPT ![t] = code]
    [] goal[t] = "save" ->
         Move(t, "provider", "compensate") /\ status' = [status EXCEPT ![t] = code]
    [] OTHER -> Answer(t, StatusOf(kind[t], "DatabaseError"))

(* QueuePool limit reached, connection timed out. *)
PoolTimeout(t) ==
  /\ place[t] = "queued"
  /\ ~Free
  /\ Fault
  /\ Break(t)
  /\ UNCHANGED <<kind, held, force, syncing>>

(* Statements of these are rolled back at once, the others with the session. *)
Transactions == {"save", "mark", "begin", "store", "finish", "fail"}

(* A statement or a COMMIT raises; the COMMIT may have been applied. *)
DatabaseFails(t) ==
  /\ place[t] = "database"
  /\ Fault
  /\ Break(t)
  /\ IF goal[t] \in Transactions THEN GiveBack(t) ELSE UNCHANGED held
  /\ UNCHANGED force \/ (goal[t] \in {"save", "mark"} /\ Enforce(t, "table"))
  /\ UNCHANGED <<kind, syncing>>

-----------------------------------------------------------------------------
(* Specification *)

Answers == {"ok"} \cup Errors

ProviderStep(t) ==
  \/ \E answer \in Answers \cup {"unusable"} : SeatsAnswered(t, answer)
  \/ \E answer \in Answers : Released(t, answer) \/ Compensated(t, answer)
  \/ \E answer \in Errors : RegisterFails(t, answer) \/ ReleaseFails(t, answer)
  \/ \E answer \in Errors \cup {"loop", "unusable"} : PageFails(t, answer)
  \/ Registered(t) \/ Page(t, "store") \/ Page(t, "finish")

DatabaseStep(t) ==
  \/ ReadRejects(t) \/ ReadSuffices(t) \/ ReadPasses(t) \/ Recorded(t)
  \/ \E acquired \in BOOLEAN : TryLock(t, acquired)
  \/ Committed(t) \/ RunEnds(t) \/ Unlock(t)

Next ==
  \E t \in Tasks :
    \/ \E k \in KindsOf(t) : Arrive(t, k)
    \/ ArriveInvalid(t) \/ ArriveSync(t)
    \/ CheckOut(t) \/ DatabaseStep(t) \/ ProviderStep(t) \/ Close(t)
    \/ PoolTimeout(t) \/ DatabaseFails(t)

Spec == Init /\ [][Next]_vars

(* Statements and requests end, by a timeout at the latest; the pool serves  *)
(* those who wait in order; a listing of the Provider has a last page.      *)
FairSpec ==
  /\ Spec
  /\ \A t \in Tasks :
       /\ WF_vars(DatabaseStep(t) \/ ProviderStep(t) \/ Close(t))
       /\ SF_vars(CheckOut(t))
  /\ SF_vars(\E t \in Tasks : Page(t, "finish"))

-----------------------------------------------------------------------------
(* Properties *)

Statuses == {0, 200, 201, 202, 400, 404, 409, 500, 502, 503}

Goals == {"none", "read", "seats", "create", "cancel", "compensate", "save", "mark",
          "lock", "begin", "page", "store", "finish", "fail", "unlock"}

TypeOK ==
  /\ kind \in [Tasks -> Kinds]
  /\ place \in [Tasks -> {"idle", "queued", "database", "provider", "closing"}]
  /\ goal \in [Tasks -> Goals]
  /\ held \in [Tasks -> 0 .. 2] /\ InUse <= Capacity
  /\ status \in [Tasks -> Statuses]
  /\ force \in [Tasks -> SUBSET {"provider", "table"}]
  /\ syncing \in Tasks \cup {Nobody}
  /\ faults \in Nat
  /\ \A t \in Tasks : place[t] = "database" => held[t] > 0

(* What a client is told of a ticket is true: after a success what it asked *)
(* for is in force at the Provider and in the table, and after a 4xx it is   *)
(* in force in neither.                                                      *)
StatusTellsOutcome ==
  \A t \in Tasks :
    place[t] = "closing" /\ kind[t] \in {"create", "cancel"} =>
      /\ status[t] < 300 => force[t] = {"provider", "table"}
      /\ status[t] \in 400 .. 499 => force[t] = {}

(* A request fails because the Provider has answered so. *)
FailsBy(t, answer) ==
  SeatsAnswered(t, answer) \/ RegisterFails(t, answer) \/ ReleaseFails(t, answer)
    \/ PageFails(t, answer)

(* An error of the Provider is told as what it is: each class of error that  *)
(* provider/client.py raises has a status, though not each has a handler of  *)
(* its own, and no failure in dealing with an error hides it: the client is  *)
(* told the first one, unless pg_advisory_unlock fails too.  A string of the *)
(* Provider the code can do nothing with is no such error.                   *)
ProviderErrorsAreNotOurs ==
  [][\A t \in Tasks :
       /\ \A answer \in Errors \cup {"loop"} :
            FailsBy(t, answer) => status'[t] \in {404, 409, 502}
       /\ status[t] >= 400 /\ ~At(t, "database", "unlock") =>
            status'[t] \in {status[t], 0}]_vars

(* A handler waits for the pool before it does anything, and never again:   *)
(* what it has done at the Provider it records on the connection it has, so *)
(* an exhausted pool leaves no registration without a row.  Only a run       *)
(* queues for every transaction.                                            *)
QueuesFirst ==
  \A t \in Tasks : place[t] = "queued" /\ kind[t] # "sync" => goal[t] = "read"

(* Every request is answered and its connections are free again, although a *)
(* run waits for a second connection while it holds one, and handlers hold  *)
(* theirs while they await the Provider.                                     *)
Answered == \A t \in Tasks : []<>(place[t] = "idle")

-----------------------------------------------------------------------------
(* The invariant the proofs are by induction on *)

Is(t, where, goals, connections) ==
  place[t] = where /\ goal[t] \in goals /\ held[t] = connections

(* The transactions of a run, each on a connection of its own. *)
Writes == {"begin", "store", "finish", "fail"}

(* The way of every kind of request through the process, and the connections *)
(* it has on the way.                                                        *)
OnCourse(t) ==
  \/ kind[t] = "read" /\ status[t] = 0 /\ Is(t, "idle", {"none"}, 0)
  \/ Is(t, "closing", {"none"}, 0) \/ Is(t, "closing", {"none"}, 1)
  \/ kind[t] # "sync" /\ (Is(t, "queued", {"read"}, 0) \/ Is(t, "database", {"read"}, 1))
  \/ kind[t] \in {"seats", "create", "cancel"} /\ Is(t, "provider", {kind[t]}, 1)
  \/ kind[t] = "create"
     /\ (Is(t, "database", {"save"}, 1) \/ Is(t, "provider", {"compensate"}, 0))
  \/ kind[t] = "cancel" /\ Is(t, "database", {"mark"}, 1)
  \/ /\ kind[t] = "sync"
     /\ \/ Is(t, "queued", {"lock"}, 0) \/ Is(t, "database", {"lock", "unlock"}, 1)
        \/ Is(t, "provider", {"page"}, 1)
        \/ Is(t, "queued", Writes, 1) \/ Is(t, "database", Writes, 2)

(* What a ticket request has done so far is in force; the status is open     *)
(* until the request is answered, or until something has failed.             *)
SoFar(t) ==
  /\ place[t] # "closing" /\ goal[t] \notin {"compensate", "fail", "unlock"} => status[t] = 0
  /\ kind[t] \in {"create", "cancel"} /\ place[t] # "closing" =>
       /\ goal[t] = "compensate" => status[t] = 500
       /\ "table" \in force[t] => "provider" \in force[t]
       /\ kind[t] = "create" /\ goal[t] \in {"read", "create"} => force[t] = {}
       /\ goal[t] = "cancel" => "table" \notin force[t]
       /\ goal[t] \in {"save", "mark"} => force[t] = {"provider"}

RunHasLock(t) == kind[t] = "sync" /\ place[t] # "closing" => syncing = t

Inv ==
  /\ TypeOK /\ StatusTellsOutcome
  /\ \A t \in Tasks : OnCourse(t) /\ SoFar(t) /\ RunHasLock(t)

=============================================================================
