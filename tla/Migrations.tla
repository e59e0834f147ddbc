----------------------------- MODULE Migrations -----------------------------
(***************************************************************************)
(* The start of a container: run.sh upgrades the schema with alembic       *)
(* (migrations/env.py, migrations/versions) and then becomes the server.   *)
(* Several containers start at the same time on one database.              *)
(*                                                                         *)
(* An upgrade is one transaction: PostgreSQL has transactional DDL, and    *)
(* context.begin_transaction() joins the transaction that is open already. *)
(* Its statements see what is committed when they start (READ COMMITTED).  *)
(***************************************************************************)
EXTENDS Naturals, Sequences, SequencesExt

CONSTANTS
  Containers,   \* containers on one database
  Nobody,       \* the migration lock is free
  MaxFaults     \* bound: errors and crashes, in all

ASSUME ContainerAssumption == Nobody \notin Containers
ASSUME FaultAssumption == MaxFaults \in Nat

VARIABLES
  schema,   \* committed objects of the database
  lock,     \* the container whose transaction holds pg_advisory_xact_lock
  place,    \* where run.sh of a container is
  todo,     \* statements its upgrade has yet to execute
  work,     \* objects its transaction has made
  faults    \* faults so far

vars == <<schema, lock, place, todo, work, faults>>

(* What the first upgrade makes, in order.  An index belongs to its table;  *)
(* "revision" is the row that alembic inserts into alembic_version.         *)
Upgrade == <<"alembic_version", "events", "sync_metadata", "tickets", "revision">>

Objects == ToSet(Upgrade)

(* What must exist before: the target of a foreign key, the table of a row. *)
Needs(object) ==
  CASE object = "tickets" -> {"events"}
    [] object = "revision" -> {"alembic_version"}
    [] OTHER -> {}

Init ==
  /\ schema \in {{}, Objects}
  /\ lock = Nobody
  /\ place = [c \in Containers |-> "off"]
  /\ todo = [c \in Containers |-> <<>>]
  /\ work = [c \in Containers |-> {}]
  /\ faults = 0

-----------------------------------------------------------------------------
(* alembic upgrade head *)

Goto(c, next) == place' = [place EXCEPT ![c] = next]

(* BEGIN, and SELECT pg_advisory_xact_lock(key), which waits. *)
Begin(c) ==
  /\ place[c] = "off"
  /\ Goto(c, "locking")
  /\ UNCHANGED <<schema, lock, todo, work, faults>>

(* Mutation: no lock is taken. *)
LockUnchecked == TRUE

LockFree == lock = Nobody

Lock(c) ==
  /\ place[c] = "locking"
  /\ LockFree
  /\ lock' = c
  /\ Goto(c, "comparing")
  /\ UNCHANGED <<schema, todo, work, faults>>

(* The revision of the database is read: nothing to do if it is the newest. *)
Compare(c) ==
  /\ place[c] = "comparing"
  /\ todo' = [todo EXCEPT ![c] = IF "revision" \in schema THEN <<>> ELSE Upgrade]
  /\ Goto(c, "upgrading")
  /\ UNCHANGED <<schema, lock, work, faults>>

(* The transaction ends and with it the lock. *)
Unlocked(c) == IF lock = c THEN Nobody ELSE lock

End(c, next) ==
  /\ Goto(c, next)
  /\ todo' = [todo EXCEPT ![c] = <<>>]
  /\ work' = [work EXCEPT ![c] = {}]

(* Mutation: run.sh without "set -e" starts the server all the same. *)
ServeAnyway == "serving"

AfterFailure == "off"

(* Mutation: every statement commits by itself. *)
NotRolledBack(c) == schema \cup work[c]

RolledBack(c) == schema

(* alembic exits with an error; the container is restarted. *)
Abort(c) ==
  /\ schema' = RolledBack(c)
  /\ lock' = Unlocked(c)
  /\ End(c, AfterFailure)

Refused(c, object) ==
  \/ object \in schema \cup work[c]
  \/ ~(Needs(object) \subseteq schema \cup work[c])

(* CREATE TABLE of a name that another transaction has created waits for *)
(* the end of that transaction.                                          *)
Waits(c, object) == \E d \in Containers \ {c} : object \in work[d]

Execute(c) ==
  LET object == Head(todo[c]) IN
  /\ place[c] = "upgrading"
  /\ todo[c] # <<>>
  /\ ~Waits(c, object)
  /\ IF Refused(c, object)
       THEN Abort(c)
       ELSE /\ work' = [work EXCEPT ![c] = @ \cup {object}]
            /\ todo' = [todo EXCEPT ![c] = Tail(@)]
            /\ UNCHANGED <<schema, lock, place>>
  /\ UNCHANGED faults

(* COMMIT; then run.sh executes uvicorn. *)
Commit(c) ==
  /\ place[c] = "upgrading"
  /\ todo[c] = <<>>
  /\ schema' = schema \cup work[c]
  /\ lock' = Unlocked(c)
  /\ End(c, "serving")
  /\ UNCHANGED faults

-----------------------------------------------------------------------------
(* Failures *)

Fault ==
  /\ faults < MaxFaults
  /\ faults' = faults + 1

(* The connection is lost, a statement raises or the process is killed. *)
Fail(c) ==
  /\ place[c] \in {"locking", "comparing", "upgrading"}
  /\ Fault
  /\ Abort(c)

(* COMMIT raises, or the process dies in it, and it has been applied. *)
CommitUnseen(c) ==
  /\ place[c] = "upgrading"
  /\ todo[c] = <<>>
  /\ Fault
  /\ schema' = schema \cup work[c]
  /\ lock' = Unlocked(c)
  /\ End(c, AfterFailure)

(* The server ends; the container starts again from the top of run.sh. *)
Restart(c) ==
  /\ place[c] = "serving"
  /\ Fault
  /\ Goto(c, "off")
  /\ UNCHANGED <<schema, lock, todo, work>>

-----------------------------------------------------------------------------
(* Specification *)

Step(c) == Begin(c) \/ Lock(c) \/ Compare(c) \/ Execute(c) \/ Commit(c)

Next == \E c \in Containers : Step(c) \/ Fail(c) \/ CommitUnseen(c) \/ Restart(c)

Spec == Init /\ [][Next]_vars

(* PostgreSQL grants the lock in the order of the requests; statements end; *)
(* a container that stopped is started again (restart: unless-stopped).     *)
FairSpec ==
  /\ Spec
  /\ \A c \in Containers : WF_vars(Step(c)) /\ SF_vars(Lock(c))

-----------------------------------------------------------------------------
(* Properties *)

(* The lock is held by the transaction that upgrades, and by no other. *)
TypeOK ==
  /\ schema \subseteq Objects
  /\ lock \in Containers \cup {Nobody}
  /\ place \in [Containers -> {"off", "locking", "comparing", "upgrading", "serving"}]
  /\ todo \in [Containers -> Suffixes(Upgrade)]
  /\ work \in [Containers -> SUBSET Objects]
  /\ faults \in Nat
  /\ \A c \in Containers : lock = c <=> place[c] \in {"comparing", "upgrading"}

(* Whichever containers start together, and wherever earlier ones died, no  *)
(* statement of an upgrade is refused: the tables are not there yet, those   *)
(* they reference are, and the revision read is still the right one.         *)
UpgradeNeverRefused ==
  \A c \in Containers :
    place[c] = "upgrading" /\ todo[c] # <<>> /\ ~Waits(c, Head(todo[c])) =>
      ~Refused(c, Head(todo[c]))

(* A server runs only on a schema that is complete. *)
ServesOnWholeSchema ==
  \A c \in Containers : place[c] = "serving" => schema = Objects

(* Every container comes to serve, also while others start, fail and restart. *)
EveryContainerServes == \A c \in Containers : []<>(place[c] = "serving")

-----------------------------------------------------------------------------
(* The invariant the proofs are by induction on *)

(* An upgrade is committed as a whole. *)
WholeUpgrades == schema \in {{}, Objects}

(* The upgrade under way has nothing to do, or has begun on an empty schema *)
(* and made all that it is not yet to make; nobody else has made anything.  *)
Progress ==
  \A c \in Containers :
    IF place[c] = "upgrading"
      THEN \/ schema = Objects /\ todo[c] = <<>> /\ work[c] = {}
           \/ schema = {} /\ work[c] = Objects \ ToSet(todo[c])
      ELSE todo[c] = <<>> /\ work[c] = {}

Inv == TypeOK /\ WholeUpgrades /\ Progress /\ ServesOnWholeSchema

=============================================================================
