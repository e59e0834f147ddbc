----------------------------- MODULE SeatsCache -----------------------------
(***************************************************************************)
(* AsyncTTLCache (application/cache.py), the cache of available seats that  *)
(* GetAvailableSeatsUseCase (application/seats.py) reads the Provider       *)
(* through: its entries, its table of locks, and the tasks inside           *)
(* get_or_load.                                                            *)
(*                                                                         *)
(* asyncio runs a task without interruption from one await to the next, so *)
(* a step is what a task does between two awaits.  An asyncio.Lock that is  *)
(* released wakes the first task of its queue, which owns the lock only     *)
(* when it runs again; until then the lock is unlocked, yet a newcomer      *)
(* queues up behind it.  Handlers are not cancelled: FastAPI lets a handler *)
(* finish when its client disconnects.                                     *)
(***************************************************************************)
EXTENDS Integers, Sequences, FiniteSets

CONSTANTS
  Keys,      \* event ids
  Tasks,     \* handlers of GET /api/events/{id}/seats
  Locks,     \* identities of the asyncio.Lock objects alive
  NoKey,     \* a task outside the cache
  NoLock,    \* no lock in the table
  NoTask,    \* an unlocked lock
  Ttl,       \* SEATS_CACHE_TTL_SECONDS, in ticks
  MaxSize    \* max_size

ASSUME BoundAssumption == Ttl \in Nat \ {0} /\ MaxSize \in Nat \ {0}
ASSUME NoneAssumption == NoKey \notin Keys /\ NoLock \notin Locks /\ NoTask \notin Tasks
ASSUME FiniteAssumption == IsFiniteSet(Keys) /\ IsFiniteSet(Tasks)
ASSUME LockAssumption == Cardinality(Locks) >= Cardinality(Tasks) + Cardinality(Keys)

VARIABLES
  left,      \* what is left of the TTL of an entry, 0 when it has expired
  table,     \* _locks
  holder,    \* the task that owns a lock
  queue,     \* the tasks waiting for a lock, in order
  key,       \* the key a task asks for
  using,     \* the lock object in its hands
  loading,   \* tasks that await the Provider
  disturbed, \* history: keys that lost an entry or a load under their tasks
  dropped    \* history: keys whose expired entry went without its lock

vars == <<left, table, holder, queue, key, using, loading, disturbed, dropped>>

NoEntry == -1

Entries(l) == {k \in Keys : l[k] # NoEntry}

Locked(L) == holder[L] # NoTask

(* The first of the queue has been woken and has yet to run. *)
Woken(L) == queue[L] # <<>> /\ ~Locked(L)

Init ==
  /\ left = [k \in Keys |-> NoEntry]
  /\ table = [k \in Keys |-> NoLock]
  /\ holder = [L \in Locks |-> NoTask]
  /\ queue = [L \in Locks |-> <<>>]
  /\ key = [t \in Tasks |-> NoKey]
  /\ using = [t \in Tasks |-> NoLock]
  /\ loading = {}
  /\ disturbed = {}
  /\ dropped = {}

-----------------------------------------------------------------------------
(* The parts of get_or_load *)

(* invalidate(k) for every key of a set: the entries go, and with them the  *)
(* locks that no task owns at that moment.                                  *)
Without(l, keys) == [k \in Keys |-> IF k \in keys THEN NoEntry ELSE l[k]]

Unlocked(k) == table[k] # NoLock /\ ~Locked(table[k])

LocksWithout(keys) ==
  [k \in Keys |-> IF k \in keys /\ Unlocked(k) THEN NoLock ELSE table[k]]

Expired == {k \in Keys : left[k] = 0}

(* The keys that tasks other than t are busy with. *)
Busy(t) == {key[u] : u \in Tasks \ {t}} \ {NoKey}

(* Mutation: every call makes a lock of its own. *)
LockOfItsOwn(tab, k) == NoLock

LockInTable(tab, k) == tab[k]

(* A lock object like no other alive. *)
NewLock(tab) ==
  CHOOSE L \in Locks : L \notin {using[t] : t \in Tasks} \cup {tab[k] : k \in Keys}

(* An unlocked lock with an empty queue is acquired without an await. *)
Acquire(t, k, L) ==
  /\ key' = [key EXCEPT ![t] = k]
  /\ using' = [using EXCEPT ![t] = L]
  /\ IF ~Locked(L) /\ queue[L] = <<>>
       THEN /\ holder' = [holder EXCEPT ![L] = t]
            /\ loading' = loading \cup {t}
            /\ UNCHANGED queue
       ELSE /\ queue' = [queue EXCEPT ![L] = Append(@, t)]
            /\ UNCHANGED <<holder, loading>>

Return(t) ==
  /\ key' = [key EXCEPT ![t] = NoKey]
  /\ using' = [using EXCEPT ![t] = NoLock]
  /\ loading' = loading \ {t}

(* get_or_load is entered: a fresh entry is returned at once. *)
Call(t, k) ==
  LET purged == Without(left, Expired)
      kept == LocksWithout(Expired)
      L == IF LockInTable(kept, k) = NoLock THEN NewLock(kept) ELSE LockInTable(kept, k)
  IN
  /\ key[t] = NoKey
  /\ left' = purged
  /\ IF purged[k] # NoEntry
       THEN /\ table' = kept
            /\ UNCHANGED <<holder, queue, key, using, loading, dropped>>
       ELSE /\ table' = [kept EXCEPT ![k] = L]
            /\ Acquire(t, k, L)
            /\ dropped' = dropped \ {k}
  /\ disturbed' = disturbed \cup (Expired \cap Busy(t))

(* The task that was woken runs: someone else may have loaded the key. *)
Resume(t) ==
  LET L == using[t]
      k == key[t]
  IN
  /\ key[t] # NoKey /\ Woken(L) /\ Head(queue[L]) = t
  /\ queue' = [queue EXCEPT ![L] = Tail(@)]
  /\ IF left[k] > 0
       THEN Return(t) /\ UNCHANGED <<left, holder, dropped>>
       ELSE /\ left' = Without(left, {k})
            /\ holder' = [holder EXCEPT ![L] = t]
            /\ loading' = loading \cup {t}
            /\ dropped' = dropped \cup (Expired \cap {k})
            /\ UNCHANGED <<key, using>>
  /\ UNCHANGED <<table, disturbed>>

Full(k) == left[k] = NoEntry /\ Cardinality(Entries(left)) >= MaxSize

(* Mutation: a lock that is no longer in the table is not released. *)
ReleasedInTable(t) ==
  IF table[key[t]] = using[t] THEN [holder EXCEPT ![using[t]] = NoTask] ELSE holder

(* async with releases the lock however its body ends. *)
Released(t) == [holder EXCEPT ![using[t]] = NoTask]

Oldest == {k \in Entries(left) : \A j \in Entries(left) : left[k] <= left[j]}

(* The Provider answers: the entry is stored and the lock released. *)
LoadOk(t) ==
  LET k == key[t] IN
  /\ t \in loading
  /\ \E evicted \in IF Full(k) THEN {{o} : o \in Oldest} ELSE {{}} :
       /\ left' = [Without(left, evicted) EXCEPT ![k] = Ttl]
       /\ table' = LocksWithout(evicted)
       /\ disturbed' = (disturbed \cup evicted) \cap Busy(t)
  /\ holder' = Released(t)
  /\ Return(t)
  /\ UNCHANGED <<queue, dropped>>

(* Mutation: the lock of a failed load stays in the table. *)
LockKept(t, k) == FALSE

(* The finally block: the lock t has just released goes out of the table.   *)
(* Unlocked says nothing of the tasks that still wait for it.               *)
LockDropped(t, k) == left[k] = NoEntry /\ table[k] = using[t]

(* The loader raises. *)
LoadFails(t) ==
  LET k == key[t] IN
  /\ t \in loading
  /\ table' = IF LockDropped(t, k) THEN [table EXCEPT ![k] = NoLock] ELSE table
  /\ holder' = Released(t)
  /\ Return(t)
  /\ disturbed' = (disturbed \cup {k}) \cap Busy(t)
  /\ UNCHANGED <<left, queue, dropped>>

(* The TTL is seconds long: a woken task runs before time is seen to pass. *)
Tick ==
  /\ \A L \in Locks : ~Woken(L)
  /\ left' = [k \in Keys |-> IF left[k] > 0 THEN left[k] - 1 ELSE left[k]]
  /\ UNCHANGED <<table, holder, queue, key, using, loading, disturbed, dropped>>

-----------------------------------------------------------------------------
(* Specification *)

Next ==
  \/ Tick
  \/ \E t \in Tasks :
       (\E k \in Keys : Call(t, k)) \/ Resume(t) \/ LoadOk(t) \/ LoadFails(t)

Spec == Init /\ [][Next]_vars

(* The event loop runs woken tasks, and httpx times the Provider out. *)
FairSpec ==
  Spec /\ \A t \in Tasks : WF_vars(Resume(t)) /\ WF_vars(LoadOk(t) \/ LoadFails(t))

-----------------------------------------------------------------------------
(* Properties *)

(* The queue of a lock and the tasks agree, and the cache is never above    *)
(* its size.                                                                *)
TypeOK ==
  /\ left \in [Keys -> NoEntry .. Ttl] /\ Cardinality(Entries(left)) <= MaxSize
  /\ table \in [Keys -> Locks \cup {NoLock}]
  /\ holder \in [Locks -> Tasks \cup {NoTask}]
  /\ queue \in [Locks -> Seq(Tasks)]
  /\ key \in [Tasks -> Keys \cup {NoKey}]
  /\ using \in [Tasks -> Locks \cup {NoLock}]
  /\ loading \subseteq Tasks
  /\ disturbed \subseteq Keys /\ dropped \subseteq Keys

(* "per-key stampede protection" (application/cache.py:20): the Provider is *)
(* asked for the seats of one event by one task at a time.                  *)
SingleFlight == \A t, u \in loading : key[t] = key[u] => t = u

(* What holds of it: two tasks load a key only if, while tasks were at it,  *)
(* a load of it failed or its entry was evicted or expired.                 *)
SingleFlightUnlessDisturbed ==
  \A t, u \in loading : key[t] = key[u] => t = u \/ key[t] \in disturbed

(* No lock stays in the table without an entry or a task to use it, unless   *)
(* _fresh_entry has dropped the expired entry (application/cache.py:76)     *)
(* under a task whose own lock had left the table: it pops the entry and    *)
(* not the lock, and the finally block sees another lock in the table.      *)
NoLockLeaks ==
  \A k \in Keys : table[k] # NoLock /\ left[k] = NoEntry =>
    k \in dropped \/ \E t \in Tasks : using[t] = table[k]

(* Every call returns: the lock is passed on in order, and a task that      *)
(* waits on a lock no longer in the table is woken all the same.            *)
CallsReturn == \A t \in Tasks : key[t] # NoKey ~> key[t] = NoKey

-----------------------------------------------------------------------------
(* The invariant the proofs are by induction on *)

(* A task loads while it owns the lock in its hands, and only then. *)
Owners ==
  /\ \A t \in Tasks : key[t] = NoKey <=> using[t] = NoLock
  /\ \A t \in loading : using[t] # NoLock /\ holder[using[t]] = t
  /\ \A L \in Locks : Locked(L) => holder[L] \in loading /\ using[holder[L]] = L

(* The tasks that have a lock in hand and do not own it stand in its queue, *)
(* once each.                                                               *)
Queues ==
  /\ \A L \in Locks : \A i, j \in DOMAIN queue[L] : queue[L][i] = queue[L][j] => i = j
  /\ \A L \in Locks : \A i \in DOMAIN queue[L] :
       queue[L][i] \notin loading /\ using[queue[L][i]] = L
  /\ \A t \in Tasks \ loading : using[t] # NoLock =>
       \E i \in DOMAIN queue[using[t]] : queue[using[t]][i] = t

(* A lock, in the table or in hand, serves one key. *)
LockHasKey ==
  /\ \A t, u \in Tasks : using[t] = using[u] => key[t] = key[u]
  /\ \A t \in Tasks, k \in Keys : table[k] # NoLock /\ using[t] = table[k] => key[t] = k
  /\ \A j, k \in Keys : table[k] # NoLock /\ table[j] = table[k] => j = k

(* While nothing happens to a key, its tasks share the lock in the table. *)
LockShared ==
  \A t \in Tasks : key[t] # NoKey => key[t] \in disturbed \/ using[t] = table[key[t]]

Inv == TypeOK /\ Owners /\ Queues /\ LockHasKey /\ LockShared /\ NoLockLeaks

=============================================================================
