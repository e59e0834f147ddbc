-------------------------- MODULE SeatsCacheProofs --------------------------
(***************************************************************************)
(* Proofs about SeatsCache for any number of keys and tasks, any TTL and    *)
(* any size of the cache.                                                  *)
(***************************************************************************)
EXTENDS SeatsCache, FiniteSetTheorems, SequenceTheorems, TLAPS

LEMMA InvInit == ASSUME Init PROVE Inv
<1> USE DEF Init
<1>1. TypeOK
  <2>1. Entries(left) = {}
    BY DEF Entries, NoEntry
  <2>2. Cardinality(Entries(left)) <= MaxSize
    <3>1. Cardinality({}) = 0
      BY FS_EmptySet, Zenon
    <3>2. 0 <= MaxSize
      BY BoundAssumption
    <3> QED BY <2>1, <3>1, <3>2, Zenon
  <2>3. left \in [Keys -> NoEntry .. Ttl]
    BY BoundAssumption DEF NoEntry
  <2>4. queue \in [Locks -> Seq(Tasks)]
    BY EmptySeq
  <2> QED BY <2>2, <2>3, <2>4 DEF TypeOK
<1>2. Owners /\ Queues
  BY NoneAssumption DEF Owners, Queues, Locked
<1>3. LockHasKey /\ LockShared /\ NoLockLeaks
  BY NoneAssumption DEF LockHasKey, LockShared, NoLockLeaks
<1> QED BY <1>1, <1>2, <1>3 DEF Inv

-----------------------------------------------------------------------------
(* Entries and locks *)

LEMMA EntriesFinite ==
  ASSUME NEW l
  PROVE  IsFiniteSet(Entries(l)) /\ Cardinality(Entries(l)) \in Nat
<1>1. Entries(l) \in SUBSET Keys
  BY DEF Entries
<1>2. IsFiniteSet(Entries(l))
  BY <1>1, FS_Subset, FiniteAssumption
<1> QED BY <1>2, FS_CardinalityType

LEMMA FewerEntries ==
  ASSUME NEW l, NEW m, Entries(m) \subseteq Entries(l), Cardinality(Entries(l)) <= MaxSize
  PROVE  Cardinality(Entries(m)) <= MaxSize
<1>1. Cardinality(Entries(m)) <= Cardinality(Entries(l))
  BY EntriesFinite, FS_Subset
<1> QED BY <1>1, EntriesFinite, BoundAssumption

(* The entries that invalidate leaves, and the locks. *)
LEMMA WithoutEntries ==
  ASSUME TypeOK, NEW S \in SUBSET Keys
  PROVE  /\ Without(left, S) \in [Keys -> NoEntry .. Ttl]
         /\ Entries(Without(left, S)) = Entries(left) \ S
         /\ \A k \in Keys : Without(left, S)[k] = IF k \in S THEN NoEntry ELSE left[k]
BY BoundAssumption DEF TypeOK, Without, Entries, NoEntry

LEMMA LocksLeft ==
  ASSUME TypeOK, NEW S \in SUBSET Keys
  PROVE  /\ LocksWithout(S) \in [Keys -> Locks \cup {NoLock}]
         /\ \A k \in Keys : LocksWithout(S)[k] \in {table[k], NoLock}
         /\ \A k \in Keys : LocksWithout(S)[k] # table[k] => k \in S
         /\ \A k \in S : LocksWithout(S)[k] # NoLock => Locked(LocksWithout(S)[k])
BY DEF TypeOK, LocksWithout, Unlocked

(* There are enough lock objects for every task to have one in hand and for *)
(* every key to have one in the table: NewLock finds one that is neither.    *)
LEMMA NewLockIsNew ==
  ASSUME TypeOK, NEW tab \in [Keys -> Locks \cup {NoLock}],
         NEW t \in Tasks, using[t] = NoLock, NEW k \in Keys, tab[k] = NoLock
  PROVE  /\ NewLock(tab) \in Locks
         /\ \A u \in Tasks : using[u] # NewLock(tab)
         /\ \A j \in Keys : tab[j] # NewLock(tab)
<1> DEFINE inHand == {using[u] : u \in Tasks \ {t}}
           inTable == {tab[j] : j \in Keys \ {k}}
<1>1. IsFiniteSet(inHand) /\ Cardinality(inHand) <= Cardinality(Tasks) - 1
  <2> DEFINE f == [u \in Tasks \ {t} |-> using[u]]
  <2>1. f \in Surjection(Tasks \ {t}, inHand)
    BY DEF Surjection
  <2>2. IsFiniteSet(Tasks \ {t}) /\ Cardinality(Tasks \ {t}) = Cardinality(Tasks) - 1
    BY FiniteAssumption, FS_RemoveElement
  <2> HIDE DEF f, inHand
  <2> QED BY <2>1, <2>2, FS_Surjection
<1>2. IsFiniteSet(inTable) /\ Cardinality(inTable) <= Cardinality(Keys) - 1
  <2> DEFINE f == [j \in Keys \ {k} |-> tab[j]]
  <2>1. f \in Surjection(Keys \ {k}, inTable)
    BY DEF Surjection
  <2>2. IsFiniteSet(Keys \ {k}) /\ Cardinality(Keys \ {k}) = Cardinality(Keys) - 1
    BY FiniteAssumption, FS_RemoveElement
  <2> HIDE DEF f, inTable
  <2> QED BY <2>1, <2>2, FS_Surjection
<1>3. \E L \in Locks : L \notin inHand \cup inTable
  <2> SUFFICES ASSUME Locks \subseteq inHand \cup inTable PROVE FALSE
    OBVIOUS
  <2> HIDE DEF inHand, inTable
  <2>1. /\ IsFiniteSet(inHand \cup inTable)
        /\ Cardinality(inHand \cup inTable) =
             Cardinality(inHand) + Cardinality(inTable) - Cardinality(inHand \cap inTable)
    BY <1>1, <1>2, FS_Union
  <2>2. IsFiniteSet(inHand \cap inTable)
    BY <1>1, FS_Subset
  <2>3. IsFiniteSet(Locks) /\ Cardinality(Locks) <= Cardinality(inHand \cup inTable)
    BY <2>1, FS_Subset
  <2>4. /\ Cardinality(inHand) \in Nat /\ Cardinality(inTable) \in Nat
        /\ Cardinality(inHand \cap inTable) \in Nat /\ Cardinality(Locks) \in Nat
        /\ Cardinality(Tasks) \in Nat /\ Cardinality(Keys) \in Nat
    BY <1>1, <1>2, <2>2, <2>3, FS_CardinalityType, FiniteAssumption
  <2> QED BY <1>1, <1>2, <2>1, <2>3, <2>4, LockAssumption
<1>4. \E L \in Locks : L \notin {using[u] : u \in Tasks} \cup {tab[j] : j \in Keys}
  BY <1>3, NoneAssumption
<1>5. NewLock(tab) \in Locks
        /\ NewLock(tab) \notin {using[u] : u \in Tasks} \cup {tab[j] : j \in Keys}
  BY <1>4 DEF NewLock
<1> QED BY <1>5

-----------------------------------------------------------------------------
(* get_or_load is entered *)

(* The purge: expired entries go, with their locks unless a task owns them. *)
LEMMA Purge ==
  ASSUME Inv, NEW t \in Tasks, key[t] = NoKey, left' = Without(left, Expired),
         disturbed' = disturbed \cup (Expired \cap Busy(t)),
         NEW kept, kept = LocksWithout(Expired)
  PROVE  /\ left' \in [Keys -> NoEntry .. Ttl] /\ Cardinality(Entries(left')) <= MaxSize
         /\ kept \in [Keys -> Locks \cup {NoLock}]
         /\ \A j \in Keys : kept[j] \in {table[j], NoLock}
         /\ disturbed \subseteq disturbed' /\ disturbed' \subseteq Keys
         /\ \A u \in Tasks : key[u] # NoKey => key[u] \in disturbed' \/ using[u] = kept[key[u]]
         /\ \A j \in Keys : kept[j] # NoLock /\ left'[j] = NoEntry =>
              j \in dropped \/ \E u \in Tasks : using[u] = kept[j]
<1> USE DEF Inv
<1>1. TypeOK /\ Expired \in SUBSET Keys
  BY DEF Expired
<1>2. /\ left' \in [Keys -> NoEntry .. Ttl] /\ Entries(left') = Entries(left) \ Expired
      /\ \A j \in Keys : left'[j] = IF j \in Expired THEN NoEntry ELSE left[j]
  BY <1>1, WithoutEntries
<1>3. Cardinality(Entries(left')) <= MaxSize
  BY <1>2, FewerEntries DEF TypeOK
<1>4. /\ kept \in [Keys -> Locks \cup {NoLock}]
      /\ \A j \in Keys : kept[j] \in {table[j], NoLock}
      /\ \A j \in Keys : kept[j] # table[j] => j \in Expired
      /\ \A j \in Expired : kept[j] # NoLock => Locked(kept[j])
  BY <1>1, LocksLeft
<1> HIDE DEF Expired
<1>5. disturbed \subseteq disturbed' /\ disturbed' \subseteq Keys
  BY <1>1 DEF TypeOK
<1>6. ASSUME NEW u \in Tasks, key[u] # NoKey
      PROVE  key[u] \in disturbed' \/ using[u] = kept[key[u]]
  <2>1. key[u] \in Keys /\ key[u] \in Busy(t)
    BY <1>6 DEF TypeOK, Busy
  <2> QED BY <1>4, <1>6, <2>1 DEF LockShared
<1>7. ASSUME NEW j \in Keys, kept[j] # NoLock, left'[j] = NoEntry
      PROVE  j \in dropped \/ \E u \in Tasks : using[u] = kept[j]
  <2>1. kept[j] = table[j] /\ table[j] \in Locks
    BY <1>4, <1>7 DEF TypeOK
  <2>2. CASE j \in Expired
    <3>1. Locked(table[j])
      BY <1>4, <1>7, <2>1, <2>2
    <3> QED BY <2>1, <3>1 DEF Owners, TypeOK
  <2>3. CASE j \notin Expired
    BY <1>2, <1>7, <2>1, <2>3 DEF NoLockLeaks
  <2> QED BY <2>2, <2>3
<1> QED BY <1>2, <1>3, <1>4, <1>5, <1>6, <1>7

(* A task takes the lock of a key, at once or from the end of the queue. *)
LEMMA Acquires ==
  ASSUME Inv, NEW t \in Tasks, key[t] = NoKey, NEW k \in Keys, NEW L \in Locks, Acquire(t, k, L)
  PROVE  /\ holder' \in [Locks -> Tasks \cup {NoTask}] /\ queue' \in [Locks -> Seq(Tasks)]
         /\ key' \in [Tasks -> Keys \cup {NoKey}] /\ using' \in [Tasks -> Locks \cup {NoLock}]
         /\ loading' \subseteq Tasks
         /\ Owners' /\ Queues'
<1> USE DEF Inv
<1>1. using[t] = NoLock /\ t \notin loading
  BY DEF Owners
<1>2. /\ key' = [key EXCEPT ![t] = k] /\ key' \in [Tasks -> Keys \cup {NoKey}]
      /\ using' = [using EXCEPT ![t] = L] /\ using' \in [Tasks -> Locks \cup {NoLock}]
      /\ k # NoKey /\ L # NoLock
  BY NoneAssumption DEF Acquire, TypeOK
<1>3. \A M \in Locks : \A i \in DOMAIN queue[M] : queue[M][i] \in Tasks /\ queue[M][i] # t
  <2> SUFFICES ASSUME NEW M \in Locks, NEW i \in DOMAIN queue[M]
               PROVE  queue[M][i] \in Tasks /\ queue[M][i] # t
    OBVIOUS
  <2>1. queue[M] \in Seq(Tasks) /\ using[queue[M][i]] = M /\ M # NoLock
    BY NoneAssumption DEF TypeOK, Queues
  <2> QED BY <1>1, <2>1, LenProperties
<1>4. \A M \in Locks : holder[M] # t
  BY <1>1, NoneAssumption DEF Owners, Locked
<1>5. CASE ~Locked(L) /\ queue[L] = <<>>
  <2>1. /\ holder' = [holder EXCEPT ![L] = t] /\ loading' = loading \cup {t}
        /\ UNCHANGED queue
    BY <1>5 DEF Acquire
  <2>2. /\ holder'[L] = t /\ \A M \in Locks : M # L => holder'[M] = holder[M]
        /\ key'[t] = k /\ \A u \in Tasks : u # t => key'[u] = key[u]
        /\ using'[t] = L /\ \A u \in Tasks : u # t => using'[u] = using[u]
    BY <1>2, <2>1 DEF TypeOK
  <2>3. \A u \in loading : u # t /\ u \in Tasks /\ using[u] # L /\ using[u] \in Locks
    BY <1>1, <1>5, NoneAssumption DEF Owners, Locked, TypeOK
  <2>4. \A u \in Tasks : key'[u] = NoKey <=> using'[u] = NoLock
    BY <1>2, <2>2 DEF Owners
  <2>5. \A u \in loading' : using'[u] # NoLock /\ holder'[using'[u]] = u
    BY <1>2, <2>1, <2>2, <2>3 DEF Owners
  <2>6. \A M \in Locks : Locked(M)' => holder'[M] \in loading' /\ using'[holder'[M]] = M
    BY <2>1, <2>2, <2>3 DEF Owners, Locked
  <2>7. Owners'
    BY <2>4, <2>5, <2>6 DEF Owners
  <2>8. Queues'
    BY <1>1, <1>2, <1>3, <1>5, <2>1 DEF TypeOK, Queues
  <2>9. holder' \in [Locks -> Tasks \cup {NoTask}] /\ loading' \subseteq Tasks
    BY <2>1 DEF TypeOK
  <2> QED BY <1>2, <2>1, <2>7, <2>8, <2>9 DEF TypeOK
<1>6. CASE ~(~Locked(L) /\ queue[L] = <<>>)
  <2>1. queue' = [queue EXCEPT ![L] = Append(queue[L], t)] /\ UNCHANGED <<holder, loading>>
    BY <1>6 DEF Acquire
  <2>2. Owners'
    BY <1>1, <1>2, <1>4, <2>1 DEF TypeOK, Owners, Locked
  <2>3. /\ queue[L] \in Seq(Tasks) /\ Len(queue[L]) \in Nat
        /\ DOMAIN queue[L] = 1 .. Len(queue[L])
        /\ queue'[L] \in Seq(Tasks) /\ DOMAIN queue'[L] = 1 .. Len(queue[L]) + 1
        /\ \A i \in 1 .. Len(queue[L]) : queue'[L][i] = queue[L][i]
        /\ queue'[L][Len(queue[L]) + 1] = t
    BY <2>1, AppendProperties, LenProperties DEF TypeOK
  <2>4. queue' \in [Locks -> Seq(Tasks)] /\ \A M \in Locks : M # L => queue'[M] = queue[M]
    BY <2>1, <2>3 DEF TypeOK
  <2>5. \A M \in Locks : \A i, j \in DOMAIN queue'[M] : queue'[M][i] = queue'[M][j] => i = j
    <3> SUFFICES ASSUME NEW M \in Locks, NEW i \in DOMAIN queue'[M], NEW j \in DOMAIN queue'[M],
                        queue'[M][i] = queue'[M][j]
                 PROVE  i = j
      OBVIOUS
    <3>1. CASE M = L
      <4>1. \A n \in DOMAIN queue'[L] :
              n = Len(queue[L]) + 1 \/ (n \in DOMAIN queue[L] /\ queue'[L][n] = queue[L][n])
        BY <2>3
      <4>2. \A n \in DOMAIN queue[L] : queue[L][n] # t
        BY <1>3
      <4>3. \A m, n \in DOMAIN queue[L] : queue[L][m] = queue[L][n] => m = n
        BY DEF Queues
      <4>4. i \in DOMAIN queue'[L] /\ j \in DOMAIN queue'[L] /\ queue'[L][i] = queue'[L][j]
        BY <3>1
      <4>5. CASE i = Len(queue[L]) + 1
        BY <2>3, <4>1, <4>2, <4>4, <4>5
      <4>6. CASE j = Len(queue[L]) + 1
        BY <2>3, <4>1, <4>2, <4>4, <4>6
      <4> QED BY <4>1, <4>3, <4>4, <4>5, <4>6
    <3>2. CASE M # L
      BY <2>4, <3>2 DEF Queues
    <3> QED BY <3>1, <3>2
  <2>6. \A M \in Locks : \A i \in DOMAIN queue'[M] :
          queue'[M][i] \notin loading' /\ using'[queue'[M][i]] = M
    BY <1>1, <1>2, <1>3, <2>1, <2>3, <2>4 DEF Queues, TypeOK
  <2>7. ASSUME NEW u \in Tasks \ loading', using'[u] # NoLock
        PROVE  \E i \in DOMAIN queue'[using'[u]] : queue'[using'[u]][i] = u
    <3>1. CASE u = t
      BY <1>2, <2>3, <3>1 DEF TypeOK
    <3>2. CASE u # t
      <4>1. using'[u] = using[u] /\ using[u] \in Locks
        BY <1>2, <2>7, <3>2 DEF TypeOK
      <4>2. PICK i \in DOMAIN queue[using[u]] : queue[using[u]][i] = u
        BY <2>1, <2>7, <4>1 DEF Queues
      <4>3. CASE using[u] = L
        <5>1. i \in 1 .. Len(queue[L]) /\ queue[L][i] = u
          BY <2>3, <4>2, <4>3
        <5>2. i \in DOMAIN queue'[L] /\ queue'[L][i] = u
          BY <2>3, <5>1
        <5> QED BY <4>1, <4>3, <5>2, Zenon
      <4>4. CASE using[u] # L
        BY <2>4, <4>1, <4>2, <4>4
      <4> QED BY <4>3, <4>4
    <3> QED BY <3>1, <3>2
  <2>8. Queues'
    BY <2>5, <2>6, <2>7 DEF Queues
  <2> QED BY <1>2, <2>1, <2>2, <2>4, <2>8 DEF TypeOK
<1> QED BY <1>5, <1>6

LEMMA CallInv == ASSUME Inv, NEW t \in Tasks, NEW k \in Keys, Call(t, k) PROVE Inv'
<1> DEFINE kept == LocksWithout(Expired)
           L == IF LockInTable(kept, k) = NoLock THEN NewLock(kept) ELSE LockInTable(kept, k)
<1>1. /\ key[t] = NoKey /\ using[t] = NoLock
      /\ left' = Without(left, Expired) /\ disturbed' = disturbed \cup (Expired \cap Busy(t))
  BY DEF Call, Inv, Owners
<1>2. /\ left' \in [Keys -> NoEntry .. Ttl] /\ Cardinality(Entries(left')) <= MaxSize
      /\ kept \in [Keys -> Locks \cup {NoLock}]
      /\ \A j \in Keys : kept[j] \in {table[j], NoLock}
      /\ disturbed \subseteq disturbed' /\ disturbed' \subseteq Keys
      /\ \A u \in Tasks : key[u] # NoKey => key[u] \in disturbed' \/ using[u] = kept[key[u]]
      /\ \A j \in Keys : kept[j] # NoLock /\ left'[j] = NoEntry =>
           j \in dropped \/ \E u \in Tasks : using[u] = kept[j]
  BY <1>1, Purge
<1>3. \/ table' = kept /\ UNCHANGED <<holder, queue, key, using, loading, dropped>>
      \/ /\ table' = [kept EXCEPT ![k] = L] /\ Acquire(t, k, L)
         /\ dropped' = dropped \ {k}
  BY <1>1 DEF Call
<1> USE DEF Inv
<1>4. CASE table' = kept /\ UNCHANGED <<holder, queue, key, using, loading, dropped>>
  <2> HIDE DEF kept
  <2>1. TypeOK'
    BY <1>2, <1>4 DEF TypeOK
  <2>2. Owners' /\ Queues'
    BY <1>4 DEF Owners, Queues, Locked
  <2>3. LockHasKey'
    BY <1>2, <1>4 DEF LockHasKey
  <2>4. LockShared' /\ NoLockLeaks'
    BY <1>2, <1>4 DEF LockShared, NoLockLeaks
  <2> QED BY <2>1, <2>2, <2>3, <2>4
<1>5. CASE /\ table' = [kept EXCEPT ![k] = L] /\ Acquire(t, k, L)
           /\ dropped' = dropped \ {k}
  <2>1. /\ L \in Locks
        /\ \A u \in Tasks : using[u] = L => key[u] = k
        /\ \A j \in Keys : kept[j] = L => j = k
        /\ kept[k] \in {NoLock, L}
    <3>1. CASE kept[k] = NoLock
      <4>1. L = NewLock(kept)
        BY <3>1 DEF LockInTable
      <4> HIDE DEF kept, L
      <4> QED BY <1>1, <1>2, <3>1, <4>1, NewLockIsNew
    <3>2. CASE kept[k] # NoLock
      <4>1. L = kept[k]
        BY <3>2 DEF LockInTable
      <4> HIDE DEF kept, L
      <4> QED BY <1>2, <3>2, <4>1 DEF LockHasKey
    <3> QED BY <3>1, <3>2
  <2> HIDE DEF kept, L
  <2>2. /\ holder' \in [Locks -> Tasks \cup {NoTask}] /\ queue' \in [Locks -> Seq(Tasks)]
        /\ key' \in [Tasks -> Keys \cup {NoKey}] /\ using' \in [Tasks -> Locks \cup {NoLock}]
        /\ loading' \subseteq Tasks
        /\ Owners' /\ Queues'
    BY <1>1, <1>5, <2>1, Acquires
  <2>3. /\ L # NoLock
        /\ table'[k] = L /\ \A j \in Keys : j # k => table'[j] = kept[j]
        /\ key'[t] = k /\ \A u \in Tasks : u # t => key'[u] = key[u]
        /\ using'[t] = L /\ \A u \in Tasks : u # t => using'[u] = using[u]
    BY <1>2, <1>5, <2>1, NoneAssumption DEF Acquire, TypeOK
  <2>4. TypeOK'
    BY <1>2, <1>5, <2>1, <2>2 DEF TypeOK
  <2>5. LockHasKey'
    <3>1. \A u, v \in Tasks : using'[u] = using'[v] => key'[u] = key'[v]
      BY <2>1, <2>3 DEF LockHasKey
    <3>2. \A u \in Tasks, j \in Keys : table'[j] # NoLock /\ using'[u] = table'[j] => key'[u] = j
      BY <1>2, <2>1, <2>3 DEF LockHasKey
    <3>3. \A i, j \in Keys : table'[j] # NoLock /\ table'[i] = table'[j] => i = j
      BY <1>2, <2>1, <2>3 DEF LockHasKey
    <3> QED BY <3>1, <3>2, <3>3 DEF LockHasKey
  <2>6. LockShared'
    <3> SUFFICES ASSUME NEW u \in Tasks, key'[u] # NoKey
                 PROVE  key'[u] \in disturbed' \/ using'[u] = table'[key'[u]]
      BY DEF LockShared
    <3>1. CASE u = t
      BY <2>3, <3>1
    <3>2. CASE u # t
      <4>1. key[u] \in Keys /\ using[u] # NoLock
        BY <2>3, <3>2 DEF TypeOK, Owners
      <4> QED BY <1>2, <2>1, <2>3, <3>2, <4>1
    <3> QED BY <3>1, <3>2
  <2>7. NoLockLeaks'
    <3> SUFFICES ASSUME NEW j \in Keys, table'[j] # NoLock, left'[j] = NoEntry
                 PROVE  j \in dropped' \/ \E u \in Tasks : using'[u] = table'[j]
      BY DEF NoLockLeaks
    <3>1. CASE j = k
      BY <2>3, <3>1
    <3>2. CASE j # k
      BY <1>1, <1>2, <1>5, <2>3, <3>2
    <3> QED BY <3>1, <3>2
  <2> QED BY <2>2, <2>4, <2>5, <2>6, <2>7
<1> QED BY <1>3, <1>4, <1>5

-----------------------------------------------------------------------------
(* A load ends *)

(* The task gives its lock up and is out of the cache. *)
LEMMA Leaves ==
  ASSUME Inv, NEW t \in loading, holder' = Released(t), Return(t), UNCHANGED queue
  PROVE  /\ key[t] \in Keys /\ using[t] \in Locks /\ t \in Tasks
         /\ holder' \in [Locks -> Tasks \cup {NoTask}] /\ queue' \in [Locks -> Seq(Tasks)]
         /\ key' \in [Tasks -> Keys \cup {NoKey}] /\ using' \in [Tasks -> Locks \cup {NoLock}]
         /\ loading' \subseteq Tasks
         /\ key'[t] = NoKey /\ \A u \in Tasks : u # t => key'[u] = key[u]
         /\ using'[t] = NoLock /\ \A u \in Tasks : u # t => using'[u] = using[u]
         /\ Owners' /\ Queues'
<1> USE DEF Inv
<1>1. key[t] \in Keys /\ using[t] \in Locks /\ t \in Tasks /\ holder[using[t]] = t
  BY DEF TypeOK, Owners
<1>2. /\ key' \in [Tasks -> Keys \cup {NoKey}] /\ using' \in [Tasks -> Locks \cup {NoLock}]
      /\ key'[t] = NoKey /\ \A u \in Tasks : u # t => key'[u] = key[u]
      /\ using'[t] = NoLock /\ \A u \in Tasks : u # t => using'[u] = using[u]
      /\ loading' = loading \ {t}
  BY <1>1 DEF TypeOK, Return
<1>3. /\ holder' \in [Locks -> Tasks \cup {NoTask}] /\ holder'[using[t]] = NoTask
      /\ \A L \in Locks : L # using[t] => holder'[L] = holder[L]
  BY <1>1 DEF TypeOK, Released
<1>4. Owners'
  <2>1. \A u \in Tasks : key'[u] = NoKey <=> using'[u] = NoLock
    BY <1>2 DEF Owners
  <2>2. ASSUME NEW u \in loading'
        PROVE  using'[u] # NoLock /\ holder'[using'[u]] = u
    <3>1. u # t /\ u \in loading /\ u \in Tasks /\ using[u] \in Locks /\ holder[using[u]] = u
      BY <1>2 DEF Owners, TypeOK
    <3> QED BY <1>1, <1>2, <1>3, <3>1, NoneAssumption
  <2>3. ASSUME NEW L \in Locks, Locked(L)'
        PROVE  holder'[L] \in loading' /\ using'[holder'[L]] = L
    <3>1. L # using[t] /\ holder'[L] = holder[L] /\ Locked(L)
      BY <1>3, <2>3 DEF Locked
    <3>2. holder[L] \in loading /\ using[holder[L]] = L /\ holder[L] # t
      BY <3>1 DEF Owners
    <3> QED BY <1>2, <3>1, <3>2 DEF TypeOK
  <2> QED BY <2>1, <2>2, <2>3 DEF Owners
<1>5. Queues'
  <2>1. \A L \in Locks : \A i \in DOMAIN queue[L] : queue[L][i] \in Tasks /\ queue[L][i] # t
    BY LenProperties DEF Queues, TypeOK
  <2>2. \A u \in Tasks \ loading' : using'[u] # NoLock => u # t /\ u \notin loading
    BY <1>2
  <2> QED BY <1>2, <2>1, <2>2 DEF Queues
<1> QED BY <1>1, <1>2, <1>3, <1>4, <1>5 DEF TypeOK

(* What is left to show when a load ends: the table keeps its locks or drops *)
(* them, and a key whose lock is dropped under its tasks counts as disturbed. *)
LEMMA LoadEnds ==
  ASSUME Inv, NEW t \in loading, holder' = Released(t), Return(t), UNCHANGED <<queue, dropped>>,
         left' \in [Keys -> NoEntry .. Ttl], Cardinality(Entries(left')) <= MaxSize,
         table' \in [Keys -> Locks \cup {NoLock}],
         \A j \in Keys : table'[j] \in {table[j], NoLock},
         disturbed' \subseteq Keys,
         \A u \in Tasks \ {t} : key[u] # NoKey =>
           key[u] \in disturbed' \/ (key[u] \notin disturbed /\ table'[key[u]] = table[key[u]]),
         \A j \in Keys : table'[j] # NoLock /\ left'[j] = NoEntry =>
           j \in dropped \/ \E u \in Tasks \ {t} : using[u] = table'[j]
  PROVE  Inv'
<1> USE DEF Inv
<1>1. /\ key[t] \in Keys /\ using[t] \in Locks /\ t \in Tasks
      /\ holder' \in [Locks -> Tasks \cup {NoTask}] /\ queue' \in [Locks -> Seq(Tasks)]
      /\ key' \in [Tasks -> Keys \cup {NoKey}] /\ using' \in [Tasks -> Locks \cup {NoLock}]
      /\ loading' \subseteq Tasks
      /\ key'[t] = NoKey /\ \A u \in Tasks : u # t => key'[u] = key[u]
      /\ using'[t] = NoLock /\ \A u \in Tasks : u # t => using'[u] = using[u]
      /\ Owners' /\ Queues'
  BY Leaves
<1>2. TypeOK'
  BY <1>1 DEF TypeOK
<1>3. LockHasKey'
  <2>1. \A u, v \in Tasks : using'[u] = using'[v] => key'[u] = key'[v]
    <3> SUFFICES ASSUME NEW u \in Tasks, NEW v \in Tasks, using'[u] = using'[v]
                 PROVE  key'[u] = key'[v]
      OBVIOUS
    <3>1. CASE using'[u] = NoLock
      <4>1. key'[u] = NoKey /\ key'[v] = NoKey
        BY <1>1, <3>1 DEF Owners
      <4> QED BY <4>1
    <3>2. CASE using'[u] # NoLock
      <4>1. u # t /\ v # t
        BY <1>1, <3>2
      <4>2. using[u] = using[v] /\ key'[u] = key[u] /\ key'[v] = key[v]
        BY <1>1, <4>1
      <4>3. LockHasKey
        OBVIOUS
      <4> HIDE DEF Inv
      <4> QED BY <4>2, <4>3, Zenon DEF LockHasKey
    <3> QED BY <3>1, <3>2
  <2>2. ASSUME NEW u \in Tasks, NEW j \in Keys, table'[j] # NoLock, using'[u] = table'[j]
        PROVE  key'[u] = j
    <3>1. u # t /\ table'[j] = table[j]
      BY <1>1, <2>2
    <3>2. table[j] # NoLock /\ using[u] = table[j] /\ key'[u] = key[u]
      BY <1>1, <2>2, <3>1
    <3> QED BY <3>2 DEF LockHasKey
  <2>3. \A i, j \in Keys : table'[j] # NoLock /\ table'[i] = table'[j] => i = j
    BY DEF LockHasKey
  <2> QED BY <2>1, <2>2, <2>3 DEF LockHasKey
<1>4. LockShared'
  <2> SUFFICES ASSUME NEW u \in Tasks, key'[u] # NoKey
               PROVE  key'[u] \in disturbed' \/ using'[u] = table'[key'[u]]
    BY DEF LockShared
  <2>1. u # t /\ key'[u] = key[u] /\ using'[u] = using[u]
    BY <1>1
  <2> QED BY <2>1 DEF LockShared
<1>5. NoLockLeaks'
  <2> SUFFICES ASSUME NEW j \in Keys, table'[j] # NoLock, left'[j] = NoEntry
               PROVE  j \in dropped \/ \E u \in Tasks : using'[u] = table'[j]
    BY DEF NoLockLeaks
  <2>1. CASE \E u \in Tasks \ {t} : using[u] = table'[j]
    BY <1>1, <2>1
  <2> QED BY <2>1
<1> QED BY <1>1, <1>2, <1>3, <1>4, <1>5

LEMMA LoadFailsInv == ASSUME Inv, NEW t \in Tasks, LoadFails(t) PROVE Inv'
<1> USE DEF Inv
<1> DEFINE k == key[t]
<1>1. /\ t \in loading /\ k \in Keys /\ using[t] \in Locks
      /\ left' = left /\ UNCHANGED <<queue, dropped>> /\ holder' = Released(t) /\ Return(t)
      /\ table' = IF LockDropped(t, k) THEN [table EXCEPT ![k] = NoLock] ELSE table
      /\ disturbed' = (disturbed \cup {k}) \cap Busy(t)
  BY DEF LoadFails, TypeOK, Owners
<1> HIDE DEF k
<1>2. /\ table' \in [Keys -> Locks \cup {NoLock}]
      /\ \A j \in Keys : table'[j] \in {table[j], NoLock} /\ (j # k => table'[j] = table[j])
      /\ table'[k] # NoLock => ~LockDropped(t, k) /\ table'[k] = table[k]
  BY <1>1 DEF TypeOK
<1>3. disturbed' \subseteq Keys
  BY <1>1 DEF TypeOK
<1>4. ASSUME NEW u \in Tasks \ {t}, key[u] # NoKey
      PROVE  key[u] \in disturbed' \/ (key[u] \notin disturbed /\ table'[key[u]] = table[key[u]])
  <2>1. key[u] \in Keys /\ key[u] \in Busy(t)
    BY <1>4 DEF TypeOK, Busy
  <2> QED BY <1>1, <1>2, <2>1
<1>5. ASSUME NEW j \in Keys, table'[j] # NoLock, left'[j] = NoEntry
      PROVE  j \in dropped \/ \E u \in Tasks \ {t} : using[u] = table'[j]
  <2>1. table'[j] = table[j] /\ left[j] = NoEntry
    BY <1>1, <1>2, <1>5
  <2>2. using[t] # table[j]
    <3>1. CASE j = k
      BY <1>1, <1>2, <1>5, <2>1, <3>1 DEF LockDropped
    <3>2. CASE j # k
      BY <1>1, <1>5, <2>1, <3>2 DEF LockHasKey, k
    <3> QED BY <3>1, <3>2
  <2> QED BY <1>5, <2>1, <2>2 DEF NoLockLeaks
<1>6. left' \in [Keys -> NoEntry .. Ttl] /\ Cardinality(Entries(left')) <= MaxSize
  BY <1>1 DEF TypeOK
<1> QED BY <1>1, <1>2, <1>3, <1>4, <1>5, <1>6, LoadEnds

(* The entries of LoadOk. *)
Stored(k, evicted) == [Without(left, evicted) EXCEPT ![k] = Ttl]

(* Storing an entry keeps the cache within its size: when it is full, one    *)
(* entry makes room.                                                        *)
LEMMA StoreFits ==
  ASSUME TypeOK, NEW k \in Keys, NEW evicted,
         IF Full(k) THEN \E o \in Oldest : evicted = {o} ELSE evicted = {}
  PROVE  /\ evicted \subseteq Keys \ {k}
         /\ Stored(k, evicted) \in [Keys -> NoEntry .. Ttl]
         /\ Cardinality(Entries(Stored(k, evicted))) <= MaxSize
         /\ Stored(k, evicted)[k] # NoEntry
         /\ \A j \in Keys : j # k =>
              Stored(k, evicted)[j] = IF j \in evicted THEN NoEntry ELSE left[j]
<1> DEFINE l == Stored(k, evicted)
<1>1. evicted \subseteq Entries(left) /\ evicted \subseteq Keys \ {k}
  BY DEF Oldest, Entries, Full
<1>2. /\ Without(left, evicted) \in [Keys -> NoEntry .. Ttl]
      /\ \A j \in Keys : Without(left, evicted)[j] = IF j \in evicted THEN NoEntry ELSE left[j]
  BY <1>1, WithoutEntries
<1>3. /\ l \in [Keys -> NoEntry .. Ttl] /\ l[k] = Ttl /\ Ttl # NoEntry
      /\ \A j \in Keys : j # k => l[j] = IF j \in evicted THEN NoEntry ELSE left[j]
  BY <1>2, BoundAssumption DEF NoEntry, Stored
<1> HIDE DEF l
<1>4. Entries(l) = (Entries(left) \ evicted) \cup {k}
  BY <1>1, <1>3 DEF Entries
<1>5. Cardinality(Entries(l)) <= MaxSize
  <2>1. Cardinality(Entries(left)) <= MaxSize /\ Cardinality(Entries(left)) \in Nat
    BY EntriesFinite DEF TypeOK
  <2>2. CASE left[k] # NoEntry
    <3>1. evicted = {}
      BY <2>2 DEF Full
    <3>2. Entries(l) = Entries(left)
      BY <1>4, <2>2, <3>1 DEF Entries
    <3> QED BY <2>1, <3>2
  <2>3. CASE left[k] = NoEntry /\ ~Full(k)
    <3>1. evicted = {} /\ Cardinality(Entries(left)) < MaxSize
      BY <2>1, <2>3, BoundAssumption DEF Full
    <3>2. Entries(l) = Entries(left) \cup {k} /\ k \notin Entries(left)
      BY <1>4, <2>3, <3>1 DEF Entries
    <3>3. Cardinality(Entries(l)) = Cardinality(Entries(left)) + 1
      BY <3>2, EntriesFinite, FS_AddElement
    <3> QED BY <2>1, <3>1, <3>3, BoundAssumption
  <2>4. CASE Full(k)
    <3>1. PICK o \in Oldest : evicted = {o}
      BY <2>4
    <3>2. o \in Entries(left) /\ k \notin Entries(left)
      BY <2>4, <3>1 DEF Oldest, Full, Entries
    <3> DEFINE rest == Entries(left) \ {o}
    <3>3. IsFiniteSet(rest) /\ Cardinality(rest) = Cardinality(Entries(left)) - 1
      BY <3>2, EntriesFinite, FS_RemoveElement
    <3>4. k \notin rest /\ Entries(l) = rest \cup {k}
      BY <1>4, <3>1, <3>2
    <3> HIDE DEF rest
    <3>5. Cardinality(Entries(l)) = Cardinality(rest) + 1
      BY <3>3, <3>4, FS_AddElement
    <3> QED BY <2>1, <3>3, <3>5
  <2> QED BY <2>2, <2>3, <2>4
<1> QED BY <1>1, <1>3, <1>5 DEF l

LEMMA LoadOkInv == ASSUME Inv, NEW t \in Tasks, LoadOk(t) PROVE Inv'
<1> USE DEF Inv
<1> DEFINE k == key[t]
<1>1. /\ t \in loading /\ k \in Keys /\ using[t] \in Locks
      /\ UNCHANGED <<queue, dropped>> /\ holder' = Released(t) /\ Return(t)
  BY DEF LoadOk, TypeOK, Owners
<1>2. PICK evicted \in IF Full(k) THEN {{o} : o \in Oldest} ELSE {{}} :
        /\ left' = [Without(left, evicted) EXCEPT ![k] = Ttl]
        /\ table' = LocksWithout(evicted)
        /\ disturbed' = (disturbed \cup evicted) \cap Busy(t)
  BY DEF LoadOk
<1> HIDE DEF k
<1>3. /\ evicted \subseteq Keys \ {k}
      /\ left' \in [Keys -> NoEntry .. Ttl] /\ Cardinality(Entries(left')) <= MaxSize
      /\ left'[k] # NoEntry
      /\ \A j \in Keys : j # k => left'[j] = IF j \in evicted THEN NoEntry ELSE left[j]
  <2>1. TypeOK
    OBVIOUS
  <2> HIDE DEF Inv
  <2>2. k \in Keys /\ IF Full(k) THEN \E o \in Oldest : evicted = {o} ELSE evicted = {}
    BY <1>1, <1>2
  <2>3. left' = Stored(k, evicted)
    BY <1>2 DEF Stored
  <2> QED BY <2>1, <2>2, <2>3, StoreFits
<1>4. /\ table' \in [Keys -> Locks \cup {NoLock}]
      /\ \A j \in Keys : table'[j] \in {table[j], NoLock}
      /\ \A j \in Keys : table'[j] # table[j] => j \in evicted
      /\ \A j \in evicted : table'[j] # NoLock => Locked(table'[j])
  BY <1>2, <1>3, LocksLeft
<1>5. disturbed' \subseteq Keys
  BY <1>2, <1>3 DEF TypeOK
<1>6. ASSUME NEW u \in Tasks \ {t}, key[u] # NoKey
      PROVE  key[u] \in disturbed' \/ (key[u] \notin disturbed /\ table'[key[u]] = table[key[u]])
  <2>1. key[u] \in Keys /\ key[u] \in Busy(t)
    BY <1>6 DEF TypeOK, Busy
  <2> QED BY <1>2, <1>4, <2>1
<1>7. ASSUME NEW j \in Keys, table'[j] # NoLock, left'[j] = NoEntry
      PROVE  j \in dropped \/ \E u \in Tasks \ {t} : using[u] = table'[j]
  <2>1. j # k /\ table'[j] = table[j] /\ table[j] \in Locks /\ using[t] # table[j]
    BY <1>1, <1>3, <1>4, <1>7 DEF LockHasKey, TypeOK, k
  <2>2. CASE j \in evicted
    <3>1. Locked(table[j])
      BY <1>4, <1>7, <2>1, <2>2
    <3>2. holder[table[j]] \in Tasks /\ using[holder[table[j]]] = table[j]
      BY <2>1, <3>1 DEF Owners, TypeOK
    <3> QED BY <2>1, <3>2
  <2>3. CASE j \notin evicted
    BY <1>3, <1>7, <2>1, <2>3 DEF NoLockLeaks
  <2> QED BY <2>2, <2>3
<1> QED BY <1>1, <1>3, <1>4, <1>5, <1>6, <1>7, LoadEnds

-----------------------------------------------------------------------------
(* A woken task runs *)

(* The first of a queue leaves it, and nobody else does. *)
LEMMA Dequeue ==
  ASSUME Inv, NEW t \in Tasks, using[t] \in Locks,
         queue[using[t]] # <<>>, Head(queue[using[t]]) = t,
         queue' = [queue EXCEPT ![using[t]] = Tail(@)]
  PROVE  /\ t \notin loading
         /\ queue' \in [Locks -> Seq(Tasks)]
         /\ \A M \in Locks : \A i, j \in DOMAIN queue'[M] : queue'[M][i] = queue'[M][j] => i = j
         /\ \A M \in Locks : \A i \in DOMAIN queue'[M] :
              queue'[M][i] # t /\ queue'[M][i] \in Tasks \ loading /\ using[queue'[M][i]] = M
         /\ \A u \in Tasks \ loading : u # t /\ using[u] # NoLock =>
              \E i \in DOMAIN queue'[using[u]] : queue'[using[u]][i] = u
<1> USE DEF Inv
<1> DEFINE L == using[t]
           n == Len(queue[L])
<1>1. /\ queue[L] \in Seq(Tasks) /\ n \in Nat \ {0} /\ DOMAIN queue[L] = 1 .. n
      /\ \A i \in 1 .. n : queue[L][i] \in Tasks
      /\ queue[L][1] = t
  BY EmptySeq, LenProperties DEF TypeOK
<1>2. /\ queue'[L] = Tail(queue[L]) /\ queue' \in [Locks -> Seq(Tasks)]
      /\ \A M \in Locks : M # L => queue'[M] = queue[M]
  BY <1>1, HeadTailProperties DEF TypeOK
<1>3. /\ DOMAIN queue'[L] = 1 .. n - 1
      /\ \A i \in 1 .. n - 1 : queue'[L][i] = queue[L][i + 1]
  BY <1>1, <1>2, HeadTailProperties, LenProperties DEF TypeOK
<1>4. /\ \A i, j \in 1 .. n : queue[L][i] = queue[L][j] => i = j
      /\ \A i \in 1 .. n : queue[L][i] \notin loading /\ using[queue[L][i]] = L
  BY <1>1 DEF Queues
<1>5. t \notin loading
  BY <1>1, <1>4
<1> HIDE DEF L, n
<1>6. ASSUME NEW M \in Locks, NEW i \in DOMAIN queue'[M], NEW j \in DOMAIN queue'[M],
             queue'[M][i] = queue'[M][j]
      PROVE  i = j
  <2>1. CASE M = L
    <3>1. /\ i + 1 \in 1 .. n /\ j + 1 \in 1 .. n
          /\ queue[L][i + 1] = queue[L][j + 1] /\ i \in Int /\ j \in Int
      BY <1>1, <1>3, <1>6, <2>1
    <3>2. i + 1 = j + 1
      BY <1>4, <3>1
    <3> QED BY <3>1, <3>2
  <2>2. CASE M # L
    BY <1>2, <1>6, <2>2 DEF Queues
  <2> QED BY <2>1, <2>2
<1>7. ASSUME NEW M \in Locks, NEW i \in DOMAIN queue'[M]
      PROVE  queue'[M][i] # t /\ queue'[M][i] \in Tasks \ loading /\ using[queue'[M][i]] = M
  <2>1. CASE M = L
    <3>1. i + 1 \in 1 .. n /\ i + 1 # 1 /\ queue'[M][i] = queue[L][i + 1]
      BY <1>1, <1>3, <1>7, <2>1
    <3> QED BY <1>1, <1>4, <2>1, <3>1
  <2>2. CASE M # L
    <3>1. queue[M] \in Seq(Tasks) /\ queue'[M] = queue[M]
      BY <1>2, <2>2 DEF TypeOK
    <3>2. queue[M][i] \in Tasks
      BY <1>7, <3>1, LenProperties
    <3> QED BY <1>7, <2>2, <3>1, <3>2 DEF Queues, L
  <2> QED BY <2>1, <2>2
<1>8. ASSUME NEW u \in Tasks \ loading, u # t, using[u] # NoLock
      PROVE  \E i \in DOMAIN queue'[using[u]] : queue'[using[u]][i] = u
  <2>1. using[u] \in Locks
    BY <1>8 DEF TypeOK
  <2>2. PICK j \in DOMAIN queue[using[u]] : queue[using[u]][j] = u
    BY <1>8 DEF Queues
  <2>3. CASE using[u] = L
    <3>1. j \in 1 .. n /\ j # 1
      BY <1>1, <1>8, <2>2, <2>3
    <3>2. j - 1 \in 1 .. n - 1 /\ (j - 1) + 1 = j
      BY <1>1, <3>1
    <3>3. queue'[L][j - 1] = u
      BY <1>3, <2>2, <2>3, <3>2
    <3> QED BY <1>3, <2>3, <3>2, <3>3
  <2>4. CASE using[u] # L
    BY <1>2, <2>1, <2>2, <2>4
  <2> QED BY <2>3, <2>4
<1> QED BY <1>2, <1>5, <1>6, <1>7, <1>8

LEMMA ResumeInv == ASSUME Inv, NEW t \in Tasks, Resume(t) PROVE Inv'
<1> USE DEF Inv
<1> DEFINE L == using[t]
           k == key[t]
<1>1. /\ k \in Keys /\ L \in Locks /\ queue[L] # <<>> /\ ~Locked(L) /\ Head(queue[L]) = t
      /\ queue' = [queue EXCEPT ![L] = Tail(@)] /\ UNCHANGED <<table, disturbed>>
  BY DEF Resume, Woken, TypeOK, Owners
<1>2. /\ t \notin loading
      /\ queue' \in [Locks -> Seq(Tasks)]
      /\ \A M \in Locks : \A i, j \in DOMAIN queue'[M] : queue'[M][i] = queue'[M][j] => i = j
      /\ \A M \in Locks : \A i \in DOMAIN queue'[M] :
           queue'[M][i] # t /\ queue'[M][i] \in Tasks \ loading /\ using[queue'[M][i]] = M
      /\ \A u \in Tasks \ loading : u # t /\ using[u] # NoLock =>
           \E i \in DOMAIN queue'[using[u]] : queue'[using[u]][i] = u
  BY <1>1, Dequeue
<1>3. CASE left[k] > 0
  <2>0. Return(t) /\ UNCHANGED <<left, holder, dropped>>
    BY <1>3 DEF Resume
  <2>1. /\ key' = [key EXCEPT ![t] = NoKey] /\ using' = [using EXCEPT ![t] = NoLock]
        /\ loading' = loading /\ UNCHANGED <<left, holder, dropped>>
    BY <1>2, <2>0 DEF Return
  <2>2. /\ key' \in [Tasks -> Keys \cup {NoKey}] /\ using' \in [Tasks -> Locks \cup {NoLock}]
        /\ key'[t] = NoKey /\ \A u \in Tasks : u # t => key'[u] = key[u]
        /\ using'[t] = NoLock /\ \A u \in Tasks : u # t => using'[u] = using[u]
    BY <2>1 DEF TypeOK
  <2>3. TypeOK'
    BY <1>1, <1>2, <2>1, <2>2 DEF TypeOK
  <2> HIDE DEF L, k
  <2>4. Owners'
    <3>1. \A u \in loading : u \in Tasks /\ u # t
      BY <1>2 DEF TypeOK
    <3> QED BY <2>1, <2>2, <3>1 DEF Owners, Locked
  <2>5. Queues'
    BY <1>2, <2>1, <2>2 DEF Queues
  <2>6. LockHasKey'
    <3>1. ASSUME NEW u \in Tasks, NEW v \in Tasks, using'[u] = using'[v]
          PROVE  key'[u] = key'[v]
      <4>1. CASE using'[u] = NoLock
        <5>1. key'[u] = NoKey /\ key'[v] = NoKey
          BY <2>4, <3>1, <4>1 DEF Owners
        <5> QED BY <5>1
      <4>2. CASE using'[u] # NoLock
        BY <2>2, <3>1, <4>2 DEF LockHasKey
      <4> QED BY <4>1, <4>2
    <3>2. ASSUME NEW u \in Tasks, NEW j \in Keys, table[j] # NoLock, using'[u] = table[j]
          PROVE  key'[u] = j
      BY <2>2, <3>2 DEF LockHasKey
    <3> QED BY <1>1, <3>1, <3>2 DEF LockHasKey
  <2>7. LockShared'
    BY <1>1, <2>2 DEF LockShared
  <2>8. NoLockLeaks'
    <3> SUFFICES ASSUME NEW j \in Keys, table[j] # NoLock, left[j] = NoEntry
                 PROVE  j \in dropped \/ \E u \in Tasks : using'[u] = table[j]
      BY <1>1, <2>1 DEF NoLockLeaks
    <3>1. using[t] # table[j]
      BY <1>3 DEF LockHasKey, k, NoEntry
    <3> QED BY <2>2, <3>1 DEF NoLockLeaks
  <2> QED BY <2>3, <2>4, <2>5, <2>6, <2>7, <2>8
<1>4. CASE ~(left[k] > 0)
  <2>1. /\ left' = Without(left, {k}) /\ holder' = [holder EXCEPT ![L] = t]
        /\ loading' = loading \cup {t} /\ dropped' = dropped \cup (Expired \cap {k})
        /\ UNCHANGED <<key, using>>
    BY <1>4 DEF Resume
  <2>2. /\ left' \in [Keys -> NoEntry .. Ttl] /\ Entries(left') = Entries(left) \ {k}
        /\ \A j \in Keys : left'[j] = IF j = k THEN NoEntry ELSE left[j]
    BY <1>1, <2>1, WithoutEntries
  <2>3. Cardinality(Entries(left')) <= MaxSize
    BY <2>2, FewerEntries DEF TypeOK
  <2>4. /\ holder' \in [Locks -> Tasks \cup {NoTask}] /\ holder'[L] = t
        /\ \A M \in Locks : M # L => holder'[M] = holder[M]
    BY <1>1, <2>1 DEF TypeOK
  <2>5. TypeOK'
    <3>1. loading' \subseteq Tasks /\ disturbed' \subseteq Keys /\ dropped' \subseteq Keys
      BY <1>1, <2>1 DEF TypeOK
    <3>2. /\ table' \in [Keys -> Locks \cup {NoLock}]
          /\ key' \in [Tasks -> Keys \cup {NoKey}]
          /\ using' \in [Tasks -> Locks \cup {NoLock}]
      BY <1>1, <2>1 DEF TypeOK
    <3> HIDE DEF Inv
    <3> QED BY <1>2, <2>2, <2>3, <2>4, <3>1, <3>2 DEF TypeOK
  <2>6. Owners'
    <3>1. \A u \in loading : using[u] \in Locks /\ using[u] # L
      BY <1>1, NoneAssumption DEF Owners, Locked, TypeOK
    <3>2. ASSUME NEW M \in Locks, Locked(M)'
          PROVE  holder'[M] \in loading' /\ using[holder'[M]] = M
      BY <2>1, <2>4, <3>2 DEF Owners, Locked
    <3>3. ASSUME NEW u \in loading'
          PROVE  using[u] # NoLock /\ holder'[using[u]] = u
      BY <1>1, <2>1, <2>4, <3>1, <3>3, NoneAssumption DEF Owners
    <3> QED BY <2>1, <3>2, <3>3 DEF Owners
  <2> HIDE DEF L, k
  <2>7. Queues'
    BY <1>2, <2>1 DEF Queues
  <2>8. LockHasKey' /\ LockShared'
    BY <1>1, <2>1 DEF LockHasKey, LockShared
  <2>9. NoLockLeaks'
    <3> SUFFICES ASSUME NEW j \in Keys, table[j] # NoLock, left'[j] = NoEntry
                 PROVE  j \in dropped' \/ \E u \in Tasks : using[u] = table[j]
      BY <1>1, <2>1 DEF NoLockLeaks
    <3>1. CASE left[j] = NoEntry
      BY <2>1, <3>1 DEF NoLockLeaks
    <3>2. CASE left[j] # NoEntry
      <4>1. j = k /\ left[k] = 0
        BY <1>1, <1>4, <2>2, <3>2, BoundAssumption DEF TypeOK, NoEntry
      <4> QED BY <1>1, <2>1, <4>1 DEF Expired
    <3> QED BY <3>1, <3>2
  <2> QED BY <2>5, <2>6, <2>7, <2>8, <2>9
<1> QED BY <1>3, <1>4

-----------------------------------------------------------------------------
(* Theorems *)

LEMMA TickInv == ASSUME Inv, Tick PROVE Inv'
<1> USE DEF Inv
<1>1. /\ left' = [k \in Keys |-> IF left[k] > 0 THEN left[k] - 1 ELSE left[k]]
      /\ UNCHANGED <<table, holder, queue, key, using, loading, disturbed, dropped>>
  BY DEF Tick
<1>2. left' \in [Keys -> NoEntry .. Ttl] /\ \A k \in Keys : left'[k] = NoEntry <=> left[k] = NoEntry
  BY <1>1, BoundAssumption DEF TypeOK, NoEntry
<1>3. Entries(left') = Entries(left)
  BY <1>2 DEF Entries
<1>4. TypeOK'
  BY <1>1, <1>2, <1>3 DEF TypeOK
<1>5. Owners' /\ Queues' /\ LockHasKey' /\ LockShared'
  BY <1>1 DEF Owners, Queues, LockHasKey, LockShared, Locked
<1>6. NoLockLeaks'
  BY <1>1, <1>2 DEF NoLockLeaks
<1> QED BY <1>4, <1>5, <1>6

LEMMA InvNext == ASSUME Inv, [Next]_vars PROVE Inv'
<1>1. CASE UNCHANGED vars
  BY <1>1 DEF vars, Inv, TypeOK, Owners, Queues, LockHasKey, LockShared, NoLockLeaks, Locked, Entries
<1> QED BY <1>1, TickInv, CallInv, ResumeInv, LoadOkInv, LoadFailsInv DEF Next

(* Inv holds in every state. *)
THEOREM Invariance == Spec => []Inv
<1> QED BY InvInit, InvNext, PTL DEF Spec

(* The variables have their types, and the cache never holds more entries    *)
(* than max_size.                                                           *)
THEOREM TypeCorrect == Spec => []TypeOK
<1>1. Inv => TypeOK
  BY DEF Inv
<1> QED BY <1>1, Invariance, PTL

(* Two tasks ask the Provider for the seats of one event at one time only if *)
(* a load of it has failed, or its entry went, under tasks that wanted it.   *)
THEOREM StampedeIsExplained == Spec => []SingleFlightUnlessDisturbed
<1>1. ASSUME Inv PROVE SingleFlightUnlessDisturbed
  <2> SUFFICES ASSUME NEW t \in loading, NEW u \in loading, key[t] = key[u],
                      key[t] \notin disturbed
               PROVE  t = u
    BY DEF SingleFlightUnlessDisturbed
  <2>1. t \in Tasks /\ u \in Tasks
    BY <1>1 DEF Inv, TypeOK
  <2>2. /\ using[t] # NoLock /\ holder[using[t]] = t
        /\ using[u] # NoLock /\ holder[using[u]] = u
        /\ key[t] # NoKey
    BY <1>1, <2>1 DEF Inv, Owners
  <2>3. using[t] = table[key[t]] /\ using[u] = table[key[t]]
    BY <1>1, <2>1, <2>2 DEF Inv, LockShared
  <2> QED BY <2>2, <2>3
<1> QED BY <1>1, Invariance, PTL

(* A lock stays in the table only with an entry or a task that uses it, or   *)
(* after its expired entry was dropped without it.                           *)
THEOREM LocksAreReclaimed == Spec => []NoLockLeaks
<1>1. Inv => NoLockLeaks
  BY DEF Inv
<1> QED BY <1>1, Invariance, PTL

=============================================================================
