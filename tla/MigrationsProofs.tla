--------------------------- MODULE MigrationsProofs ---------------------------
(***************************************************************************)
(* Proofs about Migrations for any number of containers and of faults.     *)
(***************************************************************************)
EXTENDS Migrations, SequenceTheorems, TLAPS

LEMMA UpgradeType ==
  /\ Upgrade \in Seq(Objects) /\ Len(Upgrade) = 5
  /\ \A i \in 1 .. 5 : Upgrade[i] \in Objects
  /\ Objects = {Upgrade[i] : i \in 1 .. 5}
  /\ \A i, j \in 1 .. 5 : Upgrade[i] = Upgrade[j] => i = j
BY DEF Upgrade, Objects, ToSet

(* What is left of the upgrade is nothing, or begins somewhere in it. *)
LEMMA SuffixFrom ==
  ASSUME NEW todo1 \in Suffixes(Upgrade), todo1 # <<>>
  PROVE  \E i \in 1 .. 5 : todo1 = SubSeq(Upgrade, i, 5)
BY UpgradeType DEF Suffixes

(* The first of them is not among the others, and what it needs comes before. *)
LEMMA SuffixElements ==
  ASSUME NEW rest \in Suffixes(Upgrade)
  PROVE  /\ ToSet(rest) \subseteq Objects
         /\ rest # <<>> =>
              /\ Head(rest) \in ToSet(rest)
              /\ Needs(Head(rest)) \subseteq Objects \ ToSet(rest)
              /\ Tail(rest) \in Suffixes(Upgrade)
              /\ ToSet(Tail(rest)) = ToSet(rest) \ {Head(rest)}
<1>0. ToSet(<<>>) = {}
  BY DEF ToSet
<1>1. ASSUME rest # <<>>
      PROVE  /\ ToSet(rest) \subseteq Objects
             /\ Head(rest) \in ToSet(rest)
             /\ Needs(Head(rest)) \subseteq Objects \ ToSet(rest)
             /\ Tail(rest) \in Suffixes(Upgrade)
             /\ ToSet(Tail(rest)) = ToSet(rest) \ {Head(rest)}
  <2>1. PICK i \in 1 .. 5 : rest = SubSeq(Upgrade, i, 5)
    BY <1>1, SuffixFrom
  <2>2. /\ rest \in Seq(Objects) /\ Len(rest) = 6 - i
        /\ \A j \in 1 .. 6 - i : rest[j] = Upgrade[i + j - 1]
    <3>1. i \in Int /\ 5 \in Int /\ \A j \in i .. 5 : Upgrade[j] \in Objects
      BY <2>1, UpgradeType
    <3> QED BY <2>1, <3>1, SubSeqProperties
  <2>3. ToSet(rest) = {Upgrade[j] : j \in i .. 5}
    <3>1. DOMAIN rest = 1 .. 6 - i
      BY <2>2, LenProperties
    <3>2. \A j \in i .. 5 : j - i + 1 \in 1 .. 6 - i /\ rest[j - i + 1] = Upgrade[j]
      BY <2>1, <2>2
    <3>3. \A j \in 1 .. 6 - i : i + j - 1 \in i .. 5
      BY <2>1
    <3> QED BY <2>2, <3>1, <3>2, <3>3 DEF ToSet
  <2>4. Head(rest) = Upgrade[i] /\ Tail(rest) = SubSeq(Upgrade, i + 1, 5)
    BY <2>1, UpgradeType, HeadTailOfSubSeq
  <2>5. ToSet(Tail(rest)) = {Upgrade[j] : j \in i + 1 .. 5} /\ Tail(rest) \in Suffixes(Upgrade)
    <3>1. CASE i = 5
      <4>1. Tail(rest) = <<>>
        BY <2>4, <3>1, SubSeqEmpty, UpgradeType
      <4>2. {Upgrade[j] : j \in i + 1 .. 5} = {}
        BY <3>1
      <4> QED BY <1>0, <4>1, <4>2 DEF Suffixes
    <3>2. CASE i # 5
      <4>1. /\ Tail(rest) \in Seq(Objects) /\ Len(Tail(rest)) = 5 - i
            /\ \A j \in 1 .. 5 - i : Tail(rest)[j] = Upgrade[i + j]
        BY <1>1, <2>2, HeadTailProperties
      <4>2. DOMAIN Tail(rest) = 1 .. 5 - i
        BY <4>1, LenProperties
      <4>3. \A j \in i + 1 .. 5 : j - i \in 1 .. 5 - i /\ Tail(rest)[j - i] = Upgrade[j]
        BY <2>1, <4>1
      <4>4. \A j \in 1 .. 5 - i : i + j \in i + 1 .. 5
        BY <2>1
      <4>5. Tail(rest) \in Suffixes(Upgrade)
        <5>1. i + 1 \in 1 .. Len(Upgrade) /\ Tail(rest) = SubSeq(Upgrade, i + 1, Len(Upgrade))
          BY <2>1, <2>4, <3>2, UpgradeType
        <5> QED BY <5>1, Zenon DEF Suffixes
      <4>6. ToSet(Tail(rest)) = {Tail(rest)[j] : j \in 1 .. 5 - i}
        BY <4>2 DEF ToSet
      <4>7. \A j \in 1 .. 5 - i : Tail(rest)[j] = Upgrade[i + j]
        BY <4>1
      <4>8. {Tail(rest)[j] : j \in 1 .. 5 - i} = {Upgrade[j] : j \in i + 1 .. 5}
        <5>1. ASSUME NEW j \in 1 .. 5 - i
              PROVE  Tail(rest)[j] \in {Upgrade[k] : k \in i + 1 .. 5}
          BY <4>4, <4>7
        <5>2. ASSUME NEW j \in i + 1 .. 5
              PROVE  Upgrade[j] \in {Tail(rest)[k] : k \in 1 .. 5 - i}
          BY <4>3
        <5> QED BY <5>1, <5>2
      <4> QED BY <4>5, <4>6, <4>8
    <3> QED BY <3>1, <3>2
  <2>6. {Upgrade[j] : j \in i .. 5} \subseteq Objects
    <3>1. \A j \in i .. 5 : j \in 1 .. 5
      BY <2>1
    <3>2. \A j \in 1 .. 5 : Upgrade[j] \in Objects
      BY UpgradeType, Zenon
    <3> QED BY <3>1, <3>2
  <2>7. Needs(Upgrade[i]) \subseteq {Upgrade[j] : j \in 1 .. i - 1}
    BY DEF Needs, Upgrade
  <2>8. {Upgrade[j] : j \in 1 .. i - 1} \subseteq Objects \ {Upgrade[j] : j \in i .. 5}
    <3> SUFFICES ASSUME NEW j \in 1 .. i - 1
                 PROVE  Upgrade[j] \in Objects /\ \A n \in i .. 5 : Upgrade[j] # Upgrade[n]
      <4>1. ASSUME NEW x \in {Upgrade[j] : j \in 1 .. i - 1}
            PROVE  x \in Objects \ {Upgrade[j] : j \in i .. 5}
        BY <4>1, Zenon
      <4> QED BY <4>1
    <3>1. j \in 1 .. 5 /\ \A n \in i .. 5 : n \in 1 .. 5 /\ n # j
      BY <2>1
    <3> QED BY <3>1, UpgradeType, Zenon
  <2>9. Head(rest) \in ToSet(rest)
    <3>1. i \in i .. 5
      BY <2>1
    <3> QED BY <2>3, <2>4, <3>1, Zenon
  <2>10. Needs(Head(rest)) \subseteq Objects \ ToSet(rest)
    BY <2>3, <2>4, <2>7, <2>8, Zenon
  <2>11. {Upgrade[j] : j \in i + 1 .. 5} = {Upgrade[j] : j \in i .. 5} \ {Upgrade[i]}
    <3>1. {Upgrade[j] : j \in i .. 5} = {Upgrade[j] : j \in i + 1 .. 5} \cup {Upgrade[i]}
      BY <2>1
    <3>2. Upgrade[i] \notin {Upgrade[j] : j \in i + 1 .. 5}
      BY <2>1, UpgradeType
    <3> QED BY <3>1, <3>2
  <2>12. ToSet(Tail(rest)) = ToSet(rest) \ {Head(rest)}
    BY <2>3, <2>4, <2>5, <2>11, Zenon
  <2> QED BY <2>3, <2>5, <2>6, <2>9, <2>10, <2>12
<1> QED BY <1>0, <1>1

(* An upgrade that has the whole of Upgrade to do lacks every object. *)
LEMMA WholeUpgrade ==
  /\ Upgrade \in Suffixes(Upgrade) /\ <<>> \in Suffixes(Upgrade)
  /\ ToSet(Upgrade) = Objects /\ ToSet(<<>>) = {}
  /\ "revision" \in Objects
<1>1. Upgrade = SubSeq(Upgrade, 1, 5)
  BY UpgradeType, SubSeqFull
<1>2. Upgrade \in Suffixes(Upgrade) /\ <<>> \in Suffixes(Upgrade)
  BY <1>1, UpgradeType DEF Suffixes
<1>3. "revision" \in Objects
  BY UpgradeType DEF Upgrade
<1> QED BY <1>2, <1>3 DEF Objects, ToSet

-----------------------------------------------------------------------------
(* Only the holder of the lock upgrades. *)
LEMMA Alone ==
  ASSUME Inv, NEW c \in Containers, place[c] \in {"comparing", "upgrading"}
  PROVE  \A d \in Containers \ {c} :
           place[d] \notin {"comparing", "upgrading"} /\ work[d] = {} /\ todo[d] = <<>>
BY DEF Inv, TypeOK, Progress

(* The statement an upgrade has come to is one it can execute. *)
LEMMA Executable ==
  ASSUME Inv, NEW c \in Containers, place[c] = "upgrading", todo[c] # <<>>
  PROVE  /\ ~Refused(c, Head(todo[c])) /\ ~Waits(c, Head(todo[c]))
         /\ schema = {} /\ work[c] = Objects \ ToSet(todo[c])
<1>1. todo[c] \in Suffixes(Upgrade)
  BY DEF Inv, TypeOK
<1>2. schema = {} /\ work[c] = Objects \ ToSet(todo[c])
  BY DEF Inv, Progress
<1>3. ~Refused(c, Head(todo[c]))
  BY <1>1, <1>2, SuffixElements DEF Refused
<1>4. ~Waits(c, Head(todo[c]))
  BY Alone DEF Waits
<1> QED BY <1>2, <1>3, <1>4

LEMMA InvInit == ASSUME Init PROVE Inv
<1>1. TypeOK
  BY WholeUpgrade, ContainerAssumption DEF Init, TypeOK
<1> QED BY <1>1 DEF Init, Inv, WholeUpgrades, Progress, ServesOnWholeSchema

(* An upgrade that is rolled back leaves everything to the others. *)
LEMMA AbortInv ==
  ASSUME Inv, NEW c \in Containers, place[c] \in {"locking", "comparing", "upgrading"},
         Abort(c), faults' \in Nat
  PROVE  Inv'
<1> USE DEF Inv, Abort, End, Goto, RolledBack, Unlocked, AfterFailure
<1>1. TypeOK'
  BY WholeUpgrade, ContainerAssumption DEF TypeOK
<1>2. WholeUpgrades' /\ Progress' /\ ServesOnWholeSchema'
  BY DEF TypeOK, WholeUpgrades, Progress, ServesOnWholeSchema
<1> QED BY <1>1, <1>2

(* An upgrade that commits leaves the whole schema. *)
LEMMA CommitInv ==
  ASSUME Inv, NEW c \in Containers, Commit(c) \/ CommitUnseen(c)
  PROVE  Inv'
<1> USE DEF Inv, Commit, CommitUnseen, Fault, End, Goto, Unlocked, AfterFailure
<1>1. schema' = Objects
  BY WholeUpgrade DEF Progress
<1>2. TypeOK'
  BY <1>1, WholeUpgrade, ContainerAssumption DEF TypeOK
<1>3. WholeUpgrades' /\ ServesOnWholeSchema'
  BY <1>1 DEF WholeUpgrades, ServesOnWholeSchema
<1>4. Progress'
  BY Alone DEF TypeOK, Progress
<1> QED BY <1>2, <1>3, <1>4

LEMMA StepInv ==
  ASSUME Inv, NEW c \in Containers, Step(c)
  PROVE  Inv'
<1> USE DEF Inv, Goto
<1>1. CASE Begin(c)
  BY <1>1 DEF Begin, TypeOK, WholeUpgrades, Progress, ServesOnWholeSchema
<1>2. CASE Lock(c)
  BY <1>2, ContainerAssumption
     DEF Lock, LockFree, TypeOK, WholeUpgrades, Progress, ServesOnWholeSchema
<1>3. CASE Compare(c)
  <2>1. TypeOK'
    BY <1>3, WholeUpgrade DEF Compare, TypeOK
  <2>2. Progress'
    BY <1>3, WholeUpgrade DEF Compare, TypeOK, WholeUpgrades, Progress
  <2> QED BY <1>3, <2>1, <2>2 DEF Compare, TypeOK, WholeUpgrades, ServesOnWholeSchema
<1>4. CASE Execute(c)
  <2>1. /\ work' = [work EXCEPT ![c] = @ \cup {Head(todo[c])}]
        /\ todo' = [todo EXCEPT ![c] = Tail(@)]
        /\ UNCHANGED <<schema, lock, place, faults>>
        /\ place[c] = "upgrading" /\ todo[c] # <<>>
    BY <1>4, Executable DEF Execute
  <2>2. /\ ToSet(todo[c]) \subseteq Objects /\ Head(todo[c]) \in ToSet(todo[c])
        /\ Tail(todo[c]) \in Suffixes(Upgrade)
        /\ ToSet(Tail(todo[c])) = ToSet(todo[c]) \ {Head(todo[c])}
    BY <2>1, SuffixElements DEF TypeOK
  <2>3. TypeOK'
    BY <2>1, <2>2 DEF TypeOK
  <2>4. schema = {} /\ work[c] = Objects \ ToSet(todo[c])
    BY <2>1, Executable
  <2>5. Progress'
    BY <2>1, <2>2, <2>4 DEF TypeOK, Progress
  <2> QED BY <2>1, <2>3, <2>5 DEF WholeUpgrades, ServesOnWholeSchema
<1>5. CASE Commit(c)
  BY <1>5, CommitInv
<1> QED BY <1>1, <1>2, <1>3, <1>4, <1>5 DEF Step

LEMMA InvNext == ASSUME Inv, [Next]_vars PROVE Inv'
<1>1. CASE UNCHANGED vars
  BY <1>1 DEF vars, Inv, TypeOK, WholeUpgrades, Progress, ServesOnWholeSchema
<1>2. ASSUME NEW c \in Containers, Fail(c) PROVE Inv'
  BY <1>2, AbortInv DEF Fail, Fault, Inv, TypeOK
<1>3. ASSUME NEW c \in Containers, Restart(c) PROVE Inv'
  BY <1>3 DEF Restart, Goto, Fault, Inv, TypeOK, WholeUpgrades, Progress, ServesOnWholeSchema
<1> QED BY <1>1, <1>2, <1>3, StepInv, CommitInv DEF Next

-----------------------------------------------------------------------------
(* The inductive invariant holds throughout. *)
THEOREM Invariance == Spec => []Inv
<1>1. Init => Inv
  BY InvInit
<1>2. Inv /\ [Next]_vars => Inv'
  BY InvNext
<1> QED BY <1>1, <1>2, PTL DEF Spec

(* Every variable keeps its type, and the lock is held by the transaction   *)
(* that compares or upgrades and by no other (do_run_migrations).           *)
THEOREM TypeCorrect == Spec => []TypeOK
<1>1. Inv => TypeOK
  BY DEF Inv
<1> QED BY <1>1, Invariance, PTL

(* No statement of an upgrade is ever refused, however many containers start *)
(* together and wherever earlier ones died (migrations/env.py).             *)
THEOREM NoUpgradeIsRefused == Spec => []UpgradeNeverRefused
<1>1. Inv => UpgradeNeverRefused
  BY Executable DEF UpgradeNeverRefused
<1> QED BY <1>1, Invariance, PTL

(* A server only runs on the whole schema (run.sh). *)
THEOREM SchemaIsWhole == Spec => []ServesOnWholeSchema
<1>1. Inv => ServesOnWholeSchema
  BY DEF Inv
<1> QED BY <1>1, Invariance, PTL

=============================================================================
