--------------------------- MODULE ByteBudgetProofs ---------------------------
(***************************************************************************)
(* Proofs about ByteBudget for any number of threads, any items and sizes  *)
(* and any capacity.  IInv strengthens the properties until every step     *)
(* preserves it:                                                           *)
(*   Owned     each item is in exactly one hand,                           *)
(*   Balanced  the atomic is the bytes of the outstanding items,           *)
(*   Mutex     the gate is held exactly inside reserve's critical section, *)
(*   Wakeup    whoever is past its re-check sleeps with cause or will be   *)
(*             notified,                                                   *)
(*   Marks     the unpublished marks account for what peak still lacks.    *)
(***************************************************************************)
EXTENDS ByteBudget, FiniteSetTheorems, TLAPS

Owned ==
  /\ \A r \in Reservers : rpc[r] = "idle" <=> want[r] = Nobody
  /\ \A l \in Releasers : lpc[l] = "sub" <=> giving[l] # Nobody
  /\ \A r, s \in Reservers : (r # s /\ want[r] # Nobody) => want[r] # want[s]
  /\ \A k, l \in Releasers : (k # l /\ giving[k] # Nobody) => giving[k] # giving[l]
  /\ \A r \in Reservers, l \in Releasers : want[r] # Nobody => want[r] # giving[l]
  /\ \A r \in Reservers : want[r] \notin held \union released
  /\ \A l \in Releasers : giving[l] \notin held \union released
  /\ held \intersect released = {}

Balanced ==
  /\ used = Bytes(Outstanding)
  /\ used <= Capacity
  /\ \A r \in Reservers : rpc[r] \in {"cas", "peak"} => Fits(r, seen[r])

Mutex ==
  \A r \in Reservers : gate = r <=> rpc[r] \in {"recheck", "park"}

Wakeup ==
  \A r \in Reservers :
    (rpc[r] \in {"park", "waiting"} /\ Fits(r, used))
      => \E l \in Releasers : lpc[l] = "notify"

Mark(r) == seen[r] + Cost[want[r]]

Marks ==
  /\ used <= high
  /\ peak <= high
  /\ high <= Capacity
  /\ \A r \in Reservers : rpc[r] = "peak" => Mark(r) <= high
  /\ peak < high => \E r \in Reservers : rpc[r] = "peak" /\ Mark(r) = high

-------------------------------------------------------------------------------
(* The arithmetic of the byte budget: what adding and removing one item does to *)
(* the bytes of a set of items.                                                 *)

\* reserve's clamp always yields a positive number of bytes that the budget
\* can hold.
LEMMA CostType == Cost \in [Items -> 1..Capacity]
  BY BudgetAssumption, SMT DEF Cost, Clamp

\* The bytes of any set of items are a finite set, and so have a natural
\* cardinality.
LEMMA ByteSetFinite ==
  ASSUME NEW S \in SUBSET Items
  PROVE  IsFiniteSet(ByteSet(S)) /\ Bytes(S) \in Nat
<1>1. ByteSet(S) \subseteq Items \X (1..Capacity)
  BY CostType, BudgetAssumption, SMTT(60) DEF ByteSet
<1>2. IsFiniteSet(1..Capacity)
  BY FS_Interval, BudgetAssumption, SMT
<1>3. IsFiniteSet(Items \X (1..Capacity))
  BY <1>2, FS_Product, BudgetAssumption
<1>4. IsFiniteSet(ByteSet(S))
  BY <1>1, <1>3, FS_Subset
<1>. QED
  BY <1>4, FS_CardinalityType DEF Bytes

\* No item, no byte.
LEMMA BytesEmpty == Bytes({}) = 0
  BY FS_EmptySet DEF Bytes, ByteSet

\* An item that is not in the set adds exactly its own cost.
LEMMA BytesAdd ==
  ASSUME NEW S \in SUBSET Items, NEW i \in Items, i \notin S
  PROVE  Bytes(S \union {i}) = Bytes(S) + Cost[i]
<1> DEFINE own == {i} \X (1..Cost[i])
<1>1. Cost[i] \in Nat \ {0}
  <2>1. Cost[i] \in 1..Capacity
    BY CostType
  <2>. QED
    BY <2>1, BudgetAssumption
<1>2. IsFiniteSet(1..Cost[i]) /\ Cardinality(1..Cost[i]) = Cost[i]
  <2>1. PICK n \in Nat \ {0} : n = Cost[i]
    BY <1>1
  <2>2. IsFiniteSet(1..n) /\ Cardinality(1..n) = (IF 1 > n THEN 0 ELSE n - 1 + 1)
    BY FS_Interval
  <2>. QED
    BY <2>1, <2>2
<1>3. IsFiniteSet({i}) /\ Cardinality({i}) = 1
  BY FS_Singleton
<1>4. IsFiniteSet(own) /\ Cardinality(own) = Cost[i]
  <2>1. IsFiniteSet(own) /\ Cardinality(own) = Cardinality({i}) * Cardinality(1..Cost[i])
    BY <1>2, <1>3, FS_Product
  <2>. QED
    BY <2>1, <1>1, <1>2, <1>3, SMT
<1>5. ByteSet(S \union {i}) = ByteSet(S) \union own
  BY DEF ByteSet
<1>6. ByteSet(S) \intersect own = {}
  BY DEF ByteSet
<1>7. IsFiniteSet(ByteSet(S)) /\ Bytes(S) \in Nat
  BY ByteSetFinite
<1>8. Cardinality(ByteSet(S) \union own)
        = Cardinality(ByteSet(S)) + Cardinality(own) - Cardinality({})
  BY <1>4, <1>6, <1>7, FS_Union
<1>9. Bytes(S \union {i}) = Bytes(S) + Cost[i] - 0
  BY <1>4, <1>5, <1>8, FS_EmptySet DEF Bytes
<1>. QED
  BY <1>1, <1>7, <1>9, SMT

\* Removing an item of the set gives back exactly its own cost.
LEMMA BytesRemove ==
  ASSUME NEW S \in SUBSET Items, NEW i \in S
  PROVE  Bytes(S \ {i}) = Bytes(S) - Cost[i]
<1>1. S \ {i} \in SUBSET Items /\ i \in Items /\ i \notin S \ {i}
  OBVIOUS
<1>2. Bytes((S \ {i}) \union {i}) = Bytes(S \ {i}) + Cost[i]
  BY <1>1, BytesAdd
<1>3. (S \ {i}) \union {i} = S
  OBVIOUS
<1>4. Bytes(S \ {i}) \in Nat /\ Cost[i] \in Nat
  BY <1>1, ByteSetFinite, CostType, BudgetAssumption, SMT
<1>5. Bytes(S) = Bytes(S \ {i}) + Cost[i]
  BY <1>2, <1>3
<1> DEFINE rest == Bytes(S \ {i})
<1> HIDE DEF rest
<1>6. Bytes(S) = rest + Cost[i] /\ rest \in Nat /\ Cost[i] \in Nat
  BY <1>4, <1>5 DEF rest
<1>7. rest = Bytes(S) - Cost[i]
  BY <1>6, SMT
<1>. QED
  BY <1>7 DEF rest

IInv == TypeOK /\ Owned /\ Balanced /\ Mutex /\ Wakeup /\ Marks
-------------------------------------------------------------------------------
\* Every reservation asks for at least one byte and at most the capacity.
LEMMA CostPositive ==
  /\ Capacity \in Nat \ {0}
  /\ \A i \in Items : Cost[i] \in Nat /\ 1 <= Cost[i] /\ Cost[i] <= Capacity
  BY CostType, BudgetAssumption, SMT

\* A step that takes no item in or out leaves the account alone.
LEMMA SameOutstanding ==
  ASSUME Outstanding' = Outstanding
  PROVE  Bytes(Outstanding)' = Bytes(Outstanding)
  BY DEF Bytes, ByteSet, Cost, Clamp

\* A reservation adds its item's cost to the account, a release takes it out.
LEMMA ItemIn ==
  ASSUME NEW i \in Items, i \notin Outstanding,
         Outstanding' = Outstanding \union {i}
  PROVE  Bytes(Outstanding)' = Bytes(Outstanding) + Cost[i]
<1>1. Bytes(Outstanding \union {i}) = Bytes(Outstanding) + Cost[i]
  BY BytesAdd DEF Outstanding
<1>2. Bytes(Outstanding)' = Bytes(Outstanding')
  BY DEF Bytes, ByteSet, Cost, Clamp
<1>. QED
  BY <1>1, <1>2

LEMMA ItemOut ==
  ASSUME NEW i \in Outstanding, Outstanding' = Outstanding \ {i}
  PROVE  Bytes(Outstanding)' = Bytes(Outstanding) - Cost[i]
<1>1. Bytes(Outstanding \ {i}) = Bytes(Outstanding) - Cost[i]
  BY BytesRemove DEF Outstanding
<1>2. Bytes(Outstanding)' = Bytes(Outstanding')
  BY DEF Bytes, ByteSet, Cost, Clamp
<1>. QED
  BY <1>1, <1>2

\* The initial state satisfies the inductive invariant.
LEMMA InitIInv == Init => IInv
<1> SUFFICES ASSUME Init PROVE IInv
  OBVIOUS
<1> USE DEF Init
<1>1. TypeOK
  BY DEF TypeOK, ReserverPCs, ReleaserPCs
<1>2. Owned
  BY ThreadAssumption DEF Owned
<1>3. Balanced
  <2>1. Outstanding = {}
    BY DEF Outstanding
  <2>. QED
    BY <2>1, BytesEmpty, CostPositive DEF Balanced
<1>4. Mutex
  BY ThreadAssumption DEF Mutex
<1>5. Wakeup
  BY DEF Wakeup
<1>6. Marks
  BY CostPositive DEF Marks
<1>. QED
  BY <1>1, <1>2, <1>3, <1>4, <1>5, <1>6 DEF IInv

\* Types, one action at a time.
LEMMA NextTypeOK == IInv /\ [Next]_vars => TypeOK'
<1> SUFFICES ASSUME IInv, [Next]_vars PROVE TypeOK'
  OBVIOUS
<1> USE CostPositive DEF IInv, TypeOK, ReserverPCs, ReleaserPCs, Asking
<1>1. ASSUME NEW r \in Reservers, NEW i \in Items, BeginReserve(r, i) PROVE TypeOK'
  BY <1>1 DEF BeginReserve
<1>2. ASSUME NEW r \in Reservers, Load(r) PROVE TypeOK'
  BY <1>2 DEF Load
<1>3. ASSUME NEW r \in Reservers, CompareExchange(r) PROVE TypeOK'
  <2>1. want[r] \in Items
    BY <1>3, ThreadAssumption DEF Owned, CompareExchange
  <2>. QED
    BY <1>3, <2>1 DEF CompareExchange
<1>4. ASSUME NEW r \in Reservers, CompareExchangeRace(r) PROVE TypeOK'
  BY <1>4 DEF CompareExchangeRace
<1>5. ASSUME NEW r \in Reservers, PublishPeak(r) PROVE TypeOK'
  <2>1. want[r] \in Items
    BY <1>5, ThreadAssumption DEF Owned, PublishPeak
  <2>. QED
    BY <1>5, <2>1 DEF PublishPeak
<1>6. ASSUME NEW r \in Reservers, LockGate(r) PROVE TypeOK'
  BY <1>6 DEF LockGate
<1>7. ASSUME NEW r \in Reservers, Recheck(r) PROVE TypeOK'
  BY <1>7 DEF Recheck
<1>8. ASSUME NEW r \in Reservers, Park(r) PROVE TypeOK'
  BY <1>8 DEF Park
<1>9. ASSUME NEW r \in Reservers, SpuriousWake(r) PROVE TypeOK'
  BY <1>9 DEF SpuriousWake
<1>10. ASSUME NEW r \in Reservers, Resume(r) PROVE TypeOK'
  BY <1>10 DEF Resume
<1>11. ASSUME NEW l \in Releasers, NEW i \in Items, BeginRelease(l, i) PROVE TypeOK'
  BY <1>11 DEF BeginRelease
<1>12. ASSUME NEW l \in Releasers, Subtract(l) PROVE TypeOK'
  <2>1. giving[l] \in Items
    BY <1>12 DEF Owned, Subtract
  <2>2. giving[l] \in Outstanding
    BY <1>12, <2>1 DEF Subtract, Outstanding
  <2>3. Bytes(Outstanding \ {giving[l]}) = used - Cost[giving[l]]
    BY <2>2, BytesRemove DEF Balanced, Outstanding
  <2>4. Bytes(Outstanding \ {giving[l]}) \in Nat
    BY ByteSetFinite DEF Outstanding
  <2>. QED
    BY <1>12, <2>1, <2>3, <2>4 DEF Subtract
<1>13. ASSUME NEW l \in Releasers, NotifyAll(l) PROVE TypeOK'
  BY <1>13 DEF NotifyAll
<1>14. CASE UNCHANGED vars
  BY <1>14 DEF vars
<1>. QED
  BY <1>1, <1>2, <1>3, <1>4, <1>5, <1>6, <1>7, <1>8, <1>9, <1>10, <1>11, <1>12,
     <1>13, <1>14 DEF Next, ReserveStep, ReleaseStep

\* Every item stays in one hand: asked for, held, being released or released.
LEMMA NextOwned == IInv /\ [Next]_vars => Owned'
<1> SUFFICES ASSUME IInv, [Next]_vars PROVE Owned'
  OBVIOUS
<1> USE ThreadAssumption DEF IInv, TypeOK, ReserverPCs, ReleaserPCs, Owned
<1>1. ASSUME NEW r \in Reservers, NEW i \in Items, BeginReserve(r, i) PROVE Owned'
  <2>1. \A s \in Reservers : want[s] # i
    BY <1>1 DEF BeginReserve, WaitingFor, Outstanding, Asking
  <2>2. \A l \in Releasers : giving[l] # i
    BY <1>1 DEF BeginReserve, Outstanding
  <2>3. i \notin held \union released
    BY <1>1 DEF BeginReserve, Outstanding
  <2>. QED
    BY <1>1, <2>1, <2>2, <2>3 DEF BeginReserve
<1>2. ASSUME NEW r \in Reservers, Load(r) PROVE Owned'
  BY <1>2 DEF Load
<1>3. ASSUME NEW r \in Reservers, CompareExchange(r) PROVE Owned'
  BY <1>3 DEF CompareExchange
<1>4. ASSUME NEW r \in Reservers, CompareExchangeRace(r) PROVE Owned'
  BY <1>4 DEF CompareExchangeRace
<1>5. ASSUME NEW r \in Reservers, PublishPeak(r) PROVE Owned'
  BY <1>5 DEF PublishPeak
<1>6. ASSUME NEW r \in Reservers, LockGate(r) PROVE Owned'
  BY <1>6 DEF LockGate
<1>7. ASSUME NEW r \in Reservers, Recheck(r) PROVE Owned'
  BY <1>7 DEF Recheck
<1>8. ASSUME NEW r \in Reservers, Park(r) PROVE Owned'
  BY <1>8 DEF Park
<1>9. ASSUME NEW r \in Reservers, SpuriousWake(r) PROVE Owned'
  BY <1>9 DEF SpuriousWake
<1>10. ASSUME NEW r \in Reservers, Resume(r) PROVE Owned'
  BY <1>10 DEF Resume
<1>11. ASSUME NEW l \in Releasers, NEW i \in Items, BeginRelease(l, i) PROVE Owned'
  BY <1>11 DEF BeginRelease
<1>12. ASSUME NEW l \in Releasers, Subtract(l) PROVE Owned'
  BY <1>12 DEF Subtract
<1>13. ASSUME NEW l \in Releasers, NotifyAll(l) PROVE Owned'
  BY <1>13 DEF NotifyAll
<1>14. CASE UNCHANGED vars
  BY <1>14 DEF vars
<1>. QED
  BY <1>1, <1>2, <1>3, <1>4, <1>5, <1>6, <1>7, <1>8, <1>9, <1>10, <1>11, <1>12,
     <1>13, <1>14 DEF Next, ReserveStep, ReleaseStep

\* The gate is held exactly between LockGate and the end of its scope.
LEMMA NextMutex == IInv /\ [Next]_vars => Mutex'
<1> SUFFICES ASSUME IInv, [Next]_vars PROVE Mutex'
  OBVIOUS
<1> USE ThreadAssumption DEF IInv, TypeOK, ReserverPCs, ReleaserPCs, Mutex
<1>1. ASSUME NEW r \in Reservers, NEW i \in Items, BeginReserve(r, i) PROVE Mutex'
  BY <1>1 DEF BeginReserve
<1>2. ASSUME NEW r \in Reservers, Load(r) PROVE Mutex'
  BY <1>2 DEF Load
<1>3. ASSUME NEW r \in Reservers, CompareExchange(r) PROVE Mutex'
  BY <1>3 DEF CompareExchange
<1>4. ASSUME NEW r \in Reservers, CompareExchangeRace(r) PROVE Mutex'
  BY <1>4 DEF CompareExchangeRace
<1>5. ASSUME NEW r \in Reservers, PublishPeak(r) PROVE Mutex'
  BY <1>5 DEF PublishPeak
<1>6. ASSUME NEW r \in Reservers, LockGate(r) PROVE Mutex'
  BY <1>6 DEF LockGate
<1>7. ASSUME NEW r \in Reservers, Recheck(r) PROVE Mutex'
  BY <1>7 DEF Recheck
<1>8. ASSUME NEW r \in Reservers, Park(r) PROVE Mutex'
  BY <1>8 DEF Park
<1>9. ASSUME NEW r \in Reservers, SpuriousWake(r) PROVE Mutex'
  BY <1>9 DEF SpuriousWake
<1>10. ASSUME NEW r \in Reservers, Resume(r) PROVE Mutex'
  BY <1>10 DEF Resume
<1>11. ASSUME NEW l \in Releasers, NEW i \in Items, BeginRelease(l, i) PROVE Mutex'
  BY <1>11 DEF BeginRelease
<1>12. ASSUME NEW l \in Releasers, Subtract(l) PROVE Mutex'
  BY <1>12 DEF Subtract
<1>13. ASSUME NEW l \in Releasers, NotifyAll(l) PROVE Mutex'
  BY <1>13 DEF NotifyAll
<1>14. CASE UNCHANGED vars
  BY <1>14 DEF vars
<1>. QED
  BY <1>1, <1>2, <1>3, <1>4, <1>5, <1>6, <1>7, <1>8, <1>9, <1>10, <1>11, <1>12,
     <1>13, <1>14 DEF Next, ReserveStep, ReleaseStep

\* Whoever is past its re-check sleeps with cause, or a notification is due.
\* Recheck establishes it, Subtract owes the notification that keeps it, and
\* NotifyAll cannot run between the re-check and the wait.
LEMMA NextWakeup == IInv /\ [Next]_vars => Wakeup'
<1> SUFFICES ASSUME IInv, [Next]_vars PROVE Wakeup'
  OBVIOUS
<1> USE CostPositive, ThreadAssumption DEF IInv, TypeOK, ReserverPCs, ReleaserPCs, Mutex, Owned, Wakeup, Fits
<1>1. ASSUME NEW r \in Reservers, NEW i \in Items, BeginReserve(r, i) PROVE Wakeup'
  BY <1>1 DEF BeginReserve
<1>2. ASSUME NEW r \in Reservers, Load(r) PROVE Wakeup'
  BY <1>2 DEF Load
<1>3. ASSUME NEW r \in Reservers, CompareExchange(r) PROVE Wakeup'
  BY <1>3 DEF CompareExchange
<1>4. ASSUME NEW r \in Reservers, CompareExchangeRace(r) PROVE Wakeup'
  BY <1>4 DEF CompareExchangeRace
<1>5. ASSUME NEW r \in Reservers, PublishPeak(r) PROVE Wakeup'
  BY <1>5 DEF PublishPeak
<1>6. ASSUME NEW r \in Reservers, LockGate(r) PROVE Wakeup'
  BY <1>6 DEF LockGate
<1>7. ASSUME NEW r \in Reservers, Recheck(r) PROVE Wakeup'
  BY <1>7 DEF Recheck
<1>8. ASSUME NEW r \in Reservers, Park(r) PROVE Wakeup'
  BY <1>8 DEF Park
<1>9. ASSUME NEW r \in Reservers, SpuriousWake(r) PROVE Wakeup'
  BY <1>9 DEF SpuriousWake
<1>10. ASSUME NEW r \in Reservers, Resume(r) PROVE Wakeup'
  BY <1>10 DEF Resume
<1>11. ASSUME NEW l \in Releasers, NEW i \in Items, BeginRelease(l, i) PROVE Wakeup'
  BY <1>11 DEF BeginRelease
<1>12. ASSUME NEW l \in Releasers, Subtract(l) PROVE Wakeup'
  BY <1>12 DEF Subtract
<1>13. ASSUME NEW l \in Releasers, NotifyAll(l) PROVE Wakeup'
  BY <1>13 DEF NotifyAll
<1>14. CASE UNCHANGED vars
  BY <1>14 DEF vars
<1>. QED
  BY <1>1, <1>2, <1>3, <1>4, <1>5, <1>6, <1>7, <1>8, <1>9, <1>10, <1>11, <1>12,
     <1>13, <1>14 DEF Next, ReserveStep, ReleaseStep

\* The atomic stays the bytes of the outstanding items, and under the capacity.
LEMMA NextBalanced == IInv /\ [Next]_vars => Balanced'
<1> SUFFICES ASSUME IInv, [Next]_vars PROVE Balanced'
  OBVIOUS
<1> USE CostPositive, ThreadAssumption DEF IInv, TypeOK, ReserverPCs, ReleaserPCs, Owned, Balanced, Fits
<1>1. ASSUME NEW r \in Reservers, NEW i \in Items, BeginReserve(r, i) PROVE Balanced'
  <2>1. Outstanding' = Outstanding
    BY <1>1 DEF BeginReserve, Outstanding
  <2>2. Bytes(Outstanding)' = used
    BY <2>1, SameOutstanding
  <2>. QED
    BY <1>1, <2>2 DEF BeginReserve
<1>2. ASSUME NEW r \in Reservers, Load(r) PROVE Balanced'
  <2>1. Outstanding' = Outstanding
    BY <1>2 DEF Load, Outstanding
  <2>2. Bytes(Outstanding)' = used
    BY <2>1, SameOutstanding
  <2>. QED
    BY <1>2, <2>2 DEF Load
<1>3. ASSUME NEW r \in Reservers, CompareExchange(r) PROVE Balanced'
  <2>1. want[r] \in Items /\ want[r] \notin Outstanding
    BY <1>3 DEF CompareExchange, Outstanding
  <2>2. Outstanding' = Outstanding \union {want[r]}
    BY <1>3, <2>1 DEF CompareExchange, Outstanding
  <2>3. Bytes(Outstanding)' = used + Cost[want[r]]
    BY <2>1, <2>2, ItemIn
  <2>. QED
    BY <1>3, <2>1, <2>3 DEF CompareExchange
<1>4. ASSUME NEW r \in Reservers, CompareExchangeRace(r) PROVE Balanced'
  <2>1. Outstanding' = Outstanding
    BY <1>4 DEF CompareExchangeRace, Outstanding
  <2>2. Bytes(Outstanding)' = used
    BY <2>1, SameOutstanding
  <2>. QED
    BY <1>4, <2>2 DEF CompareExchangeRace
<1>5. ASSUME NEW r \in Reservers, PublishPeak(r) PROVE Balanced'
  <2>1. Outstanding' = Outstanding
    BY <1>5 DEF PublishPeak, Outstanding
  <2>2. Bytes(Outstanding)' = used
    BY <2>1, SameOutstanding
  <2>. QED
    BY <1>5, <2>2 DEF PublishPeak
<1>6. ASSUME NEW r \in Reservers, LockGate(r) PROVE Balanced'
  <2>1. Outstanding' = Outstanding
    BY <1>6 DEF LockGate, Outstanding
  <2>2. Bytes(Outstanding)' = used
    BY <2>1, SameOutstanding
  <2>. QED
    BY <1>6, <2>2 DEF LockGate
<1>7. ASSUME NEW r \in Reservers, Recheck(r) PROVE Balanced'
  <2>1. Outstanding' = Outstanding
    BY <1>7 DEF Recheck, Outstanding
  <2>2. Bytes(Outstanding)' = used
    BY <2>1, SameOutstanding
  <2>. QED
    BY <1>7, <2>2 DEF Recheck
<1>8. ASSUME NEW r \in Reservers, Park(r) PROVE Balanced'
  <2>1. Outstanding' = Outstanding
    BY <1>8 DEF Park, Outstanding
  <2>2. Bytes(Outstanding)' = used
    BY <2>1, SameOutstanding
  <2>. QED
    BY <1>8, <2>2 DEF Park
<1>9. ASSUME NEW r \in Reservers, SpuriousWake(r) PROVE Balanced'
  <2>1. Outstanding' = Outstanding
    BY <1>9 DEF SpuriousWake, Outstanding
  <2>2. Bytes(Outstanding)' = used
    BY <2>1, SameOutstanding
  <2>. QED
    BY <1>9, <2>2 DEF SpuriousWake
<1>10. ASSUME NEW r \in Reservers, Resume(r) PROVE Balanced'
  <2>1. Outstanding' = Outstanding
    BY <1>10 DEF Resume, Outstanding
  <2>2. Bytes(Outstanding)' = used
    BY <2>1, SameOutstanding
  <2>. QED
    BY <1>10, <2>2 DEF Resume
<1>11. ASSUME NEW l \in Releasers, NEW i \in Items, BeginRelease(l, i) PROVE Balanced'
  <2>1. Outstanding' = Outstanding
    BY <1>11 DEF BeginRelease, Outstanding
  <2>2. Bytes(Outstanding)' = used
    BY <2>1, SameOutstanding
  <2>. QED
    BY <1>11, <2>2 DEF BeginRelease
<1>12. ASSUME NEW l \in Releasers, Subtract(l) PROVE Balanced'
  <2>1. giving[l] \in Items /\ giving[l] \in Outstanding
    BY <1>12 DEF Subtract, Outstanding
  <2>2. Outstanding' = Outstanding \ {giving[l]}
    BY <1>12, <2>1 DEF Subtract, Outstanding
  <2>3. Bytes(Outstanding)' = used - Cost[giving[l]]
    BY <2>1, <2>2, ItemOut
  <2>. QED
    BY <1>12, <2>1, <2>3 DEF Subtract
<1>13. ASSUME NEW l \in Releasers, NotifyAll(l) PROVE Balanced'
  <2>1. Outstanding' = Outstanding
    BY <1>13 DEF NotifyAll, Outstanding
  <2>2. Bytes(Outstanding)' = used
    BY <2>1, SameOutstanding
  <2>. QED
    BY <1>13, <2>2 DEF NotifyAll
<1>14. CASE UNCHANGED vars
  BY <1>14 DEF vars, Outstanding, Bytes, ByteSet, Cost, Clamp
<1>. QED
  BY <1>1, <1>2, <1>3, <1>4, <1>5, <1>6, <1>7, <1>8, <1>9, <1>10, <1>11, <1>12,
     <1>13, <1>14 DEF Next, ReserveStep, ReleaseStep

\* The largest value used ever had is published or about to be.
LEMMA NextMarks == IInv /\ [Next]_vars => Marks'
<1> SUFFICES ASSUME IInv, [Next]_vars PROVE Marks'
  OBVIOUS
<1> USE CostPositive, ThreadAssumption DEF IInv, TypeOK, ReserverPCs, ReleaserPCs, Owned, Balanced, Fits, Marks, Mark
<1>1. ASSUME NEW r \in Reservers, NEW i \in Items, BeginReserve(r, i) PROVE Marks'
  BY <1>1 DEF BeginReserve
<1>2. ASSUME NEW r \in Reservers, Load(r) PROVE Marks'
  BY <1>2 DEF Load
<1>3. ASSUME NEW r \in Reservers, CompareExchange(r) PROVE Marks'
  BY <1>3 DEF CompareExchange
<1>4. ASSUME NEW r \in Reservers, CompareExchangeRace(r) PROVE Marks'
  BY <1>4 DEF CompareExchangeRace
<1>5. ASSUME NEW r \in Reservers, PublishPeak(r) PROVE Marks'
  BY <1>5 DEF PublishPeak
<1>6. ASSUME NEW r \in Reservers, LockGate(r) PROVE Marks'
  BY <1>6 DEF LockGate
<1>7. ASSUME NEW r \in Reservers, Recheck(r) PROVE Marks'
  BY <1>7 DEF Recheck
<1>8. ASSUME NEW r \in Reservers, Park(r) PROVE Marks'
  BY <1>8 DEF Park
<1>9. ASSUME NEW r \in Reservers, SpuriousWake(r) PROVE Marks'
  BY <1>9 DEF SpuriousWake
<1>10. ASSUME NEW r \in Reservers, Resume(r) PROVE Marks'
  BY <1>10 DEF Resume
<1>11. ASSUME NEW l \in Releasers, NEW i \in Items, BeginRelease(l, i) PROVE Marks'
  BY <1>11 DEF BeginRelease
<1>12. ASSUME NEW l \in Releasers, Subtract(l) PROVE Marks'
  BY <1>12 DEF Subtract
<1>13. ASSUME NEW l \in Releasers, NotifyAll(l) PROVE Marks'
  BY <1>13 DEF NotifyAll
<1>14. CASE UNCHANGED vars
  BY <1>14 DEF vars
<1>. QED
  BY <1>1, <1>2, <1>3, <1>4, <1>5, <1>6, <1>7, <1>8, <1>9, <1>10, <1>11, <1>12,
     <1>13, <1>14 DEF Next, ReserveStep, ReleaseStep

-------------------------------------------------------------------------------
\* IInv holds in every reachable state: each step of each thread preserves it.
THEOREM BudgetInductive == Spec => []IInv
<1>1. Init => IInv
  BY InitIInv
<1>2. IInv /\ [Next]_vars => IInv'
  BY NextTypeOK, NextOwned, NextMutex, NextWakeup, NextBalanced, NextMarks DEF IInv
<1>. QED
  BY <1>1, <1>2, PTL DEF Spec

\* Type correctness of the budget's threads.
THEOREM BudgetTypes == Spec => []TypeOK
<1>1. IInv => TypeOK
  BY DEF IInv
<1>. QED
  BY <1>1, BudgetInductive, PTL

\* reserve and release keep the accounts: the atomic is always the bytes of the
\* outstanding items and never exceeds the budget, for any number of threads.
THEOREM BudgetBalances == Spec => []AccountsBalance
<1>1. IInv => AccountsBalance
  BY DEF IInv, Balanced, AccountsBalance
<1>. QED
  BY <1>1, BudgetInductive, PTL

\* The re-check under the mutex and the notification after the subtraction lose
\* no wakeup.
THEOREM BudgetNoLostWakeup == Spec => []NoLostWakeup
<1>1. IInv => NoLostWakeup
  BY DEF IInv, Wakeup, NoLostWakeup
<1>. QED
  BY <1>1, BudgetInductive, PTL

\* The reported peak is bounded by the budget and is the true high-water mark
\* whenever no reservation is still publishing.
THEOREM BudgetPeak == Spec => []PeakIsHighWater
<1>1. IInv => PeakIsHighWater
  <2> SUFFICES ASSUME IInv PROVE PeakIsHighWater
    OBVIOUS
  <2>1. peak <= Capacity
    BY CostPositive DEF IInv, TypeOK, Marks
  <2>2. (\A r \in Reservers : rpc[r] # "peak") => peak = high
    BY DEF IInv, TypeOK, Marks
  <2>. QED
    BY <2>1, <2>2 DEF PeakIsHighWater
<1>. QED
  BY <1>1, BudgetInductive, PTL

\* Every step of the budget's threads is a step of the semaphore its callers
\* rely on, or leaves the semaphore alone: BeginReserve asks, the winning
\* compare-exchange acquires, the subtraction releases.
THEOREM BudgetImplementsContract ==
  Spec => Contract!Init /\ [][Contract!Next]_(Contract!vars)
<1>1. Init => Contract!Init
  BY DEF Init, Contract!Init, WaitingFor, Outstanding, Asking
<1>2. IInv /\ [Next]_vars => [Contract!Next]_(Contract!vars)
  <2> SUFFICES ASSUME IInv, [Next]_vars PROVE [Contract!Next]_(Contract!vars)
    OBVIOUS
  <2> USE ThreadAssumption DEF IInv, TypeOK, ReserverPCs, ReleaserPCs, Owned
  <2>1. ASSUME NEW r \in Reservers, NEW i \in Items, BeginReserve(r, i)
        PROVE  Contract!Ask(i)
    BY <2>1 DEF BeginReserve, Contract!Ask, WaitingFor, Outstanding, Asking
  <2>2. ASSUME NEW r \in Reservers, CompareExchange(r)
        PROVE  want[r] \in Items /\ Contract!Acquire(want[r])
    <3>1. want[r] \in Items /\ want[r] \in WaitingFor
      BY <2>2 DEF CompareExchange, WaitingFor, Outstanding, Asking
    <3>2. WaitingFor' = WaitingFor \ {want[r]}
      BY <2>2, <3>1 DEF CompareExchange, WaitingFor, Outstanding, Asking
    <3>3. Outstanding' = Outstanding \union {want[r]}
      BY <2>2, <3>1 DEF CompareExchange, WaitingFor, Outstanding, Asking
    <3>4. Bytes(Outstanding) + Cost[want[r]] <= Capacity
      BY <2>2 DEF CompareExchange, Balanced, Fits
    <3>5. Contract!Bytes(Outstanding) = Bytes(Outstanding) /\ Contract!Cost = Cost
      BY DEF Contract!Bytes, Contract!ByteSet, Contract!Cost, Contract!Clamp,
         Contract!Cardinality, Bytes, ByteSet, Cost, Clamp, Cardinality
    <3>6. released' = released
      BY <2>2 DEF CompareExchange
    <3>. QED
      BY <3>1, <3>2, <3>3, <3>4, <3>5, <3>6 DEF Contract!Acquire
  <2>3. ASSUME NEW l \in Releasers, Subtract(l)
        PROVE  giving[l] \in Items /\ Contract!Release(giving[l])
    <3>1. giving[l] \in Items /\ giving[l] \in Outstanding
      BY <2>3 DEF Subtract, WaitingFor, Outstanding
    <3>2. Outstanding' = Outstanding \ {giving[l]}
      BY <2>3, <3>1 DEF Subtract, Outstanding
    <3>3. WaitingFor' = WaitingFor
      BY <2>3 DEF Subtract, WaitingFor, Outstanding
    <3>. QED
      BY <2>3, <3>1, <3>2, <3>3 DEF Subtract, Contract!Release
  <2>4. ASSUME NEW r \in Reservers,
               \/ Load(r) \/ CompareExchangeRace(r) \/ PublishPeak(r) \/ LockGate(r)
               \/ Recheck(r) \/ Park(r) \/ SpuriousWake(r) \/ Resume(r)
        PROVE  UNCHANGED Contract!vars
    BY <2>4 DEF Load, CompareExchangeRace, PublishPeak, LockGate, Recheck, Park,
       SpuriousWake, Resume, WaitingFor, Outstanding, Asking, Contract!vars
  <2>5. ASSUME NEW l \in Releasers, NEW i \in Items, BeginRelease(l, i)
        PROVE  UNCHANGED Contract!vars
    BY <2>5 DEF BeginRelease, WaitingFor, Outstanding, Contract!vars
  <2>6. ASSUME NEW l \in Releasers, NotifyAll(l)
        PROVE  UNCHANGED Contract!vars
    BY <2>6 DEF NotifyAll, WaitingFor, Outstanding, Asking, Contract!vars
  <2>7. CASE UNCHANGED vars
    BY <2>7 DEF vars, WaitingFor, Outstanding, Contract!vars
  <2>. QED
    BY <2>1, <2>2, <2>3, <2>4, <2>5, <2>6, <2>7
       DEF Next, ReserveStep, ReleaseStep, Contract!Next
<1>. QED
  BY <1>1, <1>2, BudgetInductive, PTL DEF Spec
===============================================================================
