-------------------------- MODULE StreamPipelineProofs --------------------------
(***************************************************************************)
(* The streaming ingest, for any number of entries, workers, committers,   *)
(* any channel and budget capacities, and any errors and panics of work.   *)
(*                                                                         *)
(* The invariant follows an entry from thread to thread: who has it        *)
(* (Admits, Holds, Alone, Held, Drains) and whose bytes are in the budget  *)
(* (Budget).  A shard has spliced the entries before the one it expects    *)
(* (Splices, Logs), and one that is not being drained has nothing left to  *)
(* splice (Drained).  Threads end in order: workers, committers, absorber  *)
(* (Exits, Closes, Ends); so when the absorber ends without an error or a  *)
(* panic no entry is anywhere but in a shard (AllArrived), and the merged  *)
(* graph, an enumeration of what the merged shards committed (Graphs), is  *)
(* the one enumeration there is (OrderUnique): that of the batch path.     *)
(***************************************************************************)
EXTENDS StreamPipeline, FiniteSetTheorems, SequenceTheorems, TLAPS

\* The first entry of a shard, its entries, the entries of the first k shards.
First(s) == s * ShardSize
Entry(s) == {e \in Entries : ShardOf(e) = s}
Below(k) == {e \in Entries : ShardOf(e) < k}

\* The entries of a set that reached the graph's side with something to apply.
Kept(S) == {e \in S : at[e] = "committed" /\ kind[e] = "applied"}

\* A panic lost an entry; a shard has spliced its last entry.
Lost == \E e \in Entries : at[e] = "lost"
Whole(s) == expected[s] = ShardEnd(s)

\* A sequence has the elements of a set of entries, each once, in order.
Enumerates(q, S) ==
  /\ q \in Seq(S)
  /\ \A e \in S : \E i \in 1..Len(q) : q[i] = e
  /\ \A i, j \in 1..Len(q) : i < j => q[i] < q[j]

\* Admission: entries before the next have been sent, those after it are untouched.
Admits ==
  /\ admission \in {"reserve", "send"} => nextEntry < N
  /\ \A e \in Entries : /\ e < nextEntry => at[e] \notin {"listed", "reserved"}
                        /\ e > nextEntry => at[e] = "listed"
  /\ nextEntry < N => /\ at[nextEntry] \in {"listed", "reserved"}
                      /\ admission \in {"check", "reserve"} => at[nextEntry] = "listed"
                      /\ admission = "send" => at[nextEntry] = "reserved"

Stops ==
  /\ admission = "drain" => nextEntry = N \/ abort \/ Lost
  /\ abort => firstError # Idle

\* Workers and their entries.
Kinds ==
  \A e \in Entries : kind[e] = "none" <=> at[e] \notin {"shipping", "slot", "pending", "committed"}

Holds ==
  \A w \in Workers :
    /\ working[w] = Idle <=> worker[w] \in {"recv", "exited"}
    /\ worker[w] \in {"start", "work"} => at[working[w]] = "taken"
    /\ worker[w] = "ship" => at[working[w]] = "shipping"
    /\ worker[w] = "fail" => at[working[w]] = "failed"

Exits ==
  \A w \in Workers : worker[w] = "exited" => Lost \/ (admission = "drain" /\ Queued = {})

Alone ==
  \A v, w \in Workers : v # w /\ working[v] # Idle => working[v] # working[w]

Held ==
  \A e \in Entries :
    /\ at[e] \in {"taken", "shipping"} => \E w \in Workers : working[w] = e
    /\ at[e] = "failed" => firstError # Idle \/ \E w \in Workers : working[w] = e
    /\ at[e] = "dropped" => abort

\* Committers and their shards.
Drains ==
  \A c \in CommitterIds :
    draining[c] # Idle =>
      /\ CommitterOf(draining[c]) = c
      /\ committer[c] = "recv"
      /\ shardAt[draining[c]] = "open"

Closes ==
  \A c \in CommitterIds : committer[c] = "exited" => SlotsOf(c) = {} /\ AllWorkersExited

Splices ==
  \A s \in Shards :
    /\ First(s) <= expected[s] /\ expected[s] <= ShardEnd(s)
    /\ \A e \in Entry(s) : e < expected[s] <=> at[e] = "committed"

Drained ==
  \A s \in Shards :
    draining[CommitterOf(s)] # s => ~NextInShard(s) /\ (Whole(s) => shardAt[s] # "open")

Logs == \A s \in Shards : Enumerates(shardLog[s], Kept(Entry(s)))

\* The absorber and the return.
Merges ==
  \A s \in Shards :
    /\ shardAt[s] = "merged" <=> s < nextAbsorb
    /\ shardAt[s] \in {"done", "held"} => Whole(s)
    /\ shardAt[s] = "merged" => Whole(s) \/ (absorber = "exited" /\ Lost)

Ends ==
  /\ absorber = "exited" => AllCommittersExited /\ admission = "drain"
  /\ absorber = "exited" /\ firstError = Idle => Lost \/ nextAbsorb = NumShards

Graphs == Enumerates(graph, Kept({e \in Entries : ShardOf(e) < nextAbsorb}))

Returns ==
  /\ result # "none" => absorber = "exited"
  /\ result = "ok" => firstError = Idle /\ nextAbsorb = NumShards

\* The budget.
Budget == used = Bytes(InFlight) /\ used <= Capacity

\* The inductive invariant.
PipeInv ==
  /\ TypeOK /\ Admits /\ Stops /\ Kinds /\ Holds /\ Exits /\ Alone /\ Held /\ Drains /\ Closes
  /\ Splices /\ Drained /\ Logs /\ Merges /\ Ends /\ Graphs /\ Returns /\ Budget

\* No entry is committed by this step.
SameCommits ==
  \A d \in Entries : /\ at'[d] = "committed" <=> at[d] = "committed"
                     /\ at'[d] = "pending" => at[d] = "pending" \/ at[d] = "slot"
                     /\ at[d] = "committed" => kind'[d] = kind[d]

\* Committer c splices entry e into shard s.
Splicing(c, s, e) ==
  /\ s = draining[c] /\ s \in Shards /\ e = expected[s] /\ e \in Entries /\ ShardOf(e) = s
  /\ at[e] = "pending" /\ e + 1 <= ShardEnd(s)
  /\ \A d \in Entries : at'[d] = IF d = e THEN "committed" ELSE at[d]
  /\ \A t \in Shards : expected'[t] = IF t = s THEN e + 1 ELSE expected[t]
  /\ \A t \in Shards : shardLog'[t] =
       IF t = s /\ kind[e] = "applied" THEN Append(shardLog[s], e) ELSE shardLog[t]
  /\ UNCHANGED <<kind, shardAt, draining, committer, absorberVars, result, workerVars,
                 admissionVars, errorVars>>
  /\ c = CommitterOf(s) /\ shardAt[s] = "open"

USE DEF admissionVars, workerVars, errorVars, committerVars, absorberVars

-------------------------------------------------------------------------------
(* The arithmetic of the byte budget, as in ByteBudgetProofs. *)

\* reserve's clamp always yields a positive number of bytes that the budget
\* can hold.
LEMMA CostType == Cost \in [Items -> 1..Capacity]
  BY BudgetAssumption, SMT DEF Cost, Clamp

\* The bytes of any set of items are a finite set, and so have a natural
\* cardinality.
LEMMA ByteSetFinite ==
  ASSUME NEW S \in SUBSET Items
  PROVE  IsFiniteSet(ByteSet(S)) /\ Bytes(S) \in Nat
<1>1. ByteSet(S) \subseteq Items \X (1..Capacity)
  BY CostType, BudgetAssumption, SMTT(60) DEF ByteSet
<1>2. IsFiniteSet(1..Capacity)
  BY FS_Interval, BudgetAssumption, SMT
<1>3. IsFiniteSet(Items \X (1..Capacity))
  BY <1>2, FS_Product, BudgetAssumption
<1>4. IsFiniteSet(ByteSet(S))
  BY <1>1, <1>3, FS_Subset
<1>. QED
  BY <1>4, FS_CardinalityType DEF Bytes

\* No item, no byte.
LEMMA BytesEmpty == Bytes({}) = 0
  BY FS_EmptySet DEF Bytes, ByteSet

\* An item that is not in the set adds exactly its own cost.
LEMMA BytesAdd ==
  ASSUME NEW S \in SUBSET Items, NEW i \in Items, i \notin S
  PROVE  Bytes(S \union {i}) = Bytes(S) + Cost[i]
<1> DEFINE own == {i} \X (1..Cost[i])
<1>1. Cost[i] \in Nat \ {0}
  <2>1. Cost[i] \in 1..Capacity
    BY CostType
  <2>. QED
    BY <2>1, BudgetAssumption
<1>2. IsFiniteSet(1..Cost[i]) /\ Cardinality(1..Cost[i]) = Cost[i]
  <2>1. PICK n \in Nat \ {0} : n = Cost[i]
    BY <1>1
  <2>2. IsFiniteSet(1..n) /\ Cardinality(1..n) = (IF 1 > n THEN 0 ELSE n - 1 + 1)
    BY FS_Interval
  <2>. QED
    BY <2>1, <2>2
<1>3. IsFiniteSet({i}) /\ Cardinality({i}) = 1
  BY FS_Singleton
<1>4. IsFiniteSet(own) /\ Cardinality(own) = Cost[i]
  <2>1. IsFiniteSet(own) /\ Cardinality(own) = Cardinality({i}) * Cardinality(1..Cost[i])
    BY <1>2, <1>3, FS_Product
  <2>. QED
    BY <2>1, <1>1, <1>2, <1>3, SMT
<1>5. ByteSet(S \union {i}) = ByteSet(S) \union own
  BY DEF ByteSet
<1>6. ByteSet(S) \intersect own = {}
  BY DEF ByteSet
<1>7. IsFiniteSet(ByteSet(S)) /\ Bytes(S) \in Nat
  BY ByteSetFinite
<1>8. Cardinality(ByteSet(S) \union own)
        = Cardinality(ByteSet(S)) + Cardinality(own) - Cardinality({})
  BY <1>4, <1>6, <1>7, FS_Union
<1>9. Bytes(S \union {i}) = Bytes(S) + Cost[i] - 0
  BY <1>4, <1>5, <1>8, FS_EmptySet DEF Bytes
<1>. QED
  BY <1>1, <1>7, <1>9, SMT

\* Removing an item of the set gives back exactly its own cost.
LEMMA BytesRemove ==
  ASSUME NEW S \in SUBSET Items, NEW i \in S
  PROVE  Bytes(S \ {i}) = Bytes(S) - Cost[i]
<1>1. S \ {i} \in SUBSET Items /\ i \in Items /\ i \notin S \ {i}
  OBVIOUS
<1>2. Bytes((S \ {i}) \union {i}) = Bytes(S \ {i}) + Cost[i]
  BY <1>1, BytesAdd
<1>3. (S \ {i}) \union {i} = S
  OBVIOUS
<1>4. Bytes(S \ {i}) \in Nat /\ Cost[i] \in Nat
  BY <1>1, ByteSetFinite, CostType, BudgetAssumption, SMT
<1>5. Bytes(S) = Bytes(S \ {i}) + Cost[i]
  BY <1>2, <1>3
<1> DEFINE rest == Bytes(S \ {i})
<1> HIDE DEF rest
<1>6. Bytes(S) = rest + Cost[i] /\ rest \in Nat /\ Cost[i] \in Nat
  BY <1>4, <1>5 DEF rest
<1>7. rest = Bytes(S) - Cost[i]
  BY <1>6, SMT
<1>. QED
  BY <1>7 DEF rest

-------------------------------------------------------------------------------
(* Shards are runs of entries. *)

\* Division by a positive number.
LEMMA Quotient ==
  ASSUME NEW a \in Nat, NEW k \in Nat \ {0}
  PROVE  /\ a \div k \in Nat
         /\ (a \div k) * k <= a
         /\ a < (a \div k) * k + k
  BY SMT

\* Multiplying keeps the order.
LEMMA Scales ==
  ASSUME NEW a \in Int, NEW b \in Int, NEW k \in Nat \ {0}, a <= b
  PROVE  a * k \in Int /\ b * k \in Int /\ a * k <= b * k
  BY SMT

LEMMA Distributes ==
  ASSUME NEW a \in Int, NEW k \in Int
  PROVE  (a + 1) * k = a * k + k
  BY SMT

\* What the assumption says of sizes.
LEMMA Sizes == 
  /\ N \in Nat /\ ShardSize \in Nat \ {0} /\ ShardSize < N
  /\ Entries \subseteq Nat /\ IsFiniteSet(Entries)
  /\ NumShards \in Nat /\ Shards \subseteq Nat
<1>1. N \in Nat /\ ShardSize \in Nat \ {0} /\ ShardSize < N
  BY PipelineAssumption
<1>2. NumShards \in Nat
  BY <1>1, Quotient, N + ShardSize - 1 \in Nat, SMT DEF NumShards
<1>. QED
  BY <1>1, <1>2, FS_Interval DEF Entries, Shards

\* A shard is a nonempty run of entries, and runs follow each other.
LEMMA ShardRange ==
  ASSUME NEW s \in Shards
  PROVE  /\ First(s) \in Nat /\ ShardEnd(s) \in Nat
         /\ First(s) < ShardEnd(s) /\ ShardEnd(s) <= N
         /\ ShardEnd(s) <= First(s + 1)
         /\ ShardEnd(s) < N => ShardEnd(s) = First(s + 1)
<1> DEFINE m == NumShards
<1>1. N \in Nat /\ ShardSize \in Nat \ {0} /\ m \in Nat /\ s \in Nat /\ s <= m - 1
  BY Sizes DEF Shards
<1>2. m * ShardSize \in Int /\ m * ShardSize <= N + ShardSize - 1
  <2>1. N + ShardSize - 1 \in Nat BY <1>1
  <2>. QED
    BY <1>1, <2>1, Quotient DEF NumShards
<1>3. s + 1 \in Int /\ s \in Int /\ m \in Int /\ s + 1 <= m
  BY <1>1
<1>4. (s + 1) * ShardSize \in Int /\ (s + 1) * ShardSize <= m * ShardSize
  BY <1>1, <1>3, Scales
<1>5. (s + 1) * ShardSize = s * ShardSize + ShardSize
  BY <1>1, <1>3, Distributes
<1>6. s * ShardSize \in Nat
  BY <1>1, SMT
<1> DEFINE f == s * ShardSize
           g == (s + 1) * ShardSize
           h == m * ShardSize
<1>7. f \in Nat /\ g = f + ShardSize /\ g \in Int /\ h \in Int /\ g <= h /\ h <= N + ShardSize - 1
  BY <1>2, <1>4, <1>5, <1>6
<1> HIDE DEF m, f, g, h
<1>8. f < (IF g < N THEN g ELSE N) /\ (IF g < N THEN g ELSE N) \in Nat
  BY <1>1, <1>7
<1>. QED
  BY <1>1, <1>7, <1>8 DEF f, g, First, ShardEnd

\* An entry is in the run of its shard, and in no other.
LEMMA ShardOfRange ==
  ASSUME NEW e \in Entries
  PROVE  /\ ShardOf(e) \in Shards
         /\ \A s \in Shards : ShardOf(e) = s <=> First(s) <= e /\ e < ShardEnd(s)
         /\ First(ShardOf(e)) <= e /\ e < ShardEnd(ShardOf(e))
<1> DEFINE q == ShardOf(e)
           m == NumShards
<1>1. N \in Nat /\ ShardSize \in Nat \ {0} /\ m \in Nat /\ e \in Nat /\ e < N
  BY Sizes DEF Entries
<1>2. q \in Nat /\ q * ShardSize <= e /\ e < q * ShardSize + ShardSize
  BY <1>1, Quotient DEF ShardOf
<1>3. N + ShardSize - 1 < m * ShardSize + ShardSize
  <2>1. N + ShardSize - 1 \in Nat BY <1>1
  <2>. QED
    BY <1>1, <2>1, Quotient DEF NumShards
<1> HIDE DEF q, m
<1>4. q < m
  <2>1. SUFFICES ASSUME m <= q PROVE FALSE
    BY <1>1, <1>2
  <2>2. m \in Int /\ q \in Int
    BY <1>1, <1>2
  <2>3. m * ShardSize \in Int /\ q * ShardSize \in Int /\ m * ShardSize <= q * ShardSize
    BY <1>1, <2>1, <2>2, Scales
  <2> DEFINE x == m * ShardSize
             y == q * ShardSize
  <2>4. x \in Int /\ y \in Int /\ x <= y /\ y <= e /\ N + ShardSize - 1 < x + ShardSize
    BY <1>2, <1>3, <2>3
  <2> HIDE DEF x, y
  <2>. QED
    BY <2>4, <1>1
<1>5. q \in Shards
  BY <1>1, <1>2, <1>4 DEF Shards, m
<1>6. First(q) <= e /\ e < ShardEnd(q)
  <2>1. First(q) = q * ShardSize /\ (q + 1) * ShardSize = q * ShardSize + ShardSize
    BY <1>1, <1>2, Distributes, q \in Int DEF First
  <2> DEFINE y == q * ShardSize
  <2>2. y \in Nat
    BY <1>1, <1>2, SMT
  <2>3. y <= e /\ e < y + ShardSize /\ First(q) = y /\ (q + 1) * ShardSize = y + ShardSize
    BY <1>2, <2>1
  <2> HIDE DEF y
  <2>. QED
    BY <1>1, <2>2, <2>3 DEF ShardEnd
<1>7. ASSUME NEW s \in Shards, First(s) <= e, e < ShardEnd(s)
      PROVE  q = s
  <2>1. /\ s \in Nat /\ First(s) \in Nat /\ ShardEnd(s) <= First(s + 1)
        /\ First(q) \in Nat /\ ShardEnd(q) <= First(q + 1)
        /\ ShardEnd(s) \in Nat /\ ShardEnd(q) \in Nat
    BY <1>5, ShardRange, Sizes
  <2>2. First(s + 1) \in Int /\ First(q + 1) \in Int
    BY <2>1, <1>1, <1>2, SMT DEF First
  <2>3. CASE s < q
    <3>1. First(s + 1) <= First(q)
      BY <2>3, <2>1, <1>2, <1>1, Scales, s + 1 \in Int, q \in Int, s + 1 <= q DEF First
    <3>. QED
      BY <1>1, <3>1, <2>1, <2>2, <1>6, <1>7
  <2>4. CASE q < s
    <3>1. First(q + 1) <= First(s)
      BY <2>4, <2>1, <1>2, <1>1, Scales, q + 1 \in Int, s \in Int, q + 1 <= s DEF First
    <3>. QED
      BY <1>1, <3>1, <2>1, <2>2, <1>6, <1>7
  <2>. QED
    BY <2>1, <2>3, <2>4, <1>2
<1>. QED
  BY <1>5, <1>6, <1>7 DEF q

\* Entries of an earlier shard are earlier entries.
LEMMA ShardsOrdered ==
  ASSUME NEW d \in Entries, NEW e \in Entries, ShardOf(d) < ShardOf(e)
  PROVE  d < e
<1> DEFINE s == ShardOf(d)
           t == ShardOf(e)
<1>1. s \in Shards /\ t \in Shards /\ d < ShardEnd(s) /\ First(t) <= e
  BY ShardOfRange
<1>2. s \in Nat /\ t \in Nat /\ d \in Nat /\ e \in Nat /\ ShardSize \in Nat \ {0} /\ s + 1 <= t
  BY <1>1, Sizes DEF Shards
<1>3. ShardEnd(s) \in Nat /\ First(t) \in Nat /\ ShardEnd(s) <= First(s + 1)
  BY <1>1, ShardRange
<1> HIDE DEF s, t
<1>4. First(s + 1) \in Int /\ First(s + 1) <= First(t)
  BY <1>2, Scales, s + 1 \in Int, t \in Int DEF First
<1>. QED
  BY <1>1, <1>2, <1>3, <1>4

\* Every shard has a committer.
LEMMA CommitterType ==
  ASSUME NEW s \in Shards
  PROVE  CommitterOf(s) \in CommitterIds
  BY PipelineAssumption, Sizes, SMT DEF CommitterOf, CommitterIds, Shards

-------------------------------------------------------------------------------
(* Ordered enumerations. *)

\* No entry, the empty sequence.
LEMMA EmptyOrder == Enumerates(<<>>, {})
  BY EmptySeq DEF Enumerates

\* A later entry may be appended.
LEMMA OrderAppend ==
  ASSUME NEW S \in SUBSET Nat, NEW q, Enumerates(q, S),
         NEW e \in Nat, \A d \in S : d < e
  PROVE  Enumerates(Append(q, e), S \union {e})
<1> DEFINE T == S \union {e}
           p == Append(q, e)
<1>1. q \in Seq(S) /\ q \in Seq(T) /\ e \in T /\ Len(q) \in Nat
  BY SeqMonotonic, LenProperties DEF Enumerates
<1>2. /\ p \in Seq(T) /\ Len(p) = Len(q) + 1
      /\ \A i \in 1..Len(q) : p[i] = q[i]
      /\ p[Len(q) + 1] = e
  BY <1>1, AppendProperties
<1>3. \A i \in 1..Len(q) : q[i] \in S
  BY <1>1, ElementOfSeq
<1> HIDE DEF p
<1>4. ASSUME NEW d \in T
      PROVE  \E i \in 1..Len(p) : p[i] = d
  <2>1. CASE d = e
    <3>1. Len(q) + 1 \in 1..Len(p)
      BY <1>1, <1>2
    <3>. QED
      BY <2>1, <3>1, <1>2
  <2>2. CASE d \in S
    <3>1. PICK i \in 1..Len(q) : q[i] = d
      BY <2>2 DEF Enumerates
    <3>2. i \in 1..Len(p)
      BY <1>1, <1>2, <3>1
    <3>. QED
      BY <3>1, <3>2, <1>2
  <2>. QED
    BY <2>1, <2>2
<1>5. ASSUME NEW i \in 1..Len(p), NEW j \in 1..Len(p), i < j
      PROVE  p[i] < p[j]
  <2>1. i \in 1..Len(q)
    BY <1>1, <1>2, <1>5
  <2>2. CASE j = Len(q) + 1
    BY <2>1, <2>2, <1>2, <1>3
  <2>3. CASE j \in 1..Len(q)
    BY <2>1, <2>3, <1>2, <1>5 DEF Enumerates
  <2>. QED
    BY <2>2, <2>3, <1>1, <1>2
<1>. QED
  BY <1>2, <1>4, <1>5 DEF Enumerates, p

\* Later entries may be concatenated.
LEMMA OrderConcat ==
  ASSUME NEW S \in SUBSET Nat, NEW T \in SUBSET Nat, NEW q, NEW r, Enumerates(q, S),
         Enumerates(r, T), \A d \in S, e \in T : d < e
  PROVE  Enumerates(q \o r, S \union T)
<1> DEFINE U == S \union T
           p == q \o r
<1>1. /\ q \in Seq(S) /\ q \in Seq(U) /\ Len(q) \in Nat
      /\ r \in Seq(T) /\ r \in Seq(U) /\ Len(r) \in Nat
  BY SeqMonotonic, LenProperties DEF Enumerates
<1>2. /\ p \in Seq(U) /\ Len(p) = Len(q) + Len(r)
      /\ \A i \in 1..(Len(q) + Len(r)) : p[i] = IF i <= Len(q) THEN q[i] ELSE r[i - Len(q)]
  BY <1>1, ConcatProperties
<1>3. (\A i \in 1..Len(q) : q[i] \in S) /\ (\A i \in 1..Len(r) : r[i] \in T)
  BY <1>1, ElementOfSeq
<1> HIDE DEF p
<1>a. \A i \in 1..Len(q) : i \in 1..Len(p) /\ p[i] = q[i]
  BY <1>1, <1>2
<1>b. \A i \in 1..Len(r) : i + Len(q) \in 1..Len(p) /\ p[i + Len(q)] = r[i]
  <2> SUFFICES ASSUME NEW i \in 1..Len(r) PROVE i + Len(q) \in 1..Len(p) /\ p[i + Len(q)] = r[i]
    OBVIOUS
  <2>1. i + Len(q) \in 1..(Len(q) + Len(r)) /\ ~(i + Len(q) <= Len(q)) /\ (i + Len(q)) - Len(q) = i
    BY <1>1
  <2>. QED
    BY <2>1, <1>2
<1>c. \A i \in 1..Len(p) : i \in 1..Len(q) \/ \E k \in 1..Len(r) : i = k + Len(q)
  <2> SUFFICES ASSUME NEW i \in 1..Len(p), i \notin 1..Len(q)
               PROVE  \E k \in 1..Len(r) : i = k + Len(q)
    OBVIOUS
  <2>1. i - Len(q) \in 1..Len(r) /\ i = (i - Len(q)) + Len(q)
    BY <1>1, <1>2
  <2>. QED
    BY <2>1
<1>4. ASSUME NEW d \in U
      PROVE  \E i \in 1..Len(p) : p[i] = d
  <2>1. CASE d \in S
    BY <2>1, <1>a DEF Enumerates
  <2>2. CASE d \in T
    BY <2>2, <1>b DEF Enumerates
  <2>. QED
    BY <2>1, <2>2
<1>5. ASSUME NEW i \in 1..Len(p), NEW j \in 1..Len(p), i < j
      PROVE  p[i] < p[j]
  <2>1. CASE i \in 1..Len(q) /\ j \in 1..Len(q)
    BY <2>1, <1>a, <1>5 DEF Enumerates
  <2>2. CASE j \notin 1..Len(q)
    <3>1. PICK k \in 1..Len(r) : j = k + Len(q)
      BY <2>2, <1>c
    <3>2. CASE i \in 1..Len(q)
      BY <3>1, <3>2, <1>a, <1>b, <1>3
    <3>3. CASE i \notin 1..Len(q)
      <4>1. PICK l \in 1..Len(r) : i = l + Len(q)
        BY <3>3, <1>c
      <4>2. l < k
        BY <3>1, <4>1, <1>5, <1>1
      <4>. QED
        BY <3>1, <4>1, <4>2, <1>b DEF Enumerates
    <3>. QED
      BY <3>2, <3>3
  <2>3. CASE i \notin 1..Len(q)
    <3>1. j \notin 1..Len(q)
      BY <2>3, <1>1, <1>2, <1>5
    <3>. QED
      BY <2>2, <3>1
  <2>. QED
    BY <2>1, <2>2, <2>3
<1>. QED
  BY <1>2, <1>4, <1>5 DEF Enumerates, p

\* The first i elements of an enumeration are those up to the i-th.
LEMMA Rank ==
  ASSUME NEW S \in SUBSET Nat, NEW q, Enumerates(q, S), NEW i \in 1..Len(q)
  PROVE  Cardinality({d \in S : d <= q[i]}) = i
<1> DEFINE D == {d \in S : d <= q[i]}
           f == [k \in 1..i |-> q[k]]
<1>1. q \in Seq(S) /\ Len(q) \in Nat /\ \A k \in 1..Len(q) : q[k] \in S /\ q[k] \in Nat
  BY LenProperties, ElementOfSeq DEF Enumerates
<1>2. i \in Nat /\ \A k \in 1..i : k \in 1..Len(q)
  BY <1>1
<1>3. ASSUME NEW k \in 1..Len(q)
      PROVE  q[k] <= q[i] <=> k <= i
  <2>1. k < i => q[k] < q[i]
    BY DEF Enumerates
  <2>2. i < k => q[i] < q[k]
    BY DEF Enumerates
  <2>3. q[k] \in Nat /\ q[i] \in Nat /\ k \in Nat /\ i \in Nat
    BY <1>1
  <2>4. CASE k = i
    BY <2>3, <2>4
  <2>. QED
    BY <2>1, <2>2, <2>3, <2>4
<1>4. f \in [1..i -> D]
  BY <1>1, <1>2, <1>3
<1>5. \A k, l \in 1..i : f[k] = f[l] => k = l
  <2> SUFFICES ASSUME NEW k \in 1..i, NEW l \in 1..i, q[k] = q[l] PROVE k = l
    OBVIOUS
  <2>1. k \in 1..Len(q) /\ l \in 1..Len(q) /\ q[k] \in Nat /\ q[l] \in Nat /\ k \in Nat /\ l \in Nat
    BY <1>1, <1>2
  <2>2. ~(k < l) /\ ~(l < k)
    BY <2>1 DEF Enumerates
  <2>. QED
    BY <2>1, <2>2
<1>6. \A d \in D : \E k \in 1..i : f[k] = d
  <2> SUFFICES ASSUME NEW d \in D PROVE \E k \in 1..i : q[k] = d
    OBVIOUS
  <2>1. PICK k \in 1..Len(q) : q[k] = d
    BY DEF Enumerates
  <2>2. k \in 1..i
    BY <2>1, <1>2, <1>3
  <2>. QED
    BY <2>1, <2>2
<1>7. ExistsBijection(1..i, D)
  BY <1>4, <1>5, <1>6 DEF ExistsBijection, Bijection, Injection, Surjection, IsInjective
<1>. QED
  BY <1>2, <1>7, FS_CountingElements

\* OrderedBuild counts as this module does.
LEMMA SameCardinality ==
  ASSUME NEW S
  PROVE  Ordered!Cardinality(S) = Cardinality(S)
  BY SMT DEF Ordered!Cardinality, Cardinality

\* There is one enumeration of a set of entries, and InOrder is it.
LEMMA OrderUnique ==
  ASSUME NEW S \in SUBSET Nat, NEW q, Enumerates(q, S)
  PROVE  q = Ordered!InOrder(S)
<1>1. /\ q \in Seq(S) /\ Len(q) \in Nat /\ q \in [1..Len(q) -> S]
      /\ \A k \in 1..Len(q) : q[k] \in S /\ q[k] \in Nat
  BY LenProperties, ElementOfSeq DEF Enumerates
<1>2. Cardinality(S) = Len(q)
  <2>1. \A k, l \in 1..Len(q) : q[k] = q[l] => k = l
    <3> SUFFICES ASSUME NEW k \in 1..Len(q), NEW l \in 1..Len(q), q[k] = q[l] PROVE k = l
      OBVIOUS
    <3>1. q[k] \in Nat /\ q[l] \in Nat /\ k \in Nat /\ l \in Nat
      BY <1>1
    <3>2. ~(k < l) /\ ~(l < k)
      BY <3>1 DEF Enumerates
    <3>. QED
      BY <3>1, <3>2
  <2>2. ExistsBijection(1..Len(q), S)
    BY <2>1, <1>1 DEF Enumerates, ExistsBijection, Bijection, Injection, Surjection, IsInjective
  <2>. QED
    BY <1>1, <2>2, FS_CountingElements
<1>3. ASSUME NEW i \in 1..Len(q)
      PROVE  q[i] = CHOOSE e \in S : Cardinality({d \in S : d <= e}) = i
  <2>1. q[i] \in S /\ Cardinality({d \in S : d <= q[i]}) = i
    BY <1>1, Rank
  <2>2. ASSUME NEW e \in S, Cardinality({d \in S : d <= e}) = i
        PROVE  e = q[i]
    <3>1. PICK k \in 1..Len(q) : q[k] = e
      BY DEF Enumerates
    <3>2. Cardinality({d \in S : d <= q[k]}) = k
      BY Rank
    <3>. QED
      BY <2>2, <3>1, <3>2
  <2>. QED
    BY <2>1, <2>2
<1>. QED
  BY <1>1, <1>2, <1>3, SameCardinality DEF Ordered!InOrder

-------------------------------------------------------------------------------
(* Types and the budget. *)

\* The facts of the constants that the steps use.
LEMMA Consts ==
  /\ N \in Nat /\ NumShards \in Nat /\ Entries \subseteq Nat /\ Shards \subseteq Nat
  /\ Idle \notin Entries /\ Idle \notin Shards /\ Workers # {}
  /\ Items = Entries
  /\ \A n \in 0..N : n < N => n \in Entries /\ n + 1 \in 0..N
  /\ \A n \in 0..NumShards : n < NumShards => n \in Shards /\ n + 1 \in 0..NumShards
  /\ \A e \in Entries : e < N /\ ShardOf(e) \in Shards /\ CommitterOf(ShardOf(e)) \in CommitterIds
  BY PipelineAssumption, Sizes, ShardOfRange, CommitterType DEF Entries, Shards

\* The entry an incomplete shard expects is an entry of that shard.
LEMMA ShardEntry ==
  ASSUME TypeOK, Splices, NEW s \in Shards, expected[s] < ShardEnd(s)
  PROVE  /\ expected[s] \in Entry(s) /\ expected[s] \in Entries /\ expected[s] + 1 \in 0..N
         /\ expected[s] + 1 <= ShardEnd(s)
<1>1. /\ expected[s] \in 0..N /\ First(s) <= expected[s]
      /\ ShardEnd(s) \in Nat /\ ShardEnd(s) <= N /\ N \in Nat
  BY ShardRange, Sizes DEF TypeOK, Splices
<1>2. expected[s] \in Entries /\ expected[s] + 1 \in 0..N /\ expected[s] + 1 <= ShardEnd(s)
  BY <1>1 DEF Entries
<1>3. ShardOf(expected[s]) = s
  BY <1>1, <1>2, ShardOfRange
<1>. QED
  BY <1>2, <1>3 DEF Entry

\* Every step keeps the types.
LEMMA TypeStep ==
  ASSUME TypeOK, Admits, Holds, Splices, used' \in Nat, [Next]_vars
  PROVE  TypeOK'
<1>1. CASE CheckAbort
  BY <1>1, Consts DEF CheckAbort, TypeOK, Stages
<1>2. CASE Reserve
  BY <1>2, Consts DEF Reserve, TypeOK, Stages, Admits
<1>3. CASE SendWork
  BY <1>3, Consts DEF SendWork, AllWorkersExited, TypeOK, Stages, Admits
<1>4. CASE SendRefused
  BY <1>4, Consts DEF SendRefused, AllWorkersExited, TypeOK, Stages
<1>5. ASSUME NEW w \in Workers, TakeWork(w)
      PROVE  TypeOK'
  BY <1>5, Consts DEF TakeWork, TypeOK, Stages, Queued
<1>6. ASSUME NEW w \in Workers, StartWork(w)
      PROVE  TypeOK'
  <2>1. CASE abort
    <3>0. worker[w] = "start"
      BY <1>6 DEF StartWork
    <3>1. working[w] \in Entries
      <4>1. working[w] # Idle
        BY <3>0 DEF Holds
      <4>2. working[w] \in Entries \union {Idle}
        BY DEF TypeOK
      <4>. QED
        BY <4>1, <4>2
    <3>. QED
      BY <1>6, <2>1, <3>1, Consts, ZenonT(90) DEF StartWork, TypeOK, Stages
  <2>2. CASE ~abort
    BY <1>6, <2>2, Consts DEF StartWork, TypeOK
  <2>. QED
    BY <2>1, <2>2
<1>7. ASSUME NEW w \in Workers, WorkApplied(w)
      PROVE  TypeOK'
  BY <1>7, Consts DEF WorkApplied, TypeOK, Stages, Holds
<1>8. ASSUME NEW w \in Workers, WorkSkipped(w)
      PROVE  TypeOK'
  BY <1>8, Consts DEF WorkSkipped, TypeOK, Stages, Holds
<1>9. ASSUME NEW w \in Workers, WorkErr(w)
      PROVE  TypeOK'
  BY <1>9, Consts, SMTT(60) DEF WorkErr, TypeOK, Stages, Holds
<1>10. ASSUME NEW w \in Workers, RaiseAbort(w)
      PROVE  TypeOK'
  BY <1>10, Consts DEF RaiseAbort, TypeOK, Stages, Holds
<1>11. ASSUME NEW w \in Workers, WorkPanic(w)
      PROVE  TypeOK'
  BY <1>11, Consts DEF WorkPanic, TypeOK, Stages, Holds
<1>12. ASSUME NEW w \in Workers, Ship(w)
      PROVE  TypeOK'
  BY <1>12, Consts, SMTT(60) DEF Ship, TypeOK, Stages, Holds
<1>13. ASSUME NEW w \in Workers, WorkerExit(w)
      PROVE  TypeOK'
  BY <1>13, Consts DEF WorkerExit, TypeOK, Stages
<1>14. ASSUME NEW c \in CommitterIds, ReceiveSlot(c)
      PROVE  TypeOK'
  BY <1>14, Consts DEF ReceiveSlot, TypeOK, Stages, SlotsOf
<1>15. ASSUME NEW c \in CommitterIds, ApplyExpected(c)
      PROVE  TypeOK'
  <2>1. PICK s \in Shards : s = draining[c] /\ expected[s] < ShardEnd(s)
    BY <1>15, Consts DEF TypeOK, ApplyExpected, NextInShard
  <2>2. expected[s] \in Entries /\ expected[s] + 1 \in 0..N
    BY <2>1, ShardEntry
  <2>3. Append(shardLog[s], expected[s]) \in Seq(Entries)
    BY <2>2, AppendProperties DEF TypeOK
  <2>. QED
    BY <1>15, <2>1, <2>2, <2>3, ZenonT(90) DEF ApplyExpected, TypeOK, Stages
<1>16. ASSUME NEW c \in CommitterIds, EndDrain(c)
      PROVE  TypeOK'
  BY <1>16, Consts DEF EndDrain, TypeOK, Stages
<1>17. ASSUME NEW c \in CommitterIds, CommitterExit(c)
      PROVE  TypeOK'
  BY <1>17, Consts DEF CommitterExit, AllWorkersExited, TypeOK, Stages
<1>18. CASE ReceiveShard
  BY <1>18, Consts, SMTT(60) DEF ReceiveShard, TypeOK, Stages
<1>19. CASE AbsorbNext
  <2>1. nextAbsorb \in Shards /\ nextAbsorb + 1 \in 0..NumShards
    BY <1>19, Consts DEF TypeOK, AbsorbNext, NextHeld
  <2>2. graph \o shardLog[nextAbsorb] \in Seq(Entries)
    BY <2>1, ConcatProperties DEF TypeOK
  <2>. QED
    BY <1>19, <2>1, <2>2, Consts, ZenonT(90) DEF AbsorbNext, AbsorbShard, TypeOK, Stages
<1>20. CASE AbsorberExit
  BY <1>20, Consts DEF AbsorberExit, AllCommittersExited, NextHeld, TypeOK, Stages
<1>21. CASE ReturnFirstError
  BY <1>21, Consts DEF ReturnFirstError, Joined, TypeOK, Stages
<1>22. CASE FoldLeftover
  <2>1. nextAbsorb \in Shards /\ nextAbsorb + 1 \in 0..NumShards
    BY <1>22, Consts DEF TypeOK, FoldLeftover
  <2>2. graph \o shardLog[nextAbsorb] \in Seq(Entries)
    BY <2>1, ConcatProperties DEF TypeOK
  <2>. QED
    BY <1>22, <2>1, <2>2, Consts, ZenonT(90) DEF FoldLeftover, AbsorbShard, TypeOK, Stages
<1>23. CASE ReturnGraph
  BY <1>23, Consts DEF ReturnGraph, JoinedWithoutError, Joined, TypeOK, Stages
<1>24. CASE UNCHANGED vars
  BY <1>24, Consts DEF vars, TypeOK, Stages
<1>. QED
  BY <1>1, <1>2, <1>3, <1>4, <1>5, <1>6, <1>7, <1>8, <1>9, <1>10, <1>11, <1>12, <1>13, <1>14,
     <1>15, <1>16, <1>17, <1>18, <1>19, <1>20, <1>21, <1>22, <1>23, <1>24 DEF Next, vars, Admit,
     WorkerStep, CommitterStep, AbsorberStep, Return

\* A busy worker has an entry, at the stage its own place says.
LEMMA Busy ==
  ASSUME TypeOK, Holds, NEW w \in Workers, worker[w] \notin {"recv", "exited"}
  PROVE  /\ working[w] \in Entries /\ working[w] # Idle
         /\ worker[w] \in {"start", "work"} => at[working[w]] = "taken"
         /\ worker[w] = "ship" => at[working[w]] = "shipping"
         /\ worker[w] = "fail" => at[working[w]] = "failed"
<1>1. working[w] # Idle
  BY DEF Holds
<1>2. working[w] \in Entries \union {Idle}
  BY DEF TypeOK
<1>. QED
  BY <1>1, <1>2 DEF Holds

\* The entry a committer is about to splice.
LEMMA Expected ==
  ASSUME TypeOK, Splices, Kinds, NEW c \in CommitterIds, draining[c] # Idle,
         NextInShard(draining[c])
  PROVE  /\ draining[c] \in Shards /\ expected[draining[c]] \in Entries
         /\ ShardOf(expected[draining[c]]) = draining[c]
         /\ at[expected[draining[c]]] = "pending" /\ kind[expected[draining[c]]] # "none"
<1>1. draining[c] \in Shards
  BY DEF TypeOK
<1>2. expected[draining[c]] \in Entry(draining[c]) /\ at[expected[draining[c]]] = "pending"
  BY <1>1, ShardEntry DEF NextInShard
<1>. QED
  BY <1>1, <1>2 DEF Entry, Kinds

\* A step that moves no entry into or out of the budget.
LEMMA BytesStay ==
  ASSUME Budget, UNCHANGED <<used, InFlight>>
  PROVE  Budget' /\ used' \in Nat
<1>1. InFlight \in SUBSET Items
  BY Consts DEF InFlight
<1>2. Bytes(InFlight) \in Nat
  BY <1>1, ByteSetFinite
<1>. QED
  BY <1>2 DEF Budget

\* A step that reserves one entry's bytes.
LEMMA BytesTaken ==
  ASSUME Budget, NEW e \in Entries, e \notin InFlight, InFlight' = InFlight \union {e},
         used + Cost[e] <= Capacity, used' = used + Cost[e]
  PROVE  Budget' /\ used' \in Nat
<1>1. InFlight \in SUBSET Items /\ e \in Items
  BY Consts DEF InFlight
<1>2. Bytes(InFlight) \in Nat /\ Bytes(InFlight \union {e}) = Bytes(InFlight) + Cost[e]
  BY <1>1, ByteSetFinite, BytesAdd
<1>3. Cost[e] \in Nat
  BY <1>1, CostType, BudgetAssumption
<1>. QED
  BY <1>2, <1>3 DEF Budget

\* A step that releases one entry's bytes.
LEMMA BytesGiven ==
  ASSUME Budget, NEW e \in InFlight, InFlight' = InFlight \ {e}, used' = used - Cost[e]
  PROVE  Budget' /\ used' \in Nat
<1>1. InFlight \in SUBSET Items /\ e \in Items
  BY Consts DEF InFlight
<1>2. Bytes(InFlight) \in Nat /\ Bytes(InFlight \ {e}) = Bytes(InFlight) - Cost[e]
  BY <1>1, ByteSetFinite, BytesRemove
<1>3. Cost[e] \in Nat /\ Capacity \in Nat
  BY <1>1, CostType, BudgetAssumption
<1>4. Bytes(InFlight \ {e}) \in Nat
  BY <1>1, ByteSetFinite, InFlight \ {e} \in SUBSET Items
<1>. QED
  BY <1>2, <1>3, <1>4 DEF Budget

\* Every step keeps the budget balanced.
LEMMA BudgetStep ==
  ASSUME TypeOK, Admits, Holds, Kinds, Splices, Budget, [Next]_vars
  PROVE  Budget' /\ used' \in Nat
<1>1. CASE Reserve
  <2>1. nextEntry \in Entries /\ at[nextEntry] = "listed" /\ kind[nextEntry] = "none"
    BY <1>1, Consts DEF Reserve, TypeOK, Admits, Kinds
  <2>2. nextEntry \notin InFlight
    BY <2>1 DEF InFlight
  <2>3. InFlight' = InFlight \union {nextEntry}
    BY <1>1, <2>1 DEF Reserve, InFlight, TypeOK
  <2>. QED
    BY <1>1, <2>1, <2>2, <2>3, BytesTaken DEF Reserve
<1>2. CASE SendWork
  <2>1. nextEntry \in Entries /\ at[nextEntry] = "reserved"
    BY <1>2, Consts DEF SendWork, TypeOK, Admits
  <2>2. UNCHANGED InFlight
    BY <1>2, <2>1 DEF SendWork, InFlight, TypeOK
  <2>. QED
    BY <1>2, <2>2, BytesStay DEF SendWork
<1>3. ASSUME NEW w \in Workers, TakeWork(w)
      PROVE  Budget' /\ used' \in Nat
  <2>1. PICK e \in Queued : at' = [at EXCEPT ![e] = "taken"]
    BY <1>3 DEF TakeWork
  <2>2. UNCHANGED <<InFlight, used>>
    BY <1>3, <2>1 DEF TakeWork, InFlight, TypeOK, Queued
  <2>. QED
    BY <2>2, BytesStay
<1>4. ASSUME NEW w \in Workers, StartWork(w)
      PROVE  Budget' /\ used' \in Nat
  <2>1. working[w] \in Entries /\ at[working[w]] = "taken"
    BY <1>4, Busy DEF StartWork
  <2>2. CASE abort
    <3>2. working[w] \in InFlight
      BY <2>1 DEF InFlight
    <3>3. InFlight' = InFlight \ {working[w]}
      BY <1>4, <2>1, <2>2 DEF StartWork, InFlight, TypeOK
    <3>. QED
      BY <1>4, <2>2, <3>2, <3>3, BytesGiven DEF StartWork
  <2>3. CASE ~abort
    <3>1. UNCHANGED <<InFlight, used>>
      BY <1>4, <2>3 DEF StartWork, InFlight
    <3>. QED
      BY <3>1, BytesStay
  <2>. QED
    BY <2>2, <2>3
<1>5. ASSUME NEW w \in Workers, WorkApplied(w)
      PROVE  Budget' /\ used' \in Nat
  <2>1. working[w] \in Entries /\ at[working[w]] = "taken"
    BY <1>5, Busy DEF WorkApplied
  <2>2. UNCHANGED <<InFlight, used>>
    BY <1>5, <2>1 DEF WorkApplied, InFlight, TypeOK
  <2>. QED
    BY <2>2, BytesStay
<1>6. ASSUME NEW w \in Workers, WorkSkipped(w)
      PROVE  Budget' /\ used' \in Nat
  <2>1. working[w] \in Entries /\ at[working[w]] = "taken"
    BY <1>6, Busy DEF WorkSkipped
  <2>2. working[w] \in InFlight
    BY <2>1 DEF InFlight
  <2>3. InFlight' = InFlight \ {working[w]}
    BY <1>6, <2>1 DEF WorkSkipped, InFlight, TypeOK
  <2>. QED
    BY <1>6, <2>2, <2>3, BytesGiven DEF WorkSkipped
<1>7. ASSUME NEW w \in Workers, WorkErr(w)
      PROVE  Budget' /\ used' \in Nat
  <2>1. working[w] \in Entries /\ at[working[w]] = "taken"
    BY <1>7, Busy DEF WorkErr
  <2>2. working[w] \in InFlight
    BY <2>1 DEF InFlight
  <2>3. InFlight' = InFlight \ {working[w]}
    BY <1>7, <2>1 DEF WorkErr, InFlight, TypeOK
  <2>. QED
    BY <1>7, <2>2, <2>3, BytesGiven DEF WorkErr
<1>8. ASSUME NEW w \in Workers, WorkPanic(w)
      PROVE  Budget' /\ used' \in Nat
  <2>1. working[w] \in Entries /\ at[working[w]] = "taken"
    BY <1>8, Busy DEF WorkPanic
  <2>2. UNCHANGED <<InFlight, used>>
    BY <1>8, <2>1 DEF WorkPanic, InFlight, TypeOK
  <2>. QED
    BY <2>2, BytesStay
<1>9. ASSUME NEW w \in Workers, Ship(w)
      PROVE  Budget' /\ used' \in Nat
  <2>1. working[w] \in Entries /\ at[working[w]] = "shipping"
    BY <1>9, Busy DEF Ship
  <2>2. UNCHANGED <<InFlight, used>>
    BY <1>9, <2>1 DEF Ship, InFlight, TypeOK
  <2>. QED
    BY <2>2, BytesStay
<1>10. ASSUME NEW c \in CommitterIds, ReceiveSlot(c)
      PROVE  Budget' /\ used' \in Nat
  <2>1. PICK e \in SlotsOf(c) : at' = [at EXCEPT ![e] = "pending"]
    BY <1>10 DEF ReceiveSlot
  <2>2. UNCHANGED <<InFlight, used>>
    BY <1>10, <2>1 DEF ReceiveSlot, InFlight, TypeOK, SlotsOf
  <2>. QED
    BY <2>2, BytesStay
<1>11. ASSUME NEW c \in CommitterIds, ApplyExpected(c)
      PROVE  Budget' /\ used' \in Nat
  <2>1. PICK e \in Entries : e = expected[draining[c]] /\ at[e] = "pending"
    BY <1>11, Expected DEF ApplyExpected
  <2>2. at' = [at EXCEPT ![e] = "committed"] /\ UNCHANGED kind
    BY <1>11, <2>1 DEF ApplyExpected
  <2>3. CASE kind[e] = "applied"
    <3>1. e \in InFlight /\ InFlight' = InFlight \ {e}
      BY <2>1, <2>2, <2>3 DEF InFlight, TypeOK
    <3>2. used' = used - Cost[e]
      BY <1>11, <2>1, <2>3 DEF ApplyExpected
    <3>. QED
      BY <3>1, <3>2, BytesGiven
  <2>4. CASE kind[e] # "applied"
    <3>1. UNCHANGED InFlight
      BY <2>1, <2>2, <2>4 DEF InFlight, TypeOK
    <3>2. UNCHANGED used
      BY <1>11, <2>1, <2>4 DEF ApplyExpected
    <3>. QED
      BY <3>1, <3>2, BytesStay
  <2>. QED
    BY <2>3, <2>4
<1>12. CASE UNCHANGED <<at, kind, used>>
  BY <1>12, BytesStay DEF InFlight
<1>. QED
  BY <1>1, <1>2, <1>3, <1>4, <1>5, <1>6, <1>7, <1>8, <1>9, <1>10, <1>11, <1>12 DEF CheckAbort,
     SendRefused, RaiseAbort, WorkerExit, EndDrain, CommitterExit, ReceiveShard, AbsorbNext,
     AbsorberExit, ReturnFirstError, FoldLeftover, ReturnGraph, Next, vars, Admit, WorkerStep,
     CommitterStep, AbsorberStep, Return

-------------------------------------------------------------------------------
(* Admission, workers and the ends of threads. *)

\* Admission goes through the entries in order.
LEMMA AdmitsStep ==
  ASSUME TypeOK, Admits, Holds, Kinds, Splices, [Next]_vars
  PROVE  Admits'
<1>1. CASE CheckAbort
  BY <1>1, Consts DEF CheckAbort, Admits, TypeOK
<1>2. CASE Reserve
  BY <1>2, Consts DEF Reserve, Admits, TypeOK
<1>3. CASE SendWork
  BY <1>3, Consts DEF SendWork, AllWorkersExited, Admits, TypeOK
<1>4. CASE SendRefused
  BY <1>4, Consts DEF SendRefused, AllWorkersExited, Admits, TypeOK
<1>5. ASSUME NEW w \in Workers, TakeWork(w)
      PROVE  Admits'
  BY <1>5, Consts, Busy DEF TakeWork, Admits, TypeOK, Queued
<1>6. ASSUME NEW w \in Workers, StartWork(w)
      PROVE  Admits'
  BY <1>6, Consts, Busy, SMTT(60) DEF StartWork, Admits, TypeOK
<1>7. ASSUME NEW w \in Workers, WorkApplied(w)
      PROVE  Admits'
  BY <1>7, Consts, Busy, ZenonT(90) DEF WorkApplied, Admits, TypeOK
<1>8. ASSUME NEW w \in Workers, WorkSkipped(w)
      PROVE  Admits'
  BY <1>8, Consts, Busy, ZenonT(90) DEF WorkSkipped, Admits, TypeOK
<1>9. ASSUME NEW w \in Workers, WorkErr(w)
      PROVE  Admits'
  BY <1>9, Consts, Busy, ZenonT(90) DEF WorkErr, Admits, TypeOK
<1>10. ASSUME NEW w \in Workers, WorkPanic(w)
      PROVE  Admits'
  BY <1>10, Consts, Busy, ZenonT(90) DEF WorkPanic, Admits, TypeOK
<1>11. ASSUME NEW w \in Workers, Ship(w)
      PROVE  Admits'
  BY <1>11, Consts, Busy, ZenonT(90) DEF Ship, Admits, TypeOK
<1>12. ASSUME NEW c \in CommitterIds, ReceiveSlot(c)
      PROVE  Admits'
  BY <1>12, Consts DEF ReceiveSlot, Admits, TypeOK, SlotsOf
<1>13. ASSUME NEW c \in CommitterIds, ApplyExpected(c)
      PROVE  Admits'
  BY <1>13, Consts, Expected, SMTT(60) DEF ApplyExpected, Admits, TypeOK
<1>14. CASE UNCHANGED <<admission, nextEntry, at>>
  BY <1>14, Consts DEF Admits, TypeOK
<1>. QED
  BY <1>1, <1>2, <1>3, <1>4, <1>5, <1>6, <1>7, <1>8, <1>9, <1>10, <1>11, <1>12, <1>13,
     <1>14 DEF RaiseAbort, WorkerExit, EndDrain, CommitterExit, ReceiveShard, AbsorbNext,
     AbsorberExit, ReturnFirstError, FoldLeftover, ReturnGraph, Next, vars, Admit, WorkerStep,
     CommitterStep, AbsorberStep, Return

\* Admission stops early only after an error, or when panics ended every worker.
LEMMA StopsStep ==
  ASSUME TypeOK, Admits, Stops, Holds, Exits, Kinds, Splices, [Next]_vars
  PROVE  Stops'
<1>1. CASE CheckAbort
  BY <1>1, Consts DEF CheckAbort, Stops, TypeOK, Lost
<1>2. CASE Reserve
  BY <1>2, Consts DEF Reserve, Stops, TypeOK, Lost
<1>3. CASE SendWork
  BY <1>3, Consts DEF SendWork, AllWorkersExited, Stops, TypeOK, Lost
<1>4. CASE SendRefused
  BY <1>4, Consts DEF SendRefused, AllWorkersExited, Stops, TypeOK, Lost, Exits
<1>5. ASSUME NEW w \in Workers, TakeWork(w)
      PROVE  Stops'
  BY <1>5, Consts, Busy DEF TakeWork, Stops, TypeOK, Lost, Queued
<1>6. ASSUME NEW w \in Workers, StartWork(w)
      PROVE  Stops'
  BY <1>6, Consts, Busy DEF StartWork, Stops, TypeOK, Lost
<1>7. ASSUME NEW w \in Workers, WorkApplied(w)
      PROVE  Stops'
  BY <1>7, Consts, Busy DEF WorkApplied, Stops, TypeOK, Lost
<1>8. ASSUME NEW w \in Workers, WorkSkipped(w)
      PROVE  Stops'
  BY <1>8, Consts, Busy, ZenonT(90) DEF WorkSkipped, Stops, TypeOK, Lost
<1>9. ASSUME NEW w \in Workers, WorkErr(w)
      PROVE  Stops'
  BY <1>9, Consts, Busy DEF WorkErr, Stops, TypeOK, Lost
<1>10. ASSUME NEW w \in Workers, RaiseAbort(w)
      PROVE  Stops'
  BY <1>10, Consts, Busy DEF RaiseAbort, Stops, TypeOK, Lost
<1>11. ASSUME NEW w \in Workers, WorkPanic(w)
      PROVE  Stops'
  BY <1>11, Consts, Busy DEF WorkPanic, Stops, TypeOK, Lost
<1>12. ASSUME NEW w \in Workers, Ship(w)
      PROVE  Stops'
  BY <1>12, Consts, Busy DEF Ship, Stops, TypeOK, Lost
<1>13. ASSUME NEW c \in CommitterIds, ReceiveSlot(c)
      PROVE  Stops'
  BY <1>13, Consts DEF ReceiveSlot, Stops, TypeOK, Lost, SlotsOf
<1>14. ASSUME NEW c \in CommitterIds, ApplyExpected(c)
      PROVE  Stops'
  BY <1>14, Consts, Expected DEF ApplyExpected, Stops, TypeOK, Lost
<1>15. CASE UNCHANGED <<admission, nextEntry, abort, firstError, at>>
  BY <1>15, Consts DEF Stops, TypeOK, Lost
<1>. QED
  BY <1>1, <1>2, <1>3, <1>4, <1>5, <1>6, <1>7, <1>8, <1>9, <1>10, <1>11, <1>12, <1>13, <1>14,
     <1>15 DEF WorkerExit, EndDrain, CommitterExit, ReceiveShard, AbsorbNext, AbsorberExit,
     ReturnFirstError, FoldLeftover, ReturnGraph, Next, vars, Admit, WorkerStep, CommitterStep,
     AbsorberStep, Return

\* One entry moves, and has an outcome as its new place demands.
LEMMA KindsMove ==
  ASSUME TypeOK, Kinds, NEW e \in Entries, NEW s, at' = [at EXCEPT ![e] = s], kind' = kind,
         kind[e] = "none" <=> s \notin {"shipping", "slot", "pending", "committed"}
  PROVE  Kinds'
<1>1. at'[e] = s /\ \A d \in Entries : d # e => at'[d] = at[d]
  BY DEF TypeOK
<1>. QED
  BY <1>1 DEF Kinds

\* One entry gets its outcome, and is shipped.
LEMMA KindsSet ==
  ASSUME TypeOK, Kinds, NEW e \in Entries, at' = [at EXCEPT ![e] = "shipping"],
         NEW k, k # "none", kind' = [kind EXCEPT ![e] = k]
  PROVE  Kinds'
<1>1. at'[e] = "shipping" /\ \A d \in Entries : d # e => at'[d] = at[d]
  BY DEF TypeOK
<1>2. kind'[e] = k /\ \A d \in Entries : d # e => kind'[d] = kind[d]
  BY DEF TypeOK
<1>. QED
  BY <1>1, <1>2 DEF Kinds

\* An entry has an outcome from its work to its application.
LEMMA KindsStep ==
  ASSUME TypeOK, Admits, Holds, Kinds, Splices, [Next]_vars
  PROVE  Kinds'
<1>1. CASE Reserve
  <2>1. nextEntry \in Entries /\ kind[nextEntry] = "none"
    BY <1>1, Consts DEF Reserve, TypeOK, Admits, Kinds
  <2>. QED
    BY <1>1, <2>1, KindsMove DEF Reserve
<1>2. CASE SendWork
  <2>1. nextEntry \in Entries /\ kind[nextEntry] = "none"
    BY <1>2, Consts DEF SendWork, TypeOK, Admits, Kinds
  <2>. QED
    BY <1>2, <2>1, KindsMove DEF SendWork
<1>3. ASSUME NEW w \in Workers, TakeWork(w)
      PROVE  Kinds'
  <2>1. PICK e \in Queued : at' = [at EXCEPT ![e] = "taken"] /\ kind' = kind
    BY <1>3 DEF TakeWork
  <2>2. e \in Entries /\ kind[e] = "none"
    BY DEF Queued, Kinds
  <2>. QED
    BY <2>1, <2>2, KindsMove
<1>4. ASSUME NEW w \in Workers, StartWork(w)
      PROVE  Kinds'
  <2>1. working[w] \in Entries /\ kind[working[w]] = "none"
    BY <1>4, Busy DEF StartWork, Kinds
  <2>2. kind' = kind /\ (at' = at \/ at' = [at EXCEPT ![working[w]] = "dropped"])
    BY <1>4 DEF StartWork
  <2>3. CASE at' = at
    BY <2>2, <2>3 DEF Kinds
  <2>4. CASE at' = [at EXCEPT ![working[w]] = "dropped"]
    BY <2>1, <2>2, <2>4, KindsMove
  <2>. QED
    BY <2>2, <2>3, <2>4
<1>5. ASSUME NEW w \in Workers, WorkApplied(w)
      PROVE  Kinds'
  <2>1. working[w] \in Entries
    BY <1>5, Busy DEF WorkApplied
  <2>2. at' = [at EXCEPT ![working[w]] = "shipping"] /\ kind' = [kind EXCEPT ![working[w]] = "applied"]
    BY <1>5 DEF WorkApplied
  <2>. QED
    BY <2>1, <2>2, KindsSet
<1>6. ASSUME NEW w \in Workers, WorkSkipped(w)
      PROVE  Kinds'
  <2>1. working[w] \in Entries
    BY <1>6, Busy DEF WorkSkipped
  <2>2. at' = [at EXCEPT ![working[w]] = "shipping"] /\ kind' = [kind EXCEPT ![working[w]] = "skipped"]
    BY <1>6 DEF WorkSkipped
  <2>. QED
    BY <2>1, <2>2, KindsSet
<1>7. ASSUME NEW w \in Workers, WorkErr(w)
      PROVE  Kinds'
  <2>1. working[w] \in Entries /\ kind[working[w]] = "none"
    BY <1>7, Busy DEF WorkErr, Kinds
  <2>2. at' = [at EXCEPT ![working[w]] = "failed"] /\ kind' = kind
    BY <1>7 DEF WorkErr
  <2>. QED
    BY <2>1, <2>2, KindsMove
<1>8. ASSUME NEW w \in Workers, WorkPanic(w)
      PROVE  Kinds'
  <2>1. working[w] \in Entries /\ kind[working[w]] = "none"
    BY <1>8, Busy DEF WorkPanic, Kinds
  <2>2. at' = [at EXCEPT ![working[w]] = "lost"] /\ kind' = kind
    BY <1>8 DEF WorkPanic
  <2>. QED
    BY <2>1, <2>2, KindsMove
<1>9. ASSUME NEW w \in Workers, Ship(w)
      PROVE  Kinds'
  <2>1. working[w] \in Entries /\ kind[working[w]] # "none"
    BY <1>9, Busy DEF Ship, Kinds
  <2>2. at' = [at EXCEPT ![working[w]] = "slot"] /\ kind' = kind
    BY <1>9 DEF Ship
  <2>. QED
    BY <2>1, <2>2, KindsMove
<1>10. ASSUME NEW c \in CommitterIds, ReceiveSlot(c)
       PROVE  Kinds'
  <2>1. PICK e \in SlotsOf(c) : at' = [at EXCEPT ![e] = "pending"] /\ kind' = kind
    BY <1>10 DEF ReceiveSlot
  <2>2. e \in Entries /\ kind[e] # "none"
    BY DEF SlotsOf, Kinds
  <2>. QED
    BY <2>1, <2>2, KindsMove
<1>11. ASSUME NEW c \in CommitterIds, ApplyExpected(c)
       PROVE  Kinds'
  <2>1. expected[draining[c]] \in Entries /\ kind[expected[draining[c]]] # "none"
    BY <1>11, Expected DEF ApplyExpected
  <2>2. at' = [at EXCEPT ![expected[draining[c]]] = "committed"] /\ kind' = kind
    BY <1>11 DEF ApplyExpected
  <2>. QED
    BY <2>1, <2>2, KindsMove
<1>12. CASE UNCHANGED <<kind, at>>
  BY <1>12 DEF Kinds
<1>. QED
  BY <1>1, <1>2, <1>3, <1>4, <1>5, <1>6, <1>7, <1>8, <1>9, <1>10, <1>11, <1>12 DEF CheckAbort,
     SendRefused, RaiseAbort, WorkerExit, EndDrain, CommitterExit, ReceiveShard, AbsorbNext,
     AbsorberExit, ReturnFirstError, FoldLeftover, ReturnGraph, Next, vars, Admit, WorkerStep,
     CommitterStep, AbsorberStep, Return

\* A worker's place says where its entry is: no other thread moves it.
LEMMA HoldsStep ==
  ASSUME TypeOK, Admits, Holds, Alone, Kinds, Splices, [Next]_vars
  PROVE  Holds'
<1>1. CASE Reserve
  BY <1>1, Consts, Busy, SMTT(60) DEF Reserve, Holds, TypeOK, Admits
<1>2. CASE SendWork
  BY <1>2, Consts, Busy DEF SendWork, AllWorkersExited, Holds, TypeOK, Admits
<1>3. ASSUME NEW w \in Workers, TakeWork(w)
      PROVE  Holds'
  BY <1>3, Consts, Busy DEF TakeWork, Holds, TypeOK, Alone, Queued
<1>4. ASSUME NEW w \in Workers, StartWork(w)
      PROVE  Holds'
  <2>0. PICK e \in Entries : working[w] = e /\ at[e] = "taken" /\ e # Idle
    BY <1>4, Busy, Consts DEF StartWork
  <2>1. CASE abort
    <3>1. /\ at' = [at EXCEPT ![e] = "dropped"] /\ worker' = [worker EXCEPT ![w] = "recv"]
          /\ working' = [working EXCEPT ![w] = Idle]
      BY <1>4, <2>0, <2>1 DEF StartWork
    <3>2. ASSUME NEW v \in Workers, v # w
          PROVE  /\ working'[v] = working[v] /\ worker'[v] = worker[v]
                 /\ working[v] # Idle => at'[working[v]] = at[working[v]]
      BY <2>0, <3>1, <3>2, Consts DEF Alone, TypeOK
    <3>3. worker'[w] = "recv" /\ working'[w] = Idle
      BY <3>1 DEF TypeOK
    <3>. QED
      BY <3>2, <3>3 DEF Holds
  <2>2. CASE ~abort
    BY <1>4, <2>0, <2>2, Consts DEF StartWork, Holds, TypeOK
  <2>. QED
    BY <2>1, <2>2
<1>5. ASSUME NEW w \in Workers, WorkApplied(w)
      PROVE  Holds'
  BY <1>5, Consts, Busy DEF WorkApplied, Holds, TypeOK, Alone
<1>6. ASSUME NEW w \in Workers, WorkSkipped(w)
      PROVE  Holds'
  BY <1>6, Consts, Busy DEF WorkSkipped, Holds, TypeOK, Alone
<1>7. ASSUME NEW w \in Workers, WorkErr(w)
      PROVE  Holds'
  BY <1>7, Consts, Busy, SMTT(60) DEF WorkErr, Holds, TypeOK, Alone
<1>8. ASSUME NEW w \in Workers, RaiseAbort(w)
      PROVE  Holds'
  BY <1>8, Consts, Busy DEF RaiseAbort, Holds, TypeOK, Alone
<1>9. ASSUME NEW w \in Workers, WorkPanic(w)
      PROVE  Holds'
  BY <1>9, Consts, Busy DEF WorkPanic, Holds, TypeOK, Alone
<1>10. ASSUME NEW w \in Workers, Ship(w)
      PROVE  Holds'
  BY <1>10, Consts, Busy DEF Ship, Holds, TypeOK, Alone
<1>11. ASSUME NEW w \in Workers, WorkerExit(w)
      PROVE  Holds'
  BY <1>11, Consts, Busy DEF WorkerExit, Holds, TypeOK, Alone
<1>12. ASSUME NEW c \in CommitterIds, ReceiveSlot(c)
      PROVE  Holds'
  BY <1>12, Consts, Busy, SMTT(60) DEF ReceiveSlot, Holds, TypeOK, SlotsOf
<1>13. ASSUME NEW c \in CommitterIds, ApplyExpected(c)
      PROVE  Holds'
  BY <1>13, Consts, Busy, Expected, ZenonT(90) DEF ApplyExpected, Holds, TypeOK
<1>14. CASE UNCHANGED <<worker, working, at>>
  BY <1>14, Consts DEF Holds, TypeOK
<1>. QED
  BY <1>1, <1>2, <1>3, <1>4, <1>5, <1>6, <1>7, <1>8, <1>9, <1>10, <1>11, <1>12, <1>13,
     <1>14 DEF CheckAbort, SendRefused, EndDrain, CommitterExit, ReceiveShard, AbsorbNext,
     AbsorberExit, ReturnFirstError, FoldLeftover, ReturnGraph, Next, vars, Admit, WorkerStep,
     CommitterStep, AbsorberStep, Return

\* A worker ends when the closed work channel is empty, or it panicked.
LEMMA ExitsStep ==
  ASSUME TypeOK, Admits, Holds, Exits, Kinds, Splices, [Next]_vars
  PROVE  Exits'
<1>1. CASE CheckAbort
  BY <1>1, Consts DEF CheckAbort, Exits, TypeOK, Lost, Queued
<1>2. CASE Reserve
  BY <1>2, Consts DEF Reserve, Exits, TypeOK, Lost, Queued, Admits
<1>3. CASE SendWork
  BY <1>3, Consts DEF SendWork, AllWorkersExited, Exits, TypeOK, Lost, Queued, Admits
<1>4. CASE SendRefused
  BY <1>4, Consts DEF SendRefused, AllWorkersExited, Exits, TypeOK, Lost, Queued
<1>5. ASSUME NEW w \in Workers, TakeWork(w)
      PROVE  Exits'
  BY <1>5, Consts, Busy, SMTT(60) DEF TakeWork, Exits, TypeOK, Lost, Queued
<1>6. ASSUME NEW w \in Workers, StartWork(w)
      PROVE  Exits'
  <2>0. PICK e \in Entries : working[w] = e /\ at[e] = "taken" /\ e # Idle
    BY <1>6, Busy DEF StartWork
  <2>1. CASE abort
    BY <1>6, <2>0, <2>1, Consts, SMTT(60) DEF StartWork, Exits, Lost, Queued, TypeOK
  <2>2. CASE ~(abort)
    BY <1>6, <2>0, <2>2, Consts DEF StartWork, Exits, Lost, Queued, TypeOK
  <2>. QED
    BY <2>1, <2>2
<1>7. ASSUME NEW w \in Workers, WorkApplied(w)
      PROVE  Exits'
  BY <1>7, Consts, Busy, ZenonT(90) DEF WorkApplied, Exits, TypeOK, Lost, Queued
<1>8. ASSUME NEW w \in Workers, WorkSkipped(w)
      PROVE  Exits'
  BY <1>8, Consts, Busy, ZenonT(90) DEF WorkSkipped, Exits, TypeOK, Lost, Queued
<1>9. ASSUME NEW w \in Workers, WorkErr(w)
      PROVE  Exits'
  BY <1>9, Consts, Busy, SMTT(60) DEF WorkErr, Exits, TypeOK, Lost, Queued
<1>10. ASSUME NEW w \in Workers, RaiseAbort(w)
      PROVE  Exits'
  BY <1>10, Consts, Busy DEF RaiseAbort, Exits, TypeOK, Lost, Queued
<1>11. ASSUME NEW w \in Workers, WorkPanic(w)
      PROVE  Exits'
  BY <1>11, Consts, Busy, ZenonT(90) DEF WorkPanic, Exits, TypeOK, Lost, Queued
<1>12. ASSUME NEW w \in Workers, Ship(w)
      PROVE  Exits'
  BY <1>12, Consts, Busy, SMTT(60) DEF Ship, Exits, TypeOK, Lost, Queued
<1>13. ASSUME NEW w \in Workers, WorkerExit(w)
      PROVE  Exits'
  BY <1>13, Consts, Busy DEF WorkerExit, Exits, TypeOK, Lost, Queued
<1>14. ASSUME NEW c \in CommitterIds, ReceiveSlot(c)
      PROVE  Exits'
  BY <1>14, Consts DEF ReceiveSlot, Exits, TypeOK, Lost, Queued, SlotsOf
<1>15. ASSUME NEW c \in CommitterIds, ApplyExpected(c)
      PROVE  Exits'
  <2>1. PICK e \in Entries : /\ e = expected[draining[c]] /\ at[e] = "pending"
                             /\ at' = [at EXCEPT ![e] = "committed"]
    BY <1>15, Expected DEF ApplyExpected, Queued, SlotsOf
  <2>. QED
    BY <1>15, <2>1, Consts, SMTT(60) DEF ApplyExpected, Exits, Lost, Queued, TypeOK
<1>16. CASE UNCHANGED <<worker, admission, at>>
  BY <1>16, Consts, SMTT(60) DEF Exits, TypeOK, Lost, Queued
<1>. QED
  BY <1>1, <1>2, <1>3, <1>4, <1>5, <1>6, <1>7, <1>8, <1>9, <1>10, <1>11, <1>12, <1>13, <1>14,
     <1>15, <1>16 DEF EndDrain, CommitterExit, ReceiveShard, AbsorbNext, AbsorberExit,
     ReturnFirstError, FoldLeftover, ReturnGraph, Next, vars, Admit, WorkerStep, CommitterStep,
     AbsorberStep, Return

\* No two workers take the same entry.
LEMMA AloneStep ==
  ASSUME TypeOK, Holds, Held, Alone, [Next]_vars
  PROVE  Alone'
<1>1. ASSUME NEW w \in Workers, TakeWork(w)
      PROVE  Alone'
  BY <1>1, Consts, Busy, SMTT(60) DEF TakeWork, Alone, TypeOK, Holds, Queued
<1>2. ASSUME NEW w \in Workers, StartWork(w)
      PROVE  Alone'
  <2>0. PICK e \in Entries : working[w] = e /\ at[e] = "taken" /\ e # Idle
    BY <1>2, Busy DEF StartWork
  <2>1. CASE abort
    BY <1>2, <2>0, <2>1, Consts DEF StartWork, Alone, TypeOK
  <2>2. CASE ~(abort)
    BY <1>2, <2>0, <2>2, Consts DEF StartWork, Alone, TypeOK
  <2>. QED
    BY <2>1, <2>2
<1>3. ASSUME NEW w \in Workers, RaiseAbort(w)
      PROVE  Alone'
  BY <1>3, Consts, Busy DEF RaiseAbort, Alone, TypeOK
<1>4. ASSUME NEW w \in Workers, WorkPanic(w)
      PROVE  Alone'
  BY <1>4, Consts, Busy DEF WorkPanic, Alone, TypeOK
<1>5. ASSUME NEW w \in Workers, Ship(w)
      PROVE  Alone'
  BY <1>5, Consts, Busy DEF Ship, Alone, TypeOK
<1>6. CASE UNCHANGED <<working>>
  BY <1>6, Consts DEF Alone, TypeOK
<1>. QED
  BY <1>1, <1>2, <1>3, <1>4, <1>5, <1>6 DEF CheckAbort, Reserve, SendWork, SendRefused,
     WorkApplied, WorkSkipped, WorkErr, WorkerExit, ReceiveSlot, ApplyExpected, EndDrain,
     CommitterExit, ReceiveShard, AbsorbNext, AbsorberExit, ReturnFirstError, FoldLeftover,
     ReturnGraph, Next, vars, Admit, WorkerStep, CommitterStep, AbsorberStep, Return

\* Every entry being worked on has its worker.
LEMMA HeldStep ==
  ASSUME TypeOK, Admits, Holds, Held, Kinds, Splices, Stops, [Next]_vars
  PROVE  Held'
<1>1. CASE Reserve
  BY <1>1, Consts DEF Reserve, Held, TypeOK, Admits
<1>2. CASE SendWork
  BY <1>2, Consts DEF SendWork, AllWorkersExited, Held, TypeOK, Admits
<1>3. ASSUME NEW w \in Workers, TakeWork(w)
      PROVE  Held'
  <2>1. PICK e \in Entries : /\ at[e] = "queued" /\ at' = [at EXCEPT ![e] = "taken"]
                             /\ working' = [working EXCEPT ![w] = e]
    BY <1>3 DEF TakeWork, Queued
  <2>2. UNCHANGED <<firstError, abort>> /\ working[w] = Idle
    BY <1>3 DEF TakeWork, Holds
  <2>3. \A d \in Entries : at'[d] = IF d = e THEN "taken" ELSE at[d]
    BY <2>1 DEF TypeOK
  <2>4. \A v \in Workers : working'[v] = IF v = w THEN e ELSE working[v]
    BY <2>1 DEF TypeOK
  <2>. QED
    BY <2>2, <2>3, <2>4, Consts DEF Held
<1>4. ASSUME NEW w \in Workers, StartWork(w)
      PROVE  Held'
  <2>0. PICK e \in Entries : working[w] = e /\ at[e] = "taken" /\ e # Idle
    BY <1>4, Busy DEF StartWork
  <2>1. CASE abort
    BY <1>4, <2>0, <2>1, Consts DEF StartWork, Held, TypeOK
  <2>2. CASE ~(abort)
    BY <1>4, <2>0, <2>2, Consts DEF StartWork, Held, TypeOK
  <2>. QED
    BY <2>1, <2>2
<1>5. ASSUME NEW w \in Workers, WorkApplied(w)
      PROVE  Held'
  BY <1>5, Consts, Busy, SMTT(60) DEF WorkApplied, Held, TypeOK
<1>6. ASSUME NEW w \in Workers, WorkSkipped(w)
      PROVE  Held'
  BY <1>6, Consts, Busy DEF WorkSkipped, Held, TypeOK
<1>7. ASSUME NEW w \in Workers, WorkErr(w)
      PROVE  Held'
  BY <1>7, Consts, Busy DEF WorkErr, Held, TypeOK
<1>8. ASSUME NEW w \in Workers, RaiseAbort(w)
      PROVE  Held'
  BY <1>8, Consts, Busy, SMTT(60) DEF RaiseAbort, Held, TypeOK
<1>9. ASSUME NEW w \in Workers, WorkPanic(w)
      PROVE  Held'
  BY <1>9, Consts, Busy DEF WorkPanic, Held, TypeOK
<1>10. ASSUME NEW w \in Workers, Ship(w)
      PROVE  Held'
  BY <1>10, Consts, Busy DEF Ship, Held, TypeOK
<1>11. ASSUME NEW c \in CommitterIds, ReceiveSlot(c)
      PROVE  Held'
  <2>1. PICK e \in Entries : at[e] = "slot" /\ at' = [at EXCEPT ![e] = "pending"]
    BY <1>11 DEF ReceiveSlot, SlotsOf
  <2>2. UNCHANGED <<working, firstError, abort>>
    BY <1>11 DEF ReceiveSlot
  <2>3. \A d \in Entries : at'[d] = IF d = e THEN "pending" ELSE at[d]
    BY <2>1 DEF TypeOK
  <2>. QED
    BY <2>2, <2>3 DEF Held
<1>12. ASSUME NEW c \in CommitterIds, ApplyExpected(c)
      PROVE  Held'
  BY <1>12, Consts, Expected DEF ApplyExpected, Held, TypeOK
<1>13. CASE UNCHANGED <<at, working, firstError, abort>>
  BY <1>13, Consts DEF Held, TypeOK
<1>. QED
  BY <1>1, <1>2, <1>3, <1>4, <1>5, <1>6, <1>7, <1>8, <1>9, <1>10, <1>11, <1>12,
     <1>13 DEF CheckAbort, SendRefused, WorkerExit, EndDrain, CommitterExit, ReceiveShard,
     AbsorbNext, AbsorberExit, ReturnFirstError, FoldLeftover, ReturnGraph, Next, vars, Admit,
     WorkerStep, CommitterStep, AbsorberStep, Return

\* A committer drains shards of its own that are still open.
LEMMA DrainsStep ==
  ASSUME TypeOK, Drains, Splices, Merges, Ends, [Next]_vars
  PROVE  Drains'
<1>1. ASSUME NEW c \in CommitterIds, ReceiveSlot(c)
      PROVE  Drains'
  <2>1. PICK e \in Entries : /\ at[e] = "slot" /\ CommitterOf(ShardOf(e)) = c
                             /\ draining' = [draining EXCEPT ![c] = ShardOf(e)]
    BY <1>1 DEF ReceiveSlot, SlotsOf
  <2>2. ShardOf(e) \in Shards /\ c \in CommitterIds
    BY <2>1, Consts
  <2>3. ~Whole(ShardOf(e))
    BY <2>1, <2>2, ShardOfRange DEF Splices, Entry, Whole
  <2>4. absorber # "exited"
    BY <1>1 DEF ReceiveSlot, Ends, AllCommittersExited
  <2>5. shardAt[ShardOf(e)] = "open"
    BY <2>2, <2>3, <2>4 DEF Merges, TypeOK
  <2>. QED
    BY <1>1, <2>1, <2>2, <2>5 DEF ReceiveSlot, Drains, TypeOK
<1>2. ASSUME NEW c \in CommitterIds, EndDrain(c)
      PROVE  Drains'
  BY <1>2, Consts DEF EndDrain, Drains, TypeOK
<1>3. ASSUME NEW c \in CommitterIds, CommitterExit(c)
      PROVE  Drains'
  BY <1>3, Consts DEF CommitterExit, AllWorkersExited, Drains, TypeOK
<1>4. CASE ReceiveShard
  BY <1>4, Consts DEF ReceiveShard, Drains, TypeOK
<1>5. CASE AbsorbNext
  BY <1>5, Consts DEF AbsorbNext, AbsorbShard, NextHeld, Drains, TypeOK
<1>6. CASE FoldLeftover
  BY <1>6, Consts DEF FoldLeftover, AbsorbShard, JoinedWithoutError, Joined, Drains, TypeOK,
     AllCommittersExited
<1>7. CASE UNCHANGED <<draining, committer, shardAt>>
  BY <1>7, Consts DEF Drains, TypeOK
<1>. QED
  BY <1>1, <1>2, <1>3, <1>4, <1>5, <1>6, <1>7 DEF CheckAbort, Reserve, SendWork, SendRefused,
     TakeWork, StartWork, WorkApplied, WorkSkipped, WorkErr, RaiseAbort, WorkPanic, Ship,
     WorkerExit, ApplyExpected, AbsorberExit, ReturnFirstError, ReturnGraph, Next, vars, Admit,
     WorkerStep, CommitterStep, AbsorberStep, Return

\* A committer ends after every worker has.
LEMMA ClosesStep ==
  ASSUME TypeOK, Admits, Holds, Closes, Drains, Kinds, Splices, [Next]_vars
  PROVE  Closes'
<1>1. CASE Reserve
  BY <1>1, Consts DEF Reserve, Closes, TypeOK, SlotsOf, AllWorkersExited, Admits
<1>2. CASE SendWork
  BY <1>2, Consts DEF SendWork, AllWorkersExited, Closes, TypeOK, SlotsOf, Admits
<1>3. ASSUME NEW w \in Workers, TakeWork(w)
      PROVE  Closes'
  BY <1>3, Consts, Busy DEF TakeWork, Closes, TypeOK, SlotsOf, AllWorkersExited, Queued
<1>4. ASSUME NEW w \in Workers, StartWork(w)
      PROVE  Closes'
  BY <1>4, Consts, Busy DEF StartWork, Closes, TypeOK, SlotsOf, AllWorkersExited
<1>5. ASSUME NEW w \in Workers, WorkApplied(w)
      PROVE  Closes'
  BY <1>5, Consts, Busy DEF WorkApplied, Closes, TypeOK, SlotsOf, AllWorkersExited
<1>6. ASSUME NEW w \in Workers, WorkSkipped(w)
      PROVE  Closes'
  BY <1>6, Consts, Busy DEF WorkSkipped, Closes, TypeOK, SlotsOf, AllWorkersExited
<1>7. ASSUME NEW w \in Workers, WorkErr(w)
      PROVE  Closes'
  BY <1>7, Consts, Busy DEF WorkErr, Closes, TypeOK, SlotsOf, AllWorkersExited
<1>8. ASSUME NEW w \in Workers, RaiseAbort(w)
      PROVE  Closes'
  BY <1>8, Consts, Busy DEF RaiseAbort, Closes, TypeOK, SlotsOf, AllWorkersExited
<1>9. ASSUME NEW w \in Workers, WorkPanic(w)
      PROVE  Closes'
  BY <1>9, Consts, Busy DEF WorkPanic, Closes, TypeOK, SlotsOf, AllWorkersExited
<1>10. ASSUME NEW w \in Workers, Ship(w)
      PROVE  Closes'
  BY <1>10, Consts, Busy DEF Ship, Closes, TypeOK, SlotsOf, AllWorkersExited
<1>11. ASSUME NEW w \in Workers, WorkerExit(w)
      PROVE  Closes'
  BY <1>11, Consts, Busy DEF WorkerExit, Closes, TypeOK, SlotsOf, AllWorkersExited
<1>12. ASSUME NEW c \in CommitterIds, ReceiveSlot(c)
      PROVE  Closes'
  BY <1>12, Consts DEF ReceiveSlot, Closes, TypeOK, SlotsOf, AllWorkersExited
<1>13. ASSUME NEW c \in CommitterIds, ApplyExpected(c)
      PROVE  Closes'
  BY <1>13, Consts, Expected DEF ApplyExpected, Closes, TypeOK, SlotsOf, AllWorkersExited
<1>14. ASSUME NEW c \in CommitterIds, CommitterExit(c)
      PROVE  Closes'
  BY <1>14, Consts DEF CommitterExit, AllWorkersExited, Closes, TypeOK, SlotsOf
<1>15. CASE UNCHANGED <<committer, at, worker>>
  BY <1>15, Consts DEF Closes, TypeOK, SlotsOf, AllWorkersExited
<1>. QED
  BY <1>1, <1>2, <1>3, <1>4, <1>5, <1>6, <1>7, <1>8, <1>9, <1>10, <1>11, <1>12, <1>13, <1>14,
     <1>15 DEF CheckAbort, SendRefused, EndDrain, ReceiveShard, AbsorbNext, AbsorberExit,
     ReturnFirstError, FoldLeftover, ReturnGraph, Next, vars, Admit, WorkerStep, CommitterStep,
     AbsorberStep, Return

-------------------------------------------------------------------------------
(* Committers. *)

\* Only ApplyExpected commits an entry, and what is committed keeps its outcome.
LEMMA CommitsStay ==
  ASSUME TypeOK, Admits, Holds, Kinds, \A c \in CommitterIds : ~ApplyExpected(c), [Next]_vars
  PROVE  SameCommits
<1>1. CASE Reserve
  <2>1. nextEntry \in Entries /\ at[nextEntry] = "listed"
    BY <1>1, Consts DEF Reserve, TypeOK, Admits
  <2>. QED
    BY <1>1, <2>1 DEF Reserve, TypeOK, SameCommits
<1>2. CASE SendWork
  <2>1. nextEntry \in Entries /\ at[nextEntry] = "reserved"
    BY <1>2, Consts DEF SendWork, TypeOK, Admits
  <2>. QED
    BY <1>2, <2>1 DEF SendWork, TypeOK, SameCommits
<1>3. ASSUME NEW w \in Workers, TakeWork(w)
      PROVE  SameCommits
  <2>1. PICK e \in Queued : at' = [at EXCEPT ![e] = "taken"]
    BY <1>3 DEF TakeWork
  <2>. QED
    BY <1>3, <2>1 DEF TakeWork, TypeOK, Queued, SameCommits
<1>4. ASSUME NEW w \in Workers, StartWork(w)
      PROVE  SameCommits
  <2>1. PICK e \in Entries : e = working[w] /\ at[e] = "taken"
    BY <1>4, Busy DEF StartWork
  <2>2. CASE abort
    BY <1>4, <2>1, <2>2 DEF StartWork, TypeOK, SameCommits
  <2>3. CASE ~abort
    BY <1>4, <2>3 DEF StartWork, SameCommits
  <2>. QED
    BY <2>2, <2>3
<1>5. ASSUME NEW w \in Workers, WorkApplied(w)
      PROVE  SameCommits
  <2>1. PICK e \in Entries : e = working[w] /\ at[e] = "taken"
    BY <1>5, Busy DEF WorkApplied
  <2>. QED
    BY <1>5, <2>1 DEF WorkApplied, TypeOK, SameCommits
<1>6. ASSUME NEW w \in Workers, WorkSkipped(w)
      PROVE  SameCommits
  <2>1. PICK e \in Entries : e = working[w] /\ at[e] = "taken"
    BY <1>6, Busy DEF WorkSkipped
  <2>. QED
    BY <1>6, <2>1 DEF WorkSkipped, TypeOK, SameCommits
<1>7. ASSUME NEW w \in Workers, WorkErr(w)
      PROVE  SameCommits
  <2>1. PICK e \in Entries : e = working[w] /\ at[e] = "taken"
    BY <1>7, Busy DEF WorkErr
  <2>. QED
    BY <1>7, <2>1 DEF WorkErr, TypeOK, SameCommits
<1>8. ASSUME NEW w \in Workers, WorkPanic(w)
      PROVE  SameCommits
  <2>1. PICK e \in Entries : e = working[w] /\ at[e] = "taken"
    BY <1>8, Busy DEF WorkPanic
  <2>. QED
    BY <1>8, <2>1 DEF WorkPanic, TypeOK, SameCommits
<1>9. ASSUME NEW w \in Workers, Ship(w)
      PROVE  SameCommits
  <2>1. PICK e \in Entries : e = working[w] /\ at[e] = "shipping"
    BY <1>9, Busy DEF Ship
  <2>. QED
    BY <1>9, <2>1 DEF Ship, TypeOK, SameCommits
<1>10. ASSUME NEW c \in CommitterIds, ReceiveSlot(c)
      PROVE  SameCommits
  <2>1. PICK e \in Entries : at[e] = "slot" /\ at' = [at EXCEPT ![e] = "pending"]
    BY <1>10 DEF ReceiveSlot, SlotsOf
  <2>. QED
    BY <1>10, <2>1 DEF ReceiveSlot, TypeOK, SameCommits
<1>11. ASSUME NEW c \in CommitterIds, ApplyExpected(c)
      PROVE  SameCommits
  BY <1>11 DEF ApplyExpected, SameCommits
<1>12. CASE UNCHANGED <<at, kind>>
  BY <1>12 DEF SameCommits
<1>. QED
  BY <1>1, <1>2, <1>3, <1>4, <1>5, <1>6, <1>7, <1>8, <1>9, <1>10, <1>11, <1>12 DEF CheckAbort,
     SendRefused, RaiseAbort, WorkerExit, EndDrain, CommitterExit, ReceiveShard, AbsorbNext,
     AbsorberExit, ReturnFirstError, FoldLeftover, ReturnGraph, Next, vars, Admit, WorkerStep,
     CommitterStep, AbsorberStep, Return

\* What ApplyExpected does, said of one shard and one entry.
LEMMA SplicedBy ==
  ASSUME TypeOK, Kinds, Splices, Drains, NEW c \in CommitterIds, ApplyExpected(c)
  PROVE  \E s \in Shards, e \in Entries : Splicing(c, s, e)
<1>1. PICK s \in Shards : s = draining[c] /\ NextInShard(s)
  BY DEF ApplyExpected, TypeOK
<1>2. PICK e \in Entries : /\ e = expected[s] /\ ShardOf(e) = s
                           /\ at[e] = "pending" /\ e + 1 <= ShardEnd(s)
  BY <1>1, ShardEntry DEF NextInShard, Entry
<1>3. \A d \in Entries : at'[d] = IF d = e THEN "committed" ELSE at[d]
  BY <1>1, <1>2 DEF ApplyExpected, TypeOK
<1>4. \A t \in Shards : expected'[t] = IF t = s THEN e + 1 ELSE expected[t]
  BY <1>1, <1>2 DEF ApplyExpected, TypeOK
<1>5. \A t \in Shards : shardLog'[t] =
        IF t = s /\ kind[e] = "applied" THEN Append(shardLog[s], e) ELSE shardLog[t]
  BY <1>1, <1>2 DEF ApplyExpected, TypeOK
<1>6. UNCHANGED <<kind, shardAt, draining, committer, absorberVars, result, workerVars,
                  admissionVars, errorVars>>
  BY DEF ApplyExpected
<1>7. c = CommitterOf(s) /\ shardAt[s] = "open"
  BY <1>1, Consts DEF Drains
<1>. QED
  BY <1>1, <1>2, <1>3, <1>4, <1>5, <1>6, <1>7 DEF Splicing

\* Only ApplyExpected touches the shards' writers.
LEMMA OthersSplice ==
  ASSUME [Next]_vars, \A c \in CommitterIds : ~ApplyExpected(c)
  PROVE  UNCHANGED <<expected, shardLog>>
  BY DEF Next, vars, Admit, WorkerStep, CommitterStep, AbsorberStep, Return, CheckAbort, Reserve,
     SendWork, SendRefused, TakeWork, StartWork, WorkApplied, WorkSkipped, WorkErr, RaiseAbort,
     WorkPanic, Ship, WorkerExit, ReceiveSlot, EndDrain, CommitterExit, ReceiveShard, AbsorbNext,
     AbsorberExit, ReturnFirstError, FoldLeftover, ReturnGraph

\* A shard's committed entries are those before the one it expects.
LEMMA SplicesStep ==
  ASSUME TypeOK, Admits, Holds, Kinds, Splices, Drains, [Next]_vars
  PROVE  Splices'
<1>1. CASE \A c \in CommitterIds : ~ApplyExpected(c)
  <2>1. SameCommits /\ UNCHANGED expected
    BY <1>1, CommitsStay, OthersSplice
  <2>. QED
    BY <2>1 DEF Splices, SameCommits, Entry
<1>2. ASSUME NEW c \in CommitterIds, ApplyExpected(c)
      PROVE  Splices'
  <2>1. PICK s \in Shards, e \in Entries : Splicing(c, s, e)
    BY <1>2, SplicedBy
  <2> SUFFICES ASSUME NEW t \in Shards
               PROVE  /\ First(t) <= expected'[t] /\ expected'[t] <= ShardEnd(t)
                      /\ \A d \in Entry(t) : d < expected'[t] <=> at'[d] = "committed"
    BY DEF Splices, Entry
  <2>2. CASE t = s
    <3>1. /\ First(s) \in Nat /\ e \in Nat /\ First(s) <= e /\ e + 1 <= ShardEnd(s)
          /\ expected[s] = e /\ expected'[s] = e + 1
      BY <2>1, Consts, ShardRange DEF Splicing, Splices
    <3>2. ASSUME NEW d \in Entry(s)
          PROVE  d < e + 1 <=> at'[d] = "committed"
      <4>1. d \in Entries /\ d \in Nat /\ (d < e <=> at[d] = "committed")
        BY <3>1, Consts DEF Splices, Entry
      <4>2. at'[d] = IF d = e THEN "committed" ELSE at[d]
        BY <2>1, <4>1 DEF Splicing
      <4>. QED
        BY <3>1, <4>1, <4>2
    <3>. QED
      BY <2>2, <3>1, <3>2
  <2>3. CASE t # s
    <3>1. expected'[t] = expected[t] /\ \A d \in Entry(t) : at'[d] = at[d]
      BY <2>1, <2>3 DEF Splicing, Entry
    <3>. QED
      BY <3>1 DEF Splices
  <2>. QED
    BY <2>2, <2>3
<1>. QED
  BY <1>1, <1>2

\* A shard's writer has its committed entries, in order.
LEMMA LogsStep ==
  ASSUME TypeOK, Admits, Holds, Kinds, Splices, Drains, Logs, [Next]_vars
  PROVE  Logs'
<1> SUFFICES ASSUME NEW t \in Shards
             PROVE  Enumerates(shardLog[t], Kept(Entry(t)))'
  BY DEF Logs
<1>0. Enumerates(shardLog[t], Kept(Entry(t))) /\ Kept(Entry(t)) \subseteq Nat
  BY Consts DEF Logs, Kept, Entry
<1>1. CASE \A c \in CommitterIds : ~ApplyExpected(c)
  <2>1. SameCommits /\ UNCHANGED shardLog
    BY <1>1, CommitsStay, OthersSplice
  <2>2. Kept(Entry(t))' = Kept(Entry(t))
    BY <2>1 DEF SameCommits, Kept, Entry
  <2>. QED
    BY <1>0, <2>1, <2>2 DEF Enumerates
<1>2. ASSUME NEW c \in CommitterIds, ApplyExpected(c)
      PROVE  Enumerates(shardLog[t], Kept(Entry(t)))'
  <2>1. PICK s \in Shards, e \in Entries : Splicing(c, s, e)
    BY <1>2, SplicedBy
  <2>2. UNCHANGED kind
    BY <2>1 DEF Splicing
  <2>3. CASE t = s /\ kind[e] = "applied"
    <3>1. Kept(Entry(t))' = Kept(Entry(t)) \union {e}
      BY <2>1, <2>2, <2>3, ZenonT(90) DEF Splicing, Kept, Entry
    <3>2. \A d \in Kept(Entry(t)) : d < e
      BY <2>1, <2>3 DEF Splicing, Splices, Kept, Entry
    <3>3. shardLog'[t] = Append(shardLog[t], e)
      BY <2>1, <2>3 DEF Splicing
    <3>4. e \in Nat
      BY Consts
    <3>5. Enumerates(Append(shardLog[t], e), Kept(Entry(t)) \union {e})
      <4> DEFINE S == Kept(Entry(t))
                 q == shardLog[t]
      <4>1. S \in SUBSET Nat /\ Enumerates(q, S) /\ \A d \in S : d < e
        BY <1>0, <3>2
      <4> HIDE DEF S, q
      <4>2. Enumerates(Append(q, e), S \union {e})
        BY <4>1, <3>4, OrderAppend
      <4>. QED
        BY <4>2 DEF S, q
    <3>. QED
      BY <3>1, <3>3, <3>5 DEF Enumerates
  <2>4. CASE ~(t = s /\ kind[e] = "applied")
    <3>1. Kept(Entry(t))' = Kept(Entry(t))
      BY <2>1, <2>2, <2>4 DEF Splicing, Kept, Entry
    <3>2. shardLog'[t] = shardLog[t]
      BY <2>1, <2>4 DEF Splicing
    <3>. QED
      BY <1>0, <3>1, <3>2 DEF Enumerates
  <2>. QED
    BY <2>3, <2>4
<1>. QED
  BY <1>1, <1>2

-------------------------------------------------------------------------------
(* Shards on their way to the absorber. *)

\* Only ReceiveSlot and EndDrain start and end a drain.
LEMMA OthersDrain ==
  ASSUME [Next]_vars, \A c \in CommitterIds : ~ReceiveSlot(c) /\ ~EndDrain(c)
  PROVE  draining' = draining
  BY DEF Next, vars, Admit, WorkerStep, CommitterStep, AbsorberStep, Return, CheckAbort, Reserve,
     SendWork, SendRefused, TakeWork, StartWork, WorkApplied, WorkSkipped, WorkErr, RaiseAbort,
     WorkPanic, Ship, WorkerExit, ApplyExpected, CommitterExit, ReceiveShard, AbsorbNext,
     AbsorberExit, ReturnFirstError, FoldLeftover, ReturnGraph

\* Who moves shards and merges them.
LEMMA OthersShards ==
  ASSUME [Next]_vars, \A c \in CommitterIds : ~EndDrain(c)
  PROVE  \/ UNCHANGED <<shardAt, nextAbsorb, graph>>
         \/ ReceiveShard \/ AbsorbNext \/ FoldLeftover
  BY DEF Next, vars, Admit, WorkerStep, CommitterStep, AbsorberStep, Return, CheckAbort, Reserve,
     SendWork, SendRefused, TakeWork, StartWork, WorkApplied, WorkSkipped, WorkErr, RaiseAbort,
     WorkPanic, Ship, WorkerExit, ApplyExpected, ReceiveSlot, CommitterExit, AbsorberExit,
     ReturnFirstError, ReturnGraph

\* Only EndDrain, the absorber and the fold move a shard, and never back.
LEMMA ShardsForward ==
  ASSUME TypeOK, [Next]_vars, \A c \in CommitterIds : ~EndDrain(c), NEW s \in Shards,
         shardAt[s] # "open"
  PROVE  shardAt'[s] # "open"
BY OthersShards DEF ReceiveShard, AbsorbNext, FoldLeftover, AbsorbShard, TypeOK

\* Only ReceiveSlot puts an entry into a reorder buffer.
LEMMA NoNewPending ==
  ASSUME TypeOK, Admits, Holds, Kinds,
         \A c \in CommitterIds : ~ApplyExpected(c) /\ ~ReceiveSlot(c), NEW d \in Entries,
         at'[d] = "pending", [Next]_vars
  PROVE  at[d] = "pending"
<1>1. CASE Reserve
  BY <1>1 DEF Reserve, TypeOK, Admits
<1>2. CASE SendWork
  BY <1>2 DEF SendWork, AllWorkersExited, TypeOK, Admits
<1>3. ASSUME NEW w \in Workers, TakeWork(w)
      PROVE  at[d] = "pending"
  BY <1>3 DEF TakeWork, TypeOK, Queued
<1>4. ASSUME NEW w \in Workers, StartWork(w)
      PROVE  at[d] = "pending"
  <2>0. PICK e \in Entries : working[w] = e /\ at[e] = "taken"
    BY <1>4, Busy DEF StartWork
  <2>1. CASE abort
    BY <1>4, <2>0, <2>1 DEF StartWork, TypeOK
  <2>2. CASE ~abort
    BY <1>4, <2>2 DEF StartWork
  <2>. QED
    BY <2>1, <2>2
<1>5. ASSUME NEW w \in Workers, WorkApplied(w)
      PROVE  at[d] = "pending"
  BY <1>5, Busy DEF WorkApplied, TypeOK
<1>6. ASSUME NEW w \in Workers, WorkSkipped(w)
      PROVE  at[d] = "pending"
  BY <1>6, Busy DEF WorkSkipped, TypeOK
<1>7. ASSUME NEW w \in Workers, WorkErr(w)
      PROVE  at[d] = "pending"
  BY <1>7, Busy DEF WorkErr, TypeOK
<1>8. ASSUME NEW w \in Workers, WorkPanic(w)
      PROVE  at[d] = "pending"
  BY <1>8, Busy DEF WorkPanic, TypeOK
<1>9. ASSUME NEW w \in Workers, Ship(w)
      PROVE  at[d] = "pending"
  BY <1>9, Busy DEF Ship, TypeOK
<1>10. ASSUME NEW c \in CommitterIds, ReceiveSlot(c)
      PROVE  at[d] = "pending"
  BY <1>10 DEF ReceiveSlot, TypeOK
<1>11. ASSUME NEW c \in CommitterIds, ApplyExpected(c)
      PROVE  at[d] = "pending"
  BY <1>11 DEF ApplyExpected, TypeOK
<1>12. CASE UNCHANGED <<at>>
  BY <1>12 DEF TypeOK
<1>. QED
  BY <1>1, <1>2, <1>3, <1>4, <1>5, <1>6, <1>7, <1>8, <1>9, <1>10, <1>11, <1>12 DEF CheckAbort,
     SendRefused, RaiseAbort, WorkerExit, EndDrain, CommitterExit, ReceiveShard, AbsorbNext,
     AbsorberExit, ReturnFirstError, FoldLeftover, ReturnGraph, Next, vars, Admit, WorkerStep,
     CommitterStep, AbsorberStep, Return

\* A shard that is not being drained has nothing to splice, and was handed over if
\* complete.
LEMMA DrainedStep ==
  ASSUME TypeOK, Admits, Holds, Kinds, Splices, Drains, Drained, [Next]_vars
  PROVE  Drained'
<1> SUFFICES ASSUME NEW t \in Shards, draining'[CommitterOf(t)] # t
             PROVE  /\ ~(expected'[t] < ShardEnd(t) /\ at'[expected'[t]] = "pending")
                    /\ expected'[t] = ShardEnd(t) => shardAt'[t] # "open"
  BY DEF Drained, NextInShard, Whole
<1>0. expected[t] < ShardEnd(t) => expected[t] \in Entries /\ ShardOf(expected[t]) = t
  BY ShardEntry DEF Entry
<1>c. CommitterOf(t) \in CommitterIds
  BY CommitterType
<1>1. CASE \A c \in CommitterIds : ~ApplyExpected(c) /\ ~ReceiveSlot(c) /\ ~EndDrain(c)
  <2>1. UNCHANGED <<expected, draining>>
    BY <1>1, OthersSplice, OthersDrain
  <2>2. ~NextInShard(t) /\ (Whole(t) => shardAt[t] # "open")
    BY <2>1 DEF Drained
  <2>3. \A d \in Entries : at'[d] = "pending" => at[d] = "pending"
    <3>1. \A c \in CommitterIds : ~ApplyExpected(c) /\ ~ReceiveSlot(c)
      BY <1>1
    <3>. QED
      BY <3>1, NoNewPending
  <2>4. shardAt[t] # "open" => shardAt'[t] # "open"
    BY <1>1, ShardsForward
  <2>. QED
    BY <2>1, <2>2, <2>3, <2>4, <1>0 DEF NextInShard, Whole
<1>2. ASSUME NEW c \in CommitterIds, ApplyExpected(c)
      PROVE  /\ ~(expected'[t] < ShardEnd(t) /\ at'[expected'[t]] = "pending")
             /\ expected'[t] = ShardEnd(t) => shardAt'[t] # "open"
  <2>1. PICK s \in Shards, e \in Entries : Splicing(c, s, e)
    BY <1>2, SplicedBy
  <2>2. t # s
    BY <2>1 DEF Splicing
  <2>3. ~NextInShard(t) /\ (Whole(t) => shardAt[t] # "open")
    BY <2>1 DEF Drained, Splicing
  <2>4. expected'[t] = expected[t] /\ shardAt' = shardAt
    BY <2>1, <2>2 DEF Splicing
  <2>5. expected[t] < ShardEnd(t) => at'[expected[t]] = at[expected[t]]
    BY <2>1, <2>2, <1>0 DEF Splicing
  <2>. QED
    BY <2>3, <2>4, <2>5 DEF NextInShard, Whole
<1>3. ASSUME NEW c \in CommitterIds, ReceiveSlot(c)
      PROVE  /\ ~(expected'[t] < ShardEnd(t) /\ at'[expected'[t]] = "pending")
             /\ expected'[t] = ShardEnd(t) => shardAt'[t] # "open"
  <2>1. PICK e \in Entries : /\ CommitterOf(ShardOf(e)) = c
                             /\ at' = [at EXCEPT ![e] = "pending"]
                             /\ draining' = [draining EXCEPT ![c] = ShardOf(e)]
    BY <1>3 DEF ReceiveSlot, SlotsOf
  <2>2. draining[c] = Idle /\ UNCHANGED <<expected, shardAt>>
    BY <1>3 DEF ReceiveSlot
  <2>3. t # ShardOf(e)
    BY <2>1, <1>c DEF TypeOK
  <2>4. draining[CommitterOf(t)] # t
    BY <2>1, <2>2, <1>c, Consts DEF TypeOK
  <2>5. ~NextInShard(t) /\ (Whole(t) => shardAt[t] # "open")
    BY <2>4 DEF Drained
  <2>6. expected[t] < ShardEnd(t) => at'[expected[t]] = at[expected[t]]
    BY <2>1, <2>3, <1>0 DEF TypeOK
  <2>. QED
    BY <2>2, <2>5, <2>6 DEF NextInShard, Whole
<1>4. ASSUME NEW c \in CommitterIds, EndDrain(c)
      PROVE  /\ ~(expected'[t] < ShardEnd(t) /\ at'[expected'[t]] = "pending")
             /\ expected'[t] = ShardEnd(t) => shardAt'[t] # "open"
  <2>1. UNCHANGED <<expected, at>> /\ draining' = [draining EXCEPT ![c] = Idle]
    BY <1>4 DEF EndDrain
  <2>2. CASE t = draining[c]
    BY <1>4, <2>1, <2>2 DEF EndDrain, NextInShard, TypeOK
  <2>3. CASE t # draining[c]
    <3>1. draining[CommitterOf(t)] # t
      BY <2>1, <2>3, <1>c DEF TypeOK
    <3>2. ~NextInShard(t) /\ (Whole(t) => shardAt[t] # "open")
      BY <3>1 DEF Drained
    <3>3. shardAt'[t] = shardAt[t]
      BY <1>4, <2>3 DEF EndDrain, TypeOK
    <3>. QED
      BY <2>1, <3>2, <3>3 DEF NextInShard, Whole
  <2>. QED
    BY <2>2, <2>3
<1>. QED
  BY <1>1, <1>2, <1>3, <1>4

\* An entry a panic lost stays lost.
LEMMA LostEntryStays ==
  ASSUME TypeOK, Admits, Holds, Kinds, Splices, NEW d \in Entries, at[d] = "lost", [Next]_vars
  PROVE  at'[d] = "lost"
<1>1. CASE Reserve
  BY <1>1, Consts DEF Reserve, TypeOK, Admits
<1>2. CASE SendWork
  BY <1>2, Consts DEF SendWork, AllWorkersExited, TypeOK, Admits
<1>3. ASSUME NEW w \in Workers, TakeWork(w)
      PROVE  at'[d] = "lost"
  BY <1>3 DEF TakeWork, TypeOK, Queued
<1>4. ASSUME NEW w \in Workers, StartWork(w)
      PROVE  at'[d] = "lost"
  <2>0. PICK e \in Entries : working[w] = e /\ at[e] = "taken"
    BY <1>4, Busy DEF StartWork
  <2>1. CASE abort
    BY <1>4, <2>0, <2>1 DEF StartWork, TypeOK
  <2>2. CASE ~abort
    BY <1>4, <2>2 DEF StartWork
  <2>. QED
    BY <2>1, <2>2
<1>5. ASSUME NEW w \in Workers, WorkApplied(w)
      PROVE  at'[d] = "lost"
  BY <1>5, Busy DEF WorkApplied, TypeOK
<1>6. ASSUME NEW w \in Workers, WorkSkipped(w)
      PROVE  at'[d] = "lost"
  BY <1>6, Busy DEF WorkSkipped, TypeOK
<1>7. ASSUME NEW w \in Workers, WorkErr(w)
      PROVE  at'[d] = "lost"
  BY <1>7, Busy DEF WorkErr, TypeOK
<1>8. ASSUME NEW w \in Workers, WorkPanic(w)
      PROVE  at'[d] = "lost"
  BY <1>8, Busy DEF WorkPanic, TypeOK
<1>9. ASSUME NEW w \in Workers, Ship(w)
      PROVE  at'[d] = "lost"
  BY <1>9, Busy DEF Ship, TypeOK
<1>10. ASSUME NEW c \in CommitterIds, ReceiveSlot(c)
      PROVE  at'[d] = "lost"
  BY <1>10 DEF ReceiveSlot, TypeOK, SlotsOf
<1>11. ASSUME NEW c \in CommitterIds, ApplyExpected(c)
      PROVE  at'[d] = "lost"
  BY <1>11, Expected, SMTT(60) DEF ApplyExpected, TypeOK
<1>12. CASE UNCHANGED <<at>>
  BY <1>12 DEF TypeOK
<1>. QED
  BY <1>1, <1>2, <1>3, <1>4, <1>5, <1>6, <1>7, <1>8, <1>9, <1>10, <1>11, <1>12 DEF CheckAbort,
     SendRefused, RaiseAbort, WorkerExit, EndDrain, CommitterExit, ReceiveShard, AbsorbNext,
     AbsorberExit, ReturnFirstError, FoldLeftover, ReturnGraph, Next, vars, Admit, WorkerStep,
     CommitterStep, AbsorberStep, Return

LEMMA LostStays ==
  ASSUME TypeOK, Admits, Holds, Kinds, Splices, Lost, [Next]_vars
  PROVE  Lost'
<1>1. PICK d \in Entries : at[d] = "lost"
  BY DEF Lost
<1>2. at'[d] = "lost"
  BY <1>1, LostEntryStays
<1>. QED
  BY <1>2 DEF Lost

\* The absorber does not come back.
LEMMA AbsorberStays ==
  ASSUME [Next]_vars, absorber = "exited"
  PROVE  absorber' = "exited"
  BY DEF Next, vars, Admit, WorkerStep, CommitterStep, AbsorberStep, Return, CheckAbort, Reserve,
     SendWork, SendRefused, TakeWork, StartWork, WorkApplied, WorkSkipped, WorkErr, RaiseAbort,
     WorkPanic, Ship, WorkerExit, ApplyExpected, ReceiveSlot, EndDrain, CommitterExit,
     ReceiveShard, AbsorbNext, AbsorberExit, ReturnFirstError, FoldLeftover, ReturnGraph

\* The merged shards are a prefix; one that is merged incomplete was folded in after a
\* panic.
LEMMA MergesStep ==
  ASSUME TypeOK, Admits, Holds, Kinds, Splices, Drains, Merges, Ends, [Next]_vars
  PROVE  Merges'
<1> SUFFICES ASSUME NEW t \in Shards
             PROVE  /\ shardAt'[t] = "merged" <=> t < nextAbsorb'
                    /\ shardAt'[t] \in {"done", "held"} => expected'[t] = ShardEnd(t)
                    /\ shardAt'[t] = "merged" =>
                         expected'[t] = ShardEnd(t) \/ (absorber' = "exited" /\ Lost')
  BY DEF Merges, Whole
<1>0. /\ shardAt[t] = "merged" <=> t < nextAbsorb
      /\ shardAt[t] \in {"done", "held"} => expected[t] = ShardEnd(t)
      /\ shardAt[t] = "merged" => expected[t] = ShardEnd(t) \/ (absorber = "exited" /\ Lost)
  BY DEF Merges, Whole
<1>l. absorber = "exited" /\ Lost => absorber' = "exited" /\ Lost'
  BY LostStays, AbsorberStays
<1>1. ASSUME NEW c \in CommitterIds, ApplyExpected(c)
      PROVE  /\ shardAt'[t] = "merged" <=> t < nextAbsorb'
             /\ shardAt'[t] \in {"done", "held"} => expected'[t] = ShardEnd(t)
             /\ shardAt'[t] = "merged" =>
                  expected'[t] = ShardEnd(t) \/ (absorber' = "exited" /\ Lost')
  <2>1. PICK s \in Shards, e \in Entries : Splicing(c, s, e)
    BY <1>1, SplicedBy
  <2>. QED
    BY <2>1, <1>0, <1>l DEF Splicing
<1>2. ASSUME NEW c \in CommitterIds, EndDrain(c)
      PROVE  /\ shardAt'[t] = "merged" <=> t < nextAbsorb'
             /\ shardAt'[t] \in {"done", "held"} => expected'[t] = ShardEnd(t)
             /\ shardAt'[t] = "merged" =>
                  expected'[t] = ShardEnd(t) \/ (absorber' = "exited" /\ Lost')
  <2>1. UNCHANGED <<expected, nextAbsorb>>
    BY <1>2 DEF EndDrain
  <2>2. \/ shardAt'[t] = shardAt[t]
        \/ shardAt[t] = "open" /\ shardAt'[t] = "done" /\ expected[t] = ShardEnd(t)
    BY <1>2 DEF EndDrain, TypeOK, Drains
  <2>. QED
    BY <1>0, <1>l, <2>1, <2>2
<1>3. CASE \A c \in CommitterIds : ~ApplyExpected(c) /\ ~EndDrain(c)
  <2>1. UNCHANGED expected
    BY <1>3, OthersSplice
  <2>2. CASE UNCHANGED <<shardAt, nextAbsorb>>
    BY <1>0, <1>l, <2>1, <2>2
  <2>3. CASE ReceiveShard
    BY <1>0, <1>l, <2>1, <2>3 DEF ReceiveShard, TypeOK
  <2>4. CASE AbsorbNext
    <3>1. /\ nextAbsorb \in Shards /\ shardAt[nextAbsorb] = "held"
          /\ expected[nextAbsorb] = ShardEnd(nextAbsorb)
      BY <2>4, Consts DEF AbsorbNext, NextHeld, Merges, Whole, TypeOK
    <3>2. shardAt' = [shardAt EXCEPT ![nextAbsorb] = "merged"] /\ nextAbsorb' = nextAbsorb + 1
      BY <2>4 DEF AbsorbNext, AbsorbShard
    <3>3. t < nextAbsorb + 1 <=> t < nextAbsorb \/ t = nextAbsorb
      BY <3>1, Consts
    <3>4. shardAt'[t] = IF t = nextAbsorb THEN "merged" ELSE shardAt[t]
      BY <3>1, <3>2 DEF TypeOK
    <3>. QED
      BY <1>0, <1>l, <2>1, <3>1, <3>2, <3>3, <3>4
  <2>5. CASE FoldLeftover
    <3>1. nextAbsorb \in Shards /\ nextAbsorb < NumShards
      BY <2>5, Consts DEF FoldLeftover, TypeOK
    <3>2. shardAt' = [shardAt EXCEPT ![nextAbsorb] = "merged"] /\ nextAbsorb' = nextAbsorb + 1
      BY <2>5 DEF FoldLeftover, AbsorbShard
    <3>3. t < nextAbsorb + 1 <=> t < nextAbsorb \/ t = nextAbsorb
      BY <3>1, Consts
    <3>4. shardAt'[t] = IF t = nextAbsorb THEN "merged" ELSE shardAt[t]
      BY <3>1, <3>2 DEF TypeOK
    <3>5. absorber = "exited" /\ Lost
      BY <2>5, <3>1, Consts DEF FoldLeftover, JoinedWithoutError, Joined, Ends
    <3>. QED
      BY <1>0, <1>l, <2>1, <3>1, <3>2, <3>3, <3>4, <3>5
  <2>. QED
    BY <1>3, <2>2, <2>3, <2>4, <2>5, OthersShards
<1>. QED
  BY <1>1, <1>2, <1>3

-------------------------------------------------------------------------------
(* The ends. *)

\* When every worker and committer has ended without an error or a panic, every shard is
\* complete and handed over.
LEMMA AllArrived ==
  ASSUME TypeOK, Admits, Stops, Kinds, Holds, Exits, Held, Drains, Closes, Splices, Drained,
         AllWorkersExited, AllCommittersExited, admission = "drain", firstError = Idle, ~Lost,
         NEW s \in Shards
  PROVE  Whole(s) /\ shardAt[s] # "open"
<1>1. nextEntry = N /\ ~abort
  BY DEF Stops
<1>2. Queued = {}
  BY Consts DEF Exits, AllWorkersExited
<1>3. \A w \in Workers : working[w] = Idle
  BY DEF AllWorkersExited, Holds
<1>4. ASSUME NEW e \in Entries
      PROVE  at[e] \in {"pending", "committed"}
  <2>1. at[e] \notin {"listed", "reserved"}
    BY <1>1, Consts DEF Admits
  <2>2. at[e] # "queued"
    BY <1>2 DEF Queued
  <2>3. at[e] \notin {"taken", "shipping", "failed", "dropped"}
    BY <1>1, <1>3, Consts DEF Held
  <2>4. at[e] # "slot"
    <3>1. SlotsOf(CommitterOf(ShardOf(e))) = {}
      BY Consts DEF Closes, AllCommittersExited
    <3>. QED
      BY <3>1 DEF SlotsOf
  <2>5. at[e] # "lost"
    BY DEF Lost
  <2>6. at[e] \in Stages
    BY DEF TypeOK
  <2>. QED
    BY <2>1, <2>2, <2>3, <2>4, <2>5, <2>6 DEF Stages
<1>5. draining[CommitterOf(s)] # s
  BY CommitterType, Consts DEF Drains, AllCommittersExited
<1>6. ~NextInShard(s) /\ (Whole(s) => shardAt[s] # "open")
  BY <1>5 DEF Drained
<1>7. ASSUME expected[s] < ShardEnd(s)
      PROVE  FALSE
  <2>1. PICK e \in Entry(s) : e = expected[s] /\ e \in Entries
    BY <1>7, ShardEntry
  <2>2. at[e] # "committed"
    BY <2>1, Consts DEF Splices
  <2>. QED
    BY <1>4, <1>6, <1>7, <2>1, <2>2 DEF NextInShard
<1>8. expected[s] \in Nat /\ ShardEnd(s) \in Nat /\ expected[s] <= ShardEnd(s)
  BY ShardRange, Consts DEF TypeOK, Splices
<1>9. Whole(s)
  BY <1>7, <1>8 DEF Whole
<1>. QED
  BY <1>6, <1>9

\* Once every thread has ended, only the caller moves.
LEMMA AfterEnd ==
  ASSUME TypeOK, Drains, Closes, Ends, absorber = "exited", [Next]_vars
  PROVE  ReturnFirstError \/ FoldLeftover \/ ReturnGraph \/ UNCHANGED vars
<1>1. AllCommittersExited /\ admission = "drain"
  BY DEF Ends
<1>2. AllWorkersExited
  <2>1. PICK s \in Shards : TRUE
    BY ShardOfRange, Sizes, 0 \in Entries DEF Entries
  <2>. QED
    BY <1>1, <2>1, CommitterType DEF Closes, AllCommittersExited
<1>3. ~Admit
  BY <1>1 DEF Admit, CheckAbort, Reserve, SendWork, SendRefused
<1>4. \A w \in Workers : ~WorkerStep(w)
  BY <1>2 DEF AllWorkersExited, WorkerStep, TakeWork, StartWork, WorkApplied, WorkSkipped,
     WorkErr, RaiseAbort, WorkPanic, Ship, WorkerExit
<1>5. ~AbsorberStep
  BY DEF AbsorberStep, ReceiveShard, AbsorbNext, AbsorberExit
<1>6. ASSUME NEW c \in CommitterIds PROVE ~CommitterStep(c)
  BY <1>1 DEF AllCommittersExited, Drains, CommitterStep, ReceiveSlot, ApplyExpected, EndDrain,
     CommitterExit
<1>. QED
  BY <1>3, <1>4, <1>5, <1>6 DEF Next, Return

\* Only the caller returns, and only AbsorberExit ends the absorber.
LEMMA OthersReturn ==
  ASSUME [Next]_vars, ~ReturnFirstError, ~ReturnGraph
  PROVE  /\ UNCHANGED result
         /\ absorber' = absorber \/ AbsorberExit
  BY DEF Next, vars, Admit, WorkerStep, CommitterStep, AbsorberStep, Return, CheckAbort, Reserve,
     SendWork, SendRefused, TakeWork, StartWork, WorkApplied, WorkSkipped, WorkErr, RaiseAbort,
     WorkPanic, Ship, WorkerExit, ApplyExpected, ReceiveSlot, EndDrain, CommitterExit,
     ReceiveShard, AbsorbNext, AbsorberExit, FoldLeftover

\* The absorber ends last, with every shard merged unless work failed or panicked.
LEMMA EndsStep ==
  ASSUME TypeOK, Admits, Stops, Kinds, Holds, Exits, Held, Drains, Closes, Splices, Drained,
         Merges, Ends, [Next]_vars
  PROVE  Ends'
<1>1. CASE absorber = "exited"
  <2>1. ReturnFirstError \/ FoldLeftover \/ ReturnGraph \/ UNCHANGED vars
    BY <1>1, AfterEnd
  <2>2. UNCHANGED <<committer, admission, firstError, absorber, at>>
    BY <2>1 DEF ReturnFirstError, FoldLeftover, ReturnGraph, vars
  <2>3. nextAbsorb' = nextAbsorb \/ FoldLeftover
    BY <2>1 DEF ReturnFirstError, ReturnGraph, vars
  <2>4. FoldLeftover /\ firstError = Idle => Lost
    BY <1>1, Consts DEF FoldLeftover, Ends, TypeOK
  <2>. QED
    BY <1>1, <2>2, <2>3, <2>4 DEF Ends, AllCommittersExited, Lost
<1>2. CASE absorber # "exited"
  <2>1. CASE AbsorberExit
    <3>1. /\ AllCommittersExited /\ admission = "drain" /\ ~NextHeld
          /\ \A s \in Shards : shardAt[s] # "done"
      BY <2>1 DEF AbsorberExit
    <3>2. UNCHANGED <<committer, admission, firstError, at, nextAbsorb>>
      BY <2>1 DEF AbsorberExit
    <3>3. AllWorkersExited
      <4>1. PICK s \in Shards : TRUE
        BY ShardOfRange, Sizes, 0 \in Entries DEF Entries
      <4>. QED
        BY <3>1, <4>1, CommitterType DEF Closes, AllCommittersExited
    <3>4. ASSUME firstError = Idle, ~Lost
          PROVE  nextAbsorb = NumShards
      <4>1. SUFFICES ASSUME nextAbsorb < NumShards PROVE FALSE
        BY Consts DEF TypeOK
      <4>2. nextAbsorb \in Shards /\ nextAbsorb \in Nat
        BY <4>1, Consts DEF TypeOK
      <4>3. shardAt[nextAbsorb] # "open"
        BY <3>1, <3>3, <3>4, <4>2, AllArrived
      <4>4. shardAt[nextAbsorb] # "merged"
        BY <4>2 DEF Merges
      <4>. QED
        BY <3>1, <4>1, <4>2, <4>3, <4>4 DEF NextHeld, TypeOK
    <3>. QED
      BY <3>1, <3>2, <3>4 DEF Ends, AllCommittersExited, Lost
  <2>2. CASE ~AbsorberExit
    <3>1. absorber' = absorber
      BY <1>2, <2>2, OthersReturn DEF ReturnFirstError, ReturnGraph
    <3>. QED
      BY <1>2, <3>1 DEF Ends
  <2>. QED
    BY <2>1, <2>2
<1>. QED
  BY <1>1, <1>2

\* The call returns once, and a graph only with every shard merged and no error.
LEMMA ReturnsStep ==
  ASSUME TypeOK, Drains, Closes, Ends, Returns, [Next]_vars
  PROVE  Returns'
<1>1. CASE ReturnFirstError
  BY <1>1 DEF ReturnFirstError, Joined, Returns
<1>2. CASE ReturnGraph
  BY <1>2 DEF ReturnGraph, JoinedWithoutError, Joined, Returns
<1>3. CASE ~ReturnFirstError /\ ~ReturnGraph
  <2>1. UNCHANGED result
    BY <1>3, OthersReturn
  <2>2. CASE result # "none"
    <3>1. absorber = "exited"
      BY <2>2 DEF Returns
    <3>2. UNCHANGED vars
      BY <1>3, <2>2, <3>1, AfterEnd DEF FoldLeftover, JoinedWithoutError, Joined
    <3>. QED
      BY <3>2 DEF Returns, vars
  <2>. QED
    BY <2>1, <2>2 DEF Returns
<1>. QED
  BY <1>1, <1>2, <1>3

\* The merged graph has the committed entries of the merged shards, in order.
LEMMA GraphsStep ==
  ASSUME TypeOK, Admits, Kinds, Holds, Splices, Drains, Logs, Merges, Graphs, [Next]_vars
  PROVE  Graphs'
<1>0. Enumerates(graph, Kept(Below(nextAbsorb))) /\ Kept(Below(nextAbsorb)) \subseteq Nat
  BY Consts DEF Graphs, Below, Kept
<1> SUFFICES Enumerates(graph', Kept(Below(nextAbsorb))')
  BY DEF Graphs, Below, Enumerates, Kept
<1>1. ASSUME NEW c \in CommitterIds, ApplyExpected(c)
      PROVE  Enumerates(graph', Kept(Below(nextAbsorb))')
  <2>1. PICK s \in Shards, e \in Entries : Splicing(c, s, e)
    BY <1>1, SplicedBy
  <2>2. UNCHANGED <<graph, nextAbsorb, kind>>
    BY <2>1 DEF Splicing
  <2>3. ~(ShardOf(e) < nextAbsorb)
    BY <2>1 DEF Splicing, Merges
  <2>4. Kept(Below(nextAbsorb))' = Kept(Below(nextAbsorb))
    BY <2>1, <2>2, <2>3 DEF Splicing, Kept, Below
  <2>. QED
    BY <1>0, <2>2, <2>4
<1>2. CASE \A c \in CommitterIds : ~ApplyExpected(c)
  <2>0. SameCommits
    BY <1>2, CommitsStay
  <2>1. CASE UNCHANGED <<graph, nextAbsorb>>
    <3>1. Kept(Below(nextAbsorb))' = Kept(Below(nextAbsorb))
      BY <2>0, <2>1 DEF SameCommits, Kept, Below
    <3>. QED
      BY <1>0, <2>1, <3>1
  <2>2. CASE AbsorbNext \/ FoldLeftover
    <3> DEFINE s == nextAbsorb
               S == Kept(Below(s))
               T == Kept(Entry(s))
    <3>1. s \in Shards /\ s \in Nat
      BY <2>2, Consts DEF AbsorbNext, NextHeld, FoldLeftover, TypeOK
    <3>2. graph' = graph \o shardLog[s] /\ nextAbsorb' = s + 1
      BY <2>2 DEF AbsorbNext, FoldLeftover, AbsorbShard
    <3>3. Kept(Below(nextAbsorb))' = S \union T
      <4>1. \A e \in Entries : ShardOf(e) < s + 1 <=> ShardOf(e) < s \/ ShardOf(e) = s
        <5> SUFFICES ASSUME NEW e \in Entries
                     PROVE  ShardOf(e) < s + 1 <=> ShardOf(e) < s \/ ShardOf(e) = s
          OBVIOUS
        <5>1. ShardOf(e) \in Nat
          BY Consts
        <5>. QED
          BY <3>1, <5>1
      <4>. QED
        BY <2>0, <3>2, <4>1 DEF SameCommits, Kept, Below, Entry
    <3>4. S \in SUBSET Nat /\ T \in SUBSET Nat
      BY Consts DEF Kept, Below, Entry
    <3>5. \A d \in S, e \in T : d < e
      BY ShardsOrdered DEF Kept, Below, Entry
    <3>6. Enumerates(graph, S) /\ Enumerates(shardLog[s], T)
      BY <1>0, <3>1 DEF Logs
    <3> HIDE DEF S, T, s
    <3>7. Enumerates(graph \o shardLog[s], S \union T)
      BY <3>4, <3>5, <3>6, OrderConcat
    <3>. QED
      BY <3>2, <3>3, <3>7
  <2>3. CASE (\E c \in CommitterIds : EndDrain(c)) \/ ReceiveShard
    <3>1. UNCHANGED <<graph, nextAbsorb>>
      BY <2>3 DEF EndDrain, ReceiveShard
    <3>. QED
      BY <2>1, <3>1
  <2>. QED
    BY <2>1, <2>2, <2>3, OthersShards
<1>. QED
  BY <1>1, <1>2

-------------------------------------------------------------------------------
(* The theorems. *)

\* The invariant holds at first.
LEMMA InvInit == Init => PipeInv
<1> SUFFICES ASSUME Init PROVE PipeInv
  OBVIOUS
<1>1. 0 \in Entries /\ 0 \in 0..N /\ 0 \in 0..NumShards /\ 0 < N
  BY Sizes DEF Entries
<1>2. \A s \in Shards : s * ShardSize \in 0..N /\ First(s) = s * ShardSize /\ First(s) < ShardEnd(s)
  <2> SUFFICES ASSUME NEW s \in Shards
               PROVE  First(s) \in 0..N /\ First(s) < ShardEnd(s)
    BY DEF First
  <2>. QED
    BY ShardRange, Sizes
<1>3. <<>> \in Seq(Entries)
  BY EmptySeq
<1>4. TypeOK
  BY <1>1, <1>2, <1>3, Consts DEF Init, TypeOK, Stages
<1>5. Admits
  BY <1>1, Consts DEF Init, Admits
<1>6. Stops /\ Kinds /\ Holds /\ Exits /\ Alone /\ Held
  BY Consts DEF Init, Stops, Kinds, Holds, Exits, Alone, Held
<1>7. Drains /\ Closes
  BY Consts DEF Init, Drains, Closes
<1>8. Splices
  <2> SUFFICES ASSUME NEW s \in Shards
               PROVE  /\ First(s) <= expected[s] /\ expected[s] <= ShardEnd(s)
                      /\ \A e \in Entry(s) : e < expected[s] <=> at[e] = "committed"
    BY DEF Splices
  <2>1. expected[s] = First(s) /\ First(s) \in Nat /\ ShardEnd(s) \in Nat /\ First(s) < ShardEnd(s)
    BY ShardRange DEF Init, First
  <2>2. \A e \in Entry(s) : e \in Entries /\ e \in Nat /\ First(s) <= e
    BY ShardOfRange, Consts DEF Entry
  <2>3. \A e \in Entries : at[e] # "committed"
    BY DEF Init
  <2>. QED
    BY <2>1, <2>2, <2>3
<1>9. Drained
  <2> SUFFICES ASSUME NEW s \in Shards
               PROVE  ~NextInShard(s) /\ (Whole(s) => shardAt[s] # "open")
    BY DEF Drained
  <2>1. expected[s] = First(s) /\ First(s) \in Nat /\ ShardEnd(s) \in Nat /\ First(s) < ShardEnd(s)
    BY ShardRange DEF Init, First
  <2>2. expected[s] \in Entries => at[expected[s]] = "listed"
    BY DEF Init
  <2>. QED
    BY <2>1, <2>2, <1>4, <1>8, ShardEntry DEF NextInShard, Whole
<1>10. Logs
  <2>1. \A s \in Shards : Kept(Entry(s)) = {}
    BY DEF Init, Kept, Entry
  <2>. QED
    BY <2>1, EmptyOrder DEF Init, Logs
<1>11. Merges /\ Ends /\ Returns
  BY Consts DEF Init, Merges, Ends, Returns
<1>12. Graphs
  <2>1. Kept({e \in Entries : ShardOf(e) < nextAbsorb}) = {}
    BY DEF Init, Kept
  <2>. QED
    BY <2>1, EmptyOrder DEF Init, Graphs
<1>13. Budget
  <2>1. InFlight = {}
    BY DEF Init, InFlight
  <2>. QED
    BY <2>1, BytesEmpty, BudgetAssumption DEF Init, Budget
<1>. QED
  BY <1>4, <1>5, <1>6, <1>7, <1>8, <1>9, <1>10, <1>11, <1>12, <1>13 DEF PipeInv

\* Every step keeps the invariant.
LEMMA InvNext == PipeInv /\ [Next]_vars => PipeInv'
<1> SUFFICES ASSUME PipeInv, [Next]_vars PROVE PipeInv'
  OBVIOUS
<1> USE DEF PipeInv
<1>1. Budget' /\ used' \in Nat
  BY BudgetStep
<1>2. TypeOK'
  BY <1>1, TypeStep
<1>3. Admits'
  BY AdmitsStep
<1>4. Stops'
  BY StopsStep
<1>5. Kinds'
  BY KindsStep
<1>6. Holds'
  BY HoldsStep
<1>7. Exits'
  BY ExitsStep
<1>8. Alone'
  BY AloneStep
<1>9. Held'
  BY HeldStep
<1>10. Drains'
  BY DrainsStep
<1>11. Closes'
  BY ClosesStep
<1>12. Splices'
  BY SplicesStep
<1>13. Drained'
  BY DrainedStep
<1>14. Logs'
  BY LogsStep
<1>15. Merges'
  BY MergesStep
<1>16. Ends'
  BY EndsStep
<1>17. Graphs'
  BY GraphsStep
<1>18. Returns'
  BY ReturnsStep
<1>. QED
  BY <1>1, <1>2, <1>3, <1>4, <1>5, <1>6, <1>7, <1>8, <1>9, <1>10, <1>11, <1>12, <1>13, <1>14,
     <1>15, <1>16, <1>17, <1>18

\* The invariant holds throughout.
THEOREM PipelineInvariant == Spec => []PipeInv
<1>1. Init => PipeInv
  BY InvInit
<1>2. PipeInv /\ [Next]_vars => PipeInv'
  BY InvNext
<1>. QED
  BY <1>1, <1>2, PTL DEF Spec

\* The variables keep their types, the budget is the bytes of the entries in flight, and
\* it is never exceeded, whatever fails or panics (ByteBudget's reserve and release).
THEOREM StreamBytesAccounted == Spec => []BytesAccounted
<1>1. PipeInv => BytesAccounted
  BY DEF PipeInv, Budget, BytesAccounted
<1>. QED
  BY <1>1, PipelineInvariant, PTL

\* A shard that was merged, by the absorber or without a panic, was complete.
LEMMA MergedWhole ==
  ASSUME PipeInv, absorber = "recv" \/ ~Lost, NEW e \in Entries, ShardOf(e) < nextAbsorb
  PROVE  at[e] = "committed"
<1> DEFINE s == ShardOf(e)
<1>1. s \in Shards /\ e \in Entry(s) /\ e < ShardEnd(s)
  BY ShardOfRange DEF Entry
<1>2. Whole(s)
  BY <1>1 DEF PipeInv, Merges, TypeOK
<1>. QED
  BY <1>1, <1>2 DEF PipeInv, Splices, Whole

\* While the absorber runs, or without a panic, the graph is what the batch path yields.
LEMMA BatchSoFar ==
  ASSUME PipeInv, absorber = "recv" \/ ~Lost
  PROVE  graph = BatchPrefix(nextAbsorb)
<1> DEFINE S == Kept({e \in Entries : ShardOf(e) < nextAbsorb})
           T == {e \in Entries : ShardOf(e) < nextAbsorb /\ kind[e] = "applied"}
<1>1. S = T
  BY MergedWhole DEF Kept
<1>2. Enumerates(graph, S) /\ S \in SUBSET Nat
  BY Consts DEF PipeInv, Graphs, Kept
<1> HIDE DEF S
<1>3. graph = Ordered!InOrder(S)
  BY <1>2, OrderUnique
<1>. QED
  BY <1>1, <1>3 DEF BatchPrefix

\* The merged graph is the batch path's output for the shards merged so far, under any
\* schedule of the threads (the absorber's holdback).
THEOREM StreamMergedLikeBatch == Spec => []MergedLikeBatch
<1>1. PipeInv => MergedLikeBatch
  BY BatchSoFar DEF MergedLikeBatch, Lost
<1>. QED
  BY <1>1, PipelineInvariant, PTL

\* Without a panic, a call that returns a graph returns a whole one, and every byte was
\* given back: errors never let a partial graph through (the early return on first_err).
THEOREM StreamOkIsComplete == Spec => []OkIsCompleteOrPanicked
<1>1. ASSUME PipeInv, ~Lost, result = "ok"
      PROVE  (\A e \in Entries : at[e] = "committed") /\ graph = BatchPrefix(NumShards) /\ used = 0
  <2>1. nextAbsorb = NumShards
    BY <1>1 DEF PipeInv, Returns
  <2>2. \A e \in Entries : ShardOf(e) < nextAbsorb
    BY <2>1, Consts DEF Shards
  <2>3. \A e \in Entries : at[e] = "committed"
    BY <1>1, <2>2, MergedWhole
  <2>4. InFlight = {}
    BY <2>3 DEF InFlight
  <2>5. used = 0
    BY <1>1, <2>4, BytesEmpty DEF PipeInv, Budget
  <2>. QED
    BY <1>1, <2>1, <2>3, <2>5, BatchSoFar
<1>2. PipeInv => OkIsCompleteOrPanicked
  BY <1>1 DEF OkIsCompleteOrPanicked, OkIsComplete, Lost
<1>. QED
  BY <1>2, PipelineInvariant, PTL

\* A step of the pipeline is a step of the batch path or none.
LEMMA Refines == PipeInv /\ [Next]_vars => [Ordered!Next]_(Ordered!vars)
<1> SUFFICES ASSUME PipeInv, [Next]_vars PROVE [Ordered!Next]_(Ordered!vars)
  OBVIOUS
<1>1. CASE AbsorbNext \/ FoldLeftover
  <2> DEFINE T == Kept(Entry(nextAbsorb))
  <2>1. nextAbsorb \in Shards /\ nextAbsorb < NumShards
    BY <1>1, Consts DEF AbsorbNext, NextHeld, FoldLeftover, PipeInv, TypeOK
  <2>2. result = "none"
    BY <1>1 DEF AbsorbNext, FoldLeftover, JoinedWithoutError, Joined, PipeInv, Returns
  <2>3. graph' = graph \o shardLog[nextAbsorb] /\ nextAbsorb' = nextAbsorb + 1 /\ result' = result
    BY <1>1 DEF AbsorbNext, FoldLeftover, AbsorbShard
  <2>4. T \in SUBSET Nat /\ Enumerates(shardLog[nextAbsorb], T)
    BY <2>1, Consts DEF PipeInv, Logs, Kept, Entry
  <2>5. T \in SUBSET Ordered!EntriesOf(nextAbsorb)
    BY DEF Kept, Entry, Entries, ShardOf, Ordered!EntriesOf
  <2> HIDE DEF T
  <2>6. shardLog[nextAbsorb] = Ordered!InOrder(T)
    BY <2>4, OrderUnique
  <2>8. NumShards = Ordered!NumShards
    BY DEF NumShards, Ordered!NumShards
  <2>9. Ordered!MergeShard
    BY <2>1, <2>2, <2>3, <2>5, <2>6, <2>8 DEF Ordered!MergeShard
  <2>. QED
    BY <2>9 DEF Ordered!Next
<1>2. CASE ReturnFirstError
  BY <1>2 DEF ReturnFirstError, Joined, Ordered!Fail, Ordered!Next
<1>3. CASE ReturnGraph
  <2>1. NumShards = Ordered!NumShards
    BY DEF NumShards, Ordered!NumShards
  <2>. QED
    BY <1>3, <2>1 DEF ReturnGraph, JoinedWithoutError, Joined, Ordered!Fail, Ordered!Succeed,
       Ordered!Next
<1>4. CASE ~(AbsorbNext \/ FoldLeftover) /\ ~ReturnFirstError /\ ~ReturnGraph
  <2>1. UNCHANGED result
    BY <1>4, OthersReturn
  <2>2. CASE \E c \in CommitterIds : EndDrain(c)
    BY <2>1, <2>2 DEF EndDrain, Ordered!vars
  <2>3. CASE ReceiveShard
    BY <2>1, <2>3 DEF ReceiveShard, Ordered!vars
  <2>. QED
    BY <1>4, <2>1, <2>2, <2>3, OthersShards DEF Ordered!vars
<1>. QED
  BY <1>1, <1>2, <1>3, <1>4

\* The pipeline, panics and errors included, takes the steps of OrderedBuild: whole runs
\* of entries in order, one shard at a time, then one return.
THEOREM StreamBuildsInOrder == Spec => Ordered!Init /\ [][Ordered!Next]_(Ordered!vars)
<1>1. Init => Ordered!Init
  BY DEF Init, Ordered!Init
<1>2. PipeInv /\ [Next]_vars => [Ordered!Next]_(Ordered!vars)
  BY Refines
<1>. QED
  BY <1>1, <1>2, PipelineInvariant, PTL DEF Spec
================================================================================
