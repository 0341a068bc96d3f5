-------------------------- MODULE RemoteSessionProofs --------------------------
(***************************************************************************)
(* Why a remote scan that reports success is complete, keeps to its cap,   *)
(* leaves no binary behind and blames no healthy node, for every set of    *)
(* nodes, whatever their files hold and whichever of the faults strike.    *)
(*                                                                         *)
(* The argument goes from the buffers outwards.  Types: what each pipe and *)
(* channel carries.  OrderInv: a pipe carries a node's fragments in order, *)
(* a Done last.  PlaceInv and PastInv: a fragment is in one place, and what*)
(* is forwarded came before what is held and what is in the pipe.  SumInv: *)
(* what is forwarded and settled has been claimed.  CapInv: what is in     *)
(* flight is a fragment per session.  WholeInv: nothing is lost on the way.*)
(***************************************************************************)
EXTENDS RemoteSession, FiniteSetTheorems, FunctionTheorems, SequenceTheorems, TLAPS

Kinds    == {"welcome", "heartbeat", "done", "bye"}
Rendered == [type : {"rendered"}, node : Nodes, seq : Nat, count : Nat]

-------------------------------------------------------------------------------
\* The matches of a set of fragments, as a set of pairs.
MatchSet(S) == UNION {{f} \X (1..f.count) : f \in S}

\* A stretch of numbers from one on.
LEMMA RangeFinite == \A k \in Nat : IsFiniteSet(1..k) /\ Cardinality(1..k) = k
<1> TAKE k \in Nat
<1> QED
  BY FS_Interval, SMT

\* A finite set of fragments has finitely many matches.
LEMMA MatchesFinite ==
  ASSUME NEW S, IsFiniteSet(S), \A f \in S : f.count \in Nat
  PROVE  IsFiniteSet(MatchSet(S)) /\ MatchesOf(S) \in Nat
<1>1. \A f \in S : IsFiniteSet({f} \X (1..f.count))
  <2> TAKE f \in S
  <2>1. IsFiniteSet({f}) /\ IsFiniteSet(1..f.count)
    BY FS_Singleton, RangeFinite
  <2> QED
    BY <2>1, FS_Product
<1> DEFINE g == [f \in S |-> {f} \X (1..f.count)]
           T == {g[f] : f \in S}
<1>2. g \in Surjection(S, T)
  BY DEF Surjection
<1>3. IsFiniteSet(T)
  BY <1>2, FS_Surjection
<1>4. IsFiniteSet(UNION T)
  BY <1>1, <1>3, FS_UNION
<1>5. UNION T = MatchSet(S)
  BY DEF MatchSet
<1> QED
  BY <1>4, <1>5, FS_CardinalityType DEF MatchesOf, MatchSet

\* Fewer fragments have no more matches.
LEMMA MatchesMonotone ==
  ASSUME NEW S, IsFiniteSet(S), \A f \in S : f.count \in Nat, NEW T \in SUBSET S
  PROVE  IsFiniteSet(T) /\ MatchesOf(T) \in Nat /\ MatchesOf(T) <= MatchesOf(S)
<1>1. IsFiniteSet(T)
  BY FS_Subset
<1>2. IsFiniteSet(MatchSet(S)) /\ MatchesOf(T) \in Nat
  BY <1>1, MatchesFinite
<1>3. MatchSet(T) \in SUBSET MatchSet(S)
  BY DEF MatchSet
<1> QED
  BY <1>1, <1>2, <1>3, FS_Subset DEF MatchesOf, MatchSet

\* One fragment more is its matches more.
LEMMA MatchesAdd ==
  ASSUME NEW S, IsFiniteSet(S), \A f \in S : f.count \in Nat, NEW x, x.count \in Nat, x \notin S
  PROVE  MatchesOf(S \cup {x}) = MatchesOf(S) + x.count
<1> DEFINE own == {x} \X (1..x.count)
<1>1. IsFiniteSet({x}) /\ Cardinality({x}) = 1 /\ IsFiniteSet(1..x.count) /\ Cardinality(1..x.count) = x.count
  BY FS_Singleton, RangeFinite
<1>2. IsFiniteSet(own) /\ Cardinality(own) = x.count
  <2>1. IsFiniteSet(own) /\ Cardinality(own) = Cardinality({x}) * Cardinality(1..x.count)
    BY <1>1, FS_Product
  <2> HIDE DEF own
  <2> QED
    BY <1>1, <2>1
<1>3. IsFiniteSet(MatchSet(S)) /\ MatchesOf(S) \in Nat
  BY MatchesFinite
<1>4. MatchSet(S \cup {x}) = MatchSet(S) \cup own
  BY DEF MatchSet
<1>5. MatchSet(S) \cap own = {}
  BY DEF MatchSet
<1>6. Cardinality(MatchSet(S) \cup own) = Cardinality(MatchSet(S)) + Cardinality(own) - Cardinality({})
  BY <1>2, <1>3, <1>5, FS_Union
<1>7. MatchesOf(S) = Cardinality(MatchSet(S)) /\ MatchesOf(S \cup {x}) = Cardinality(MatchSet(S \cup {x}))
  BY DEF MatchesOf, MatchSet
<1>8. Cardinality({}) = 0
  BY FS_EmptySet
<1>9. MatchesOf(S \cup {x}) = MatchesOf(S) + x.count - 0
  BY <1>2, <1>4, <1>6, <1>7, <1>8
<1> HIDE DEF own
<1> QED
  BY <1>3, <1>9

\* No fragment, no match.
LEMMA MatchesNone == MatchesOf({}) = 0
  BY FS_EmptySet DEF MatchesOf

-------------------------------------------------------------------------------
\* What a node's first k fragments hold.
UptoSet(n, k) == UNION {{i} \X (1..Counts[n][i]) : i \in 1..k}

\* Upto is the running sum of a node's counts.
LEMMA UptoFacts ==
  ASSUME RemoteAssumption, NEW n \in Nodes, NEW k \in 0..Len(Counts[n])
  PROVE  /\ IsFiniteSet(UptoSet(n, k)) /\ Upto(n, k) \in Nat
         /\ k > 0 => Upto(n, k) = Upto(n, k - 1) + Counts[n][k]
         /\ \A j \in 0..k : Upto(n, j) \in Nat /\ Upto(n, j) <= Upto(n, k)
<1> DEFINE c == Counts[n]
<1>1. c \in Seq(Nat \ {0}) /\ Len(c) \in Nat /\ \A i \in 1..Len(c) : c[i] \in Nat \ {0}
  BY DEF RemoteAssumption
<1>2. \A i \in 1..Len(c) : IsFiniteSet({i} \X (1..c[i])) /\ Cardinality({i} \X (1..c[i])) = c[i]
  <2> TAKE i \in 1..Len(c)
  <2>1. IsFiniteSet({i}) /\ Cardinality({i}) = 1
    BY FS_Singleton
  <2>2. IsFiniteSet(1..c[i]) /\ Cardinality(1..c[i]) = c[i]
    BY <1>1, RangeFinite
  <2>3. Cardinality({i} \X (1..c[i])) = Cardinality({i}) * Cardinality(1..c[i]) /\ IsFiniteSet({i} \X (1..c[i]))
    BY <2>1, <2>2, FS_Product
  <2> QED
    BY <1>1, <2>1, <2>2, <2>3
<1>3. \A j \in 0..Len(c) : IsFiniteSet(UptoSet(n, j)) /\ Upto(n, j) \in Nat
  <2> TAKE j \in 0..Len(c)
  <2> DEFINE g == [i \in 1..j |-> {i} \X (1..c[i])]
             T == {g[i] : i \in 1..j}
  <2>1. IsFiniteSet(1..j)
    BY <1>1, FS_Interval
  <2>2. g \in Surjection(1..j, T)
    BY DEF Surjection
  <2>3. IsFiniteSet(T)
    BY <2>1, <2>2, FS_Surjection
  <2>4. \A t \in T : IsFiniteSet(t)
    <3> SUFFICES ASSUME NEW i \in 1..j PROVE IsFiniteSet(g[i])
      OBVIOUS
    <3>1. i \in 1..Len(c)
      BY <1>1
    <3> QED
      BY <1>2, <3>1
  <2>5. IsFiniteSet(UNION T)
    BY <2>3, <2>4, FS_UNION
  <2>6. UNION T = UptoSet(n, j)
    BY DEF UptoSet
  <2> QED
    BY <2>5, <2>6, FS_CardinalityType DEF Upto, UptoSet
<1>4. \A j \in 0..k : Upto(n, j) <= Upto(n, k)
  <2> TAKE j \in 0..k
  <2>1. UptoSet(n, j) \in SUBSET UptoSet(n, k)
    BY <1>1 DEF UptoSet
  <2> QED
    BY <1>3, <2>1, FS_Subset DEF Upto, UptoSet
<1>5. ASSUME k > 0 PROVE Upto(n, k) = Upto(n, k - 1) + c[k]
  <2> DEFINE own == {k} \X (1..c[k])
  <2>1. IsFiniteSet(UptoSet(n, k - 1)) /\ Upto(n, k - 1) \in Nat
    BY <1>1, <1>3, <1>5
  <2>2. IsFiniteSet(own) /\ Cardinality(own) = c[k] /\ c[k] \in Nat
    BY <1>1, <1>2, <1>5
  <2>3. UptoSet(n, k) = UptoSet(n, k - 1) \cup own
    <3>1. 1..k = (1..(k - 1)) \cup {k}
      BY <1>1, <1>5
    <3> QED
      BY <3>1, SMTT(60) DEF UptoSet
  <2>4. UptoSet(n, k - 1) \cap own = {}
    BY <1>1 DEF UptoSet
  <2>5. Cardinality(UptoSet(n, k - 1) \cup own) = Cardinality(UptoSet(n, k - 1)) + Cardinality(own) - Cardinality({})
    BY <2>1, <2>2, <2>4, FS_Union
  <2>6. \A j \in {k - 1, k} : Upto(n, j) = Cardinality(UptoSet(n, j))
    BY DEF Upto, UptoSet
  <2>7. Cardinality({}) = 0
    BY FS_EmptySet
  <2>8. Upto(n, k) = Upto(n, k - 1) + c[k] - 0
    BY <2>2, <2>3, <2>5, <2>6, <2>7
  <2> HIDE DEF own, c
  <2> QED
    BY <2>1, <2>2, <2>8
<1> QED
  BY <1>1, <1>3, <1>4, <1>5

\* ... which starts at nothing.
LEMMA UptoNothing == \A n : Upto(n, 0) = 0
<1> TAKE n
<1>1. 1..0 = {}
  OBVIOUS
<1>2. UNION {{i} \X (1..Counts[n][i]) : i \in 1..0} = {}
  BY <1>1
<1> QED
  BY <1>2, FS_EmptySet DEF Upto

-------------------------------------------------------------------------------
\* The fragments of a case.
CaseFacts == mode \in Modes /\ RemoteAssumption

\* The constants, as the case at hand uses them.
LEMMA CapType ==
  ASSUME CaseFacts
  PROVE  mode.cap \in Nat /\ mode.nodes \in SUBSET Nodes /\ IsFiniteSet(mode.nodes) /\ Cardinality(mode.nodes) \in Nat
<1>1. mode.cap \in Nat /\ mode.nodes \in SUBSET Nodes
  BY DEF CaseFacts, RemoteAssumption
<1>2. IsFiniteSet(mode.nodes)
  BY <1>1, FS_Subset DEF CaseFacts, RemoteAssumption
<1> QED
  BY <1>1, <1>2, FS_CardinalityType

\* What a node's files hold.
LEMMA CountsType ==
  ASSUME CaseFacts, NEW n \in Nodes
  PROVE  Len(Counts[n]) \in Nat /\ \A k \in 1..Len(Counts[n]) : Counts[n][k] \in Nat \ {0}
BY DEF CaseFacts, RemoteAssumption

\* A node sends a first stretch of its fragments, each of at least one match.
LEMMA SendsFacts ==
  ASSUME CaseFacts, NEW n \in Nodes
  PROVE  /\ Sends(n) \in SUBSET (1..Len(Counts[n]))
         /\ \A k \in Sends(n) : Matches(n, k) \in Nat \ {0}
         /\ \A k \in Sends(n) : \A j \in 1..k : j \in Sends(n)
<1>1. Len(Counts[n]) \in Nat /\ \A k \in 1..Len(Counts[n]) : Counts[n][k] \in Nat \ {0}
  BY CountsType
<1>2. mode.cap \in Nat
  BY CapType
<1>3. Sends(n) \in SUBSET (1..Len(Counts[n]))
  BY DEF Sends
<1>4. ASSUME NEW k \in Sends(n) PROVE Matches(n, k) \in Nat \ {0}
  <2>1. k \in 1..Len(Counts[n]) /\ k \in 0..Len(Counts[n]) /\ k - 1 \in 0..k
    BY <1>1, <1>3
  <2>2. Upto(n, k - 1) \in Nat
    BY <2>1, UptoFacts DEF CaseFacts
  <2>3. Capped => Upto(n, k - 1) < mode.cap
    BY DEF Sends
  <2> QED
    BY <1>1, <1>2, <2>1, <2>2, <2>3 DEF Matches
<1>5. ASSUME NEW k \in Sends(n), NEW j \in 1..k PROVE j \in Sends(n)
  <2>1. k \in 1..Len(Counts[n]) /\ j \in 1..Len(Counts[n]) /\ k - 1 \in 0..Len(Counts[n]) /\ j - 1 \in 0..(k - 1)
    BY <1>1, <1>3
  <2>2. Upto(n, j - 1) \in Nat /\ Upto(n, k - 1) \in Nat /\ Upto(n, j - 1) <= Upto(n, k - 1)
    <3>1. k - 1 \in 0..(k - 1)
      BY <2>1
    <3> QED
      BY <2>1, <3>1, UptoFacts DEF CaseFacts
  <2>3. Capped => Upto(n, k - 1) < mode.cap
    BY DEF Sends
  <2> QED
    BY <1>2, <2>1, <2>2, <2>3 DEF Sends
<1> QED
  BY <1>3, <1>4, <1>5

\* A fragment is known by its node and its place.
LEMMA FragmentFacts ==
  ASSUME CaseFacts, NEW n \in mode.nodes, NEW k \in Sends(n)
  PROVE  /\ Fragment(n, k) \in Fragments /\ Fragment(n, k) \in Rendered
         /\ Fragment(n, k).type = "rendered" /\ Fragment(n, k).node = n /\ Fragment(n, k).seq = k
         /\ Fragment(n, k).count = Matches(n, k)
<1>1. n \in Nodes
  BY CapType
<1>2. k \in Nat /\ Matches(n, k) \in Nat
  BY <1>1, SendsFacts, CountsType
<1>3. Fragment(n, k) \in Fragments
  BY DEF Fragments
<1> QED
  BY <1>1, <1>2, <1>3 DEF Fragment, Rendered

\* What a member of Fragments is.
LEMMA OfFragments ==
  ASSUME CaseFacts, NEW f \in Fragments
  PROVE  /\ f.node \in mode.nodes /\ f.node \in Nodes /\ f.seq \in Sends(f.node) /\ f = Fragment(f.node, f.seq)
         /\ f \in Rendered /\ f.count \in Nat \ {0} /\ f.seq \in Nat \ {0} /\ f # None /\ f # Gone /\ f.type = "rendered"
<1>0. PICK n \in mode.nodes : \E k \in Sends(n) : f = Fragment(n, k)
  BY DEF Fragments
<1>1. PICK k \in Sends(n) : f = Fragment(n, k)
  BY <1>0
<1>2. f.node = n /\ f.seq = k /\ f \in Rendered /\ f.count = Matches(n, k) /\ f.type = "rendered"
  BY <1>1, FragmentFacts
<1>3. n \in Nodes
  BY CapType
<1>4. Matches(n, k) \in Nat \ {0} /\ k \in Nat \ {0}
  BY <1>3, SendsFacts, CountsType
<1>5. f # None /\ f # Gone
  BY <1>2 DEF Rendered, CaseFacts, RemoteAssumption
<1> QED
  BY <1>1, <1>2, <1>3, <1>4, <1>5

\* There are finitely many fragments.
LEMMA FragmentsFinite ==
  ASSUME CaseFacts
  PROVE  IsFiniteSet(Fragments) /\ \A f \in Fragments : f.count \in Nat
<1>1. \A n \in mode.nodes : IsFiniteSet({Fragment(n, k) : k \in Sends(n)})
  <2> TAKE n \in mode.nodes
  <2>1. IsFiniteSet(Sends(n))
    <3>1. IsFiniteSet(1..Len(Counts[n])) /\ Sends(n) \in SUBSET (1..Len(Counts[n]))
      BY CapType, CountsType, SendsFacts, RangeFinite
    <3> QED
      BY <3>1, FS_Subset
  <2> DEFINE g == [k \in Sends(n) |-> Fragment(n, k)]
  <2>2. g \in Surjection(Sends(n), {Fragment(n, k) : k \in Sends(n)})
    BY DEF Surjection
  <2> QED
    BY <2>1, <2>2, FS_Surjection
<1> DEFINE h == [n \in mode.nodes |-> {Fragment(n, k) : k \in Sends(n)}]
           T == {h[n] : n \in mode.nodes}
<1>2. h \in Surjection(mode.nodes, T)
  BY DEF Surjection
<1>3. IsFiniteSet(T)
  BY <1>2, CapType, FS_Surjection
<1>4. IsFiniteSet(UNION T)
  BY <1>1, <1>3, FS_UNION
<1>5. UNION T = Fragments
  BY ZenonT(90) DEF Fragments
<1> QED
  BY <1>4, <1>5, OfFragments

\* What one node sends under a cap is no more than the cap: the matches of its
\* fragments are counted one after the other, and never past it.
LEMMA MatchesBound ==
  ASSUME CaseFacts, NEW n \in mode.nodes, NEW k \in Sends(n)
  PROVE  /\ Upto(n, k - 1) \in Nat /\ Matches(n, k) \in Nat
         /\ Upto(n, k - 1) + Matches(n, k) <= Upto(n, k)
         /\ Capped => Upto(n, k - 1) + Matches(n, k) <= mode.cap
<1>1. n \in Nodes /\ mode.cap \in Nat
  BY CapType
<1>2. k \in 1..Len(Counts[n]) /\ k \in 0..Len(Counts[n]) /\ k > 0 /\ k - 1 \in 0..k /\ k \in 0..k
  BY <1>1, SendsFacts, CountsType
<1>3. Upto(n, k) \in Nat /\ Upto(n, k - 1) \in Nat /\ Upto(n, k) = Upto(n, k - 1) + Counts[n][k]
  BY <1>1, <1>2, UptoFacts DEF CaseFacts
<1>4. Counts[n][k] \in Nat \ {0}
  BY <1>1, <1>2, CountsType
<1>5. Matches(n, k) \in Nat
  BY <1>1, SendsFacts
<1> QED
  BY <1>1, <1>3, <1>4, <1>5 DEF Matches, Capped

\* A single node never sends more than the cap (the count its own agent keeps).
LEMMA OneNodeWithinCap ==
  ASSUME CaseFacts, Capped, NEW n, mode.nodes = {n}
  PROVE  MatchesOf(Fragments) <= mode.cap
<1> DEFINE M == MatchSet(Fragments)
           place == [x \in M |-> Upto(n, x[1].seq - 1) + x[2]]
<1>1. mode.cap \in Nat /\ n \in mode.nodes /\ n \in Nodes
  BY CapType
<1>2. ASSUME NEW x \in M
      PROVE  /\ x = <<x[1], x[2]>> /\ x[1] \in Fragments /\ x[1].seq \in Sends(n) /\ x[1].seq \in Nat \ {0}
             /\ x[1] = Fragment(n, x[1].seq) /\ x[2] \in 1..Matches(n, x[1].seq)
  <2>1. x = <<x[1], x[2]>> /\ x[1] \in Fragments /\ x[2] \in 1..x[1].count
    BY DEF MatchSet
  <2>2. x[1].node = n /\ x[1].seq \in Sends(n) /\ x[1].seq \in Nat \ {0} /\ x[1] = Fragment(n, x[1].seq)
    BY <2>1, OfFragments
  <2>3. x[1].count = Matches(n, x[1].seq)
    BY <1>1, <2>2, FragmentFacts
  <2> QED
    BY <2>1, <2>2, <2>3
<1>3. ASSUME NEW x \in M PROVE place[x] \in 1..mode.cap
  <2> DEFINE k == x[1].seq
  <2>1. k \in Sends(n) /\ x[2] \in 1..Matches(n, k)
    BY <1>2
  <2>2. Upto(n, k - 1) \in Nat /\ Matches(n, k) \in Nat /\ Upto(n, k - 1) + Matches(n, k) <= mode.cap
    BY <1>1, <2>1, MatchesBound
  <2> QED
    BY <1>1, <2>1, <2>2
<1>4. ASSUME NEW x \in M, NEW y \in M, x[1].seq < y[1].seq PROVE place[x] < place[y]
  <2> DEFINE k == x[1].seq
             l == y[1].seq
  <2>1. k \in Sends(n) /\ l \in Sends(n) /\ k \in Nat \ {0} /\ l \in Nat \ {0}
        /\ x[2] \in 1..Matches(n, k) /\ y[2] \in 1..Matches(n, l)
    BY <1>2
  <2>2. /\ Upto(n, k - 1) \in Nat /\ Matches(n, k) \in Nat /\ Upto(n, l - 1) \in Nat /\ Matches(n, l) \in Nat
        /\ Upto(n, k - 1) + Matches(n, k) <= Upto(n, k)
    BY <1>1, <2>1, MatchesBound
  <2>3. Upto(n, k) \in Nat /\ Upto(n, k) <= Upto(n, l - 1)
    <3>1. l - 1 \in 0..Len(Counts[n]) /\ k \in 0..(l - 1)
      BY <1>1, <1>4, <2>1, SendsFacts, CountsType, SMTT(60)
    <3> QED
      BY <1>1, <3>1, UptoFacts DEF CaseFacts
  <2>4. place[x] = Upto(n, k - 1) + x[2] /\ place[y] = Upto(n, l - 1) + y[2]
    OBVIOUS
  <2> HIDE DEF place, M, k, l
  <2> QED
    BY <2>1, <2>2, <2>3, <2>4
<1>5. ASSUME NEW x \in M, NEW y \in M, place[x] = place[y] PROVE x = y
  <2>1. x[1].seq = y[1].seq
    <3>1. place[x] \in Int /\ place[y] \in Int /\ x[1].seq \in Nat /\ y[1].seq \in Nat
      BY <1>2, <1>3
    <3> HIDE DEF place, M
    <3> QED
      BY <1>4, <1>5, <3>1
  <2>2. x[2] \in Nat /\ y[2] \in Nat /\ Upto(n, x[1].seq - 1) \in Nat
    <3>1. x[1].seq \in Sends(n) /\ x[2] \in 1..Matches(n, x[1].seq) /\ y[2] \in 1..Matches(n, y[1].seq)
      BY <1>2
    <3> QED
      BY <1>1, <3>1, MatchesBound
  <2>3. Upto(n, x[1].seq - 1) + x[2] = Upto(n, x[1].seq - 1) + y[2]
    BY <1>5, <2>1
  <2>4. x[2] = y[2]
    BY <2>2, <2>3
  <2>5. x = <<x[1], x[2]>> /\ y = <<y[1], y[2]>> /\ x[1] = y[1]
    BY <1>2, <2>1
  <2> QED
    BY <2>4, <2>5
<1>6. place \in Injection(M, 1..mode.cap)
  <2>1. place \in [M -> 1..mode.cap]
    BY <1>3
  <2>2. \A x, y \in M : place[x] = place[y] => x = y
    BY <1>5
  <2> HIDE DEF place, M
  <2> QED
    BY <2>1, <2>2, Fun_IsInj
<1>7. IsFiniteSet(1..mode.cap) /\ Cardinality(1..mode.cap) = mode.cap
  BY <1>1, RangeFinite
<1>8. Cardinality(M) <= mode.cap
  <2> HIDE DEF place, M
  <2> QED
    BY <1>6, <1>7, FS_Injection
<1> QED
  BY <1>8 DEF MatchesOf, MatchSet

\* A finite set of numbers that is not empty has a largest one.
LEMMA MaxExists ==
  ASSUME NEW S \in SUBSET Nat, IsFiniteSet(S), S # {}
  PROVE  \E x \in S : \A y \in S : x >= y
<1> DEFINE Above(x) == {y \in S : y > x}
           T == {Above(x) : x \in S}
<1>1. T \in SUBSET FiniteSubsetsOf(S) /\ T # {}
  <2>1. FiniteSubsetsOf(S) = SUBSET S
    BY FS_FiniteSubsetsOfFinite
  <2>2. T \subseteq SUBSET S /\ T # {}
    OBVIOUS
  <2> HIDE DEF T
  <2> QED
    BY <2>1, <2>2
<1>2. PICK t \in T : \A u \in T : ~(<<u, t>> \in StrictSubsetOrdering(S))
  <2>1. IsWellFoundedOn(StrictSubsetOrdering(S), FiniteSubsetsOf(S))
    BY FS_StrictSubsetOrderingWellFounded
  <2> HIDE DEF T
  <2> QED
    BY <1>1, <2>1, WFMin
<1>3. PICK x \in S : t = Above(x)
  BY <1>2
<1>4. ASSUME NEW y \in S, y > x PROVE FALSE
  <2>0. x \in Nat /\ y \in Nat /\ \A z \in S : z \in Nat
    OBVIOUS
  <2>1. Above(y) \subseteq Above(x) /\ y \in Above(x) /\ y \notin Above(y)
    <3>1. \A z \in S : z > y => z > x
      BY <1>4, <2>0
    <3>2. ~(y > y)
      BY <2>0
    <3> QED
      BY <1>4, <3>1, <3>2
  <2>2. <<Above(y), Above(x)>> \in StrictSubsetOrdering(S)
    BY <2>1 DEF StrictSubsetOrdering
  <2> QED
    BY <1>2, <1>3, <2>2
<1>5. \A y \in S : x >= y
  <2> TAKE y \in S
  <2>1. x \in Nat /\ y \in Nat /\ ~(y > x)
    BY <1>4
  <2> HIDE DEF T, Above
  <2> QED
    BY <2>1, SMT
<1> QED
  BY <1>5

\* Largest bounds the matches of a fragment.
LEMMA LargestFacts ==
  ASSUME CaseFacts
  PROVE  Largest \in Nat /\ \A f \in Fragments : f.count <= Largest
<1> DEFINE C == {f.count : f \in Fragments} \cup {0}
           g == [f \in Fragments |-> f.count]
           R == {g[f] : f \in Fragments}
<1>1. g \in Surjection(Fragments, R)
  BY DEF Surjection
<1>2. IsFiniteSet(R)
  BY <1>1, FragmentsFinite, FS_Surjection
<1>3. R \cup {0} = C
  OBVIOUS
<1>4. IsFiniteSet(C) /\ C \in SUBSET Nat /\ C # {}
  BY <1>2, <1>3, FragmentsFinite, FS_AddElement
<1>5. \E x \in C : \A y \in C : x >= y
  <2> HIDE DEF C
  <2> QED
    BY <1>4, MaxExists
<1>6. Largest = CHOOSE x \in C : \A y \in C : x >= y
  BY DEF Largest, Max
<1>7. Largest \in C /\ \A y \in C : Largest >= y
  <2> HIDE DEF C
  <2> QED
    BY <1>5, <1>6
<1> QED
  BY <1>4, <1>7

-------------------------------------------------------------------------------
Frames(n) == [type : Kinds] \cup {Fragment(n, k) : k \in Sends(n)}
Holds(n)  == ses[n].pc \in {"send", "claim"}

\* A node's process and its pipes.
AgentTypes ==
  /\ agent \in [Nodes -> [pc : AgentPcs, sent : Nat]]
  /\ fault \in [Nodes -> NodeFaults \cup {"none"}]
  /\ inbox \in [Nodes -> SUBSET {"hello", "job"}]
  /\ out \in [Nodes -> Seq([type : Kinds] \cup Rendered)]
  /\ \A n \in Nodes : out[n] \in Seq(Frames(n)) /\ Len(out[n]) <= Pipe

SesRecord == [pc : SesPcs, held : Rendered \cup {None}, failed : BOOLEAN]

SessionTypes ==
  /\ ses \in [Nodes -> SesRecord]
  /\ \A n \in Nodes : IF Holds(n) THEN ses[n].held \in Fragments /\ ses[n].held.node = n ELSE ses[n].held = None
  /\ \A n \in Nodes : n \notin mode.nodes => ses[n].pc = "joined" /\ agent[n].pc = "off"
  /\ pushed \in SUBSET mode.nodes /\ failures \in SUBSET mode.nodes /\ claimed \in Nat

SinkTypes ==
  /\ chan \in Seq(Fragments) /\ Len(chan) <= Window
  /\ fwd \in Fragments \cup {None, Gone}
  /\ sink \in Seq(Fragments) /\ Len(sink) <= Window
  /\ printed \in SUBSET Fragments
  /\ printer \in {"printing", "failed"} /\ exit \in {"none", "ok", "incomplete", "error"}

Types == mode \in Modes /\ AgentTypes /\ SessionTypes /\ SinkTypes

\* The case is chosen once.
LEMMA SameCase ==
  ASSUME mode' = mode
  PROVE  /\ Fragments' = Fragments /\ Capped' = Capped /\ Largest' = Largest
         /\ \A n : Sends(n)' = Sends(n) /\ Frames(n)' = Frames(n) /\ \A k : Fragment(n, k)' = Fragment(n, k)
<1>1. Capped' = Capped
  BY DEF Capped
<1>2. \A n, k : Upto(n, k)' = Upto(n, k)
  BY DEF Upto
<1>3. \A n, k : Fragment(n, k)' = Fragment(n, k)
  BY <1>1, <1>2 DEF Fragment, Matches
<1>4. \A n : Sends(n)' = Sends(n)
  BY <1>1, <1>2 DEF Sends
<1>5. Fragments' = Fragments
  BY <1>3, <1>4 DEF Fragments
<1>6. \A n : Frames(n)' = Frames(n)
  BY <1>3, <1>4 DEF Frames
<1>7. Largest' = Largest
  BY <1>5 DEF Largest
<1> QED
  BY <1>1, <1>3, <1>4, <1>5, <1>6, <1>7

\* The types hold at the start.
LEMMA InitTypes == RemoteAssumption /\ Init => Types
<1> SUFFICES ASSUME RemoteAssumption, Init PROVE Types
  OBVIOUS
<1>1. CaseFacts
  BY DEF Init, CaseFacts
<1>2. mode.nodes \in SUBSET Nodes
  BY <1>1, CapType
<1>3. AgentTypes
  BY DEF Init, AgentTypes, AgentPcs, RemoteAssumption
<1>4. SessionTypes
  BY <1>2 DEF Init, SessionTypes, SesRecord, SesPcs, Holds
<1>5. SinkTypes
  BY DEF Init, SinkTypes, RemoteAssumption
<1> QED
  BY <1>1, <1>3, <1>4, <1>5 DEF Types, CaseFacts

\* Writing a frame of the node, and reading one.
LEMMA WriteKeeps ==
  ASSUME RemoteAssumption, AgentTypes, NEW n \in Nodes, NEW frame \in Frames(n), frame \in [type : Kinds] \cup Rendered,
         mode' = mode, Write(n, frame)
  PROVE  /\ out' \in [Nodes -> Seq([type : Kinds] \cup Rendered)]
         /\ \A m \in Nodes : out'[m] \in Seq(Frames(m)) /\ Len(out'[m]) <= Pipe
         /\ out' = [out EXCEPT ![n] = Append(@, frame)]
<1>1. out' = [out EXCEPT ![n] = Append(@, frame)] /\ Len(out[n]) < Pipe
  BY DEF Write, Room
<1>2. Append(out[n], frame) \in Seq([type : Kinds] \cup Rendered)
  BY AppendProperties DEF AgentTypes
<1>3. Append(out[n], frame) \in Seq(Frames(n)) /\ Len(Append(out[n], frame)) = Len(out[n]) + 1
  BY AppendProperties DEF AgentTypes
<1>4. Len(out[n]) \in Nat /\ Pipe \in Nat
  BY LenProperties DEF AgentTypes, RemoteAssumption
<1> QED
  BY <1>1, <1>2, <1>3, <1>4, SMTT(60) DEF AgentTypes

\* Reading a frame leaves a pipe of the node's frames.
LEMMA ReadKeeps ==
  ASSUME RemoteAssumption, AgentTypes, NEW n \in Nodes, out[n] # <<>>,
         mode' = mode, out' = [out EXCEPT ![n] = Tail(@)]
  PROVE  /\ out' \in [Nodes -> Seq([type : Kinds] \cup Rendered)]
         /\ \A m \in Nodes : out'[m] \in Seq(Frames(m)) /\ Len(out'[m]) <= Pipe
         /\ Head(out[n]) \in Frames(n) /\ Head(out[n]) \in [type : Kinds] \cup Rendered
<1>1. Tail(out[n]) \in Seq([type : Kinds] \cup Rendered) /\ Head(out[n]) \in [type : Kinds] \cup Rendered
  BY HeadTailProperties DEF AgentTypes
<1>2. Tail(out[n]) \in Seq(Frames(n)) /\ Head(out[n]) \in Frames(n) /\ Len(Tail(out[n])) = Len(out[n]) - 1
  BY HeadTailProperties DEF AgentTypes
<1>3. Len(out[n]) \in Nat /\ Pipe \in Nat
  BY LenProperties DEF AgentTypes, RemoteAssumption
<1> QED
  BY <1>1, <1>2, <1>3 DEF AgentTypes

\* The frames that are no fragments.
LEMMA AgentFrame ==
  ASSUME NEW n, NEW t \in Kinds
  PROVE  Frame(t) \in Frames(n) /\ Frame(t) \in [type : Kinds] \cup Rendered /\ Frame(t).type = t
BY DEF Frame, Frames

\* A step of an agent keeps the types.
LEMMA AgentKeepsTypes ==
  ASSUME RemoteAssumption, Types, NEW n \in Nodes, AgentAction(n)
  PROVE  Types'
<1> DEFINE rest == <<mode, ses, pushed, claimed, failures, chan, fwd, sinkVars>>
<1>0. UNCHANGED rest /\ mode' = mode
  BY DEF AgentAction
<1>1. agent[n].pc # "off" /\ n \in mode.nodes
  BY DEF Types, SessionTypes, AgentAction, AgentStep, AgentFault, AgentBeats, AgentHello, AgentJob,
     AgentEmits, AgentFinishes,
         AgentBye, AgentAborts, AgentDies, AgentWedges, Running
<1>2. CaseFacts
  BY DEF Types, CaseFacts
<1>3. agent' \in [Nodes -> [pc : AgentPcs, sent : Nat]] /\ \A m \in Nodes : m # n => agent'[m] = agent[m]
  <2>1. (\E pc \in AgentPcs : Goto(n, pc)) \/ agent' = [agent EXCEPT ![n].sent = @ + 1] \/ agent' = agent
    BY DEF AgentAction, AgentStep, AgentFault, AgentBeats, AgentHello, AgentJob, AgentEmits,
       AgentFinishes,
         AgentBye, AgentAborts, AgentDies, AgentWedges, AgentPcs
  <2>2. ASSUME NEW pc \in AgentPcs, Goto(n, pc)
        PROVE  agent' \in [Nodes -> [pc : AgentPcs, sent : Nat]] /\ \A m \in Nodes : m # n => agent'[m] = agent[m]
    BY <2>2, ZenonT(90) DEF Types, AgentTypes, Goto
  <2>3. CASE agent' = [agent EXCEPT ![n].sent = @ + 1]
    <3>1. agent \in [Nodes -> [pc : AgentPcs, sent : Nat]] /\ agent[n].sent + 1 \in Nat
      BY DEF Types, AgentTypes
    <3> QED
      BY <2>3, <3>1
  <2>4. CASE agent' = agent
    BY <2>4 DEF Types, AgentTypes
  <2> QED
    BY <2>1, <2>2, <2>3, <2>4
<1>4. fault' \in [Nodes -> NodeFaults \cup {"none"}]
  <2>1. fault' = fault \/ \E f \in NodeFaults : fault' = [fault EXCEPT ![n] = f]
    BY DEF AgentAction, AgentStep, AgentFault, AgentBeats, AgentHello, AgentJob, AgentEmits,
       AgentFinishes,
         AgentBye, AgentAborts, AgentDies, AgentWedges, Strikes, NodeFaults
  <2> QED
    BY <2>1, ZenonT(90) DEF Types, AgentTypes
<1>5. inbox' \in [Nodes -> SUBSET {"hello", "job"}]
  <2>1. inbox' = inbox \/ \E x : inbox' = [inbox EXCEPT ![n] = @ \ {x}]
    BY DEF AgentAction, AgentStep, AgentFault, AgentBeats, AgentHello, AgentJob, AgentEmits,
       AgentFinishes,
         AgentBye, AgentAborts, AgentDies, AgentWedges
  <2> QED
    BY <2>1, ZenonT(90) DEF Types, AgentTypes
<1>6. \/ out' = out
      \/ \E t \in Kinds : Write(n, Frame(t))
      \/ agent[n].sent + 1 \in Sends(n) /\ Write(n, Fragment(n, agent[n].sent + 1))
  BY DEF AgentAction, AgentStep, AgentFault, AgentBeats, AgentHello, AgentJob, AgentEmits,
     AgentFinishes,
         AgentBye, AgentAborts, AgentDies, AgentWedges, Kinds
<1>7. /\ out' \in [Nodes -> Seq([type : Kinds] \cup Rendered)]
      /\ \A m \in Nodes : out'[m] \in Seq(Frames(m)) /\ Len(out'[m]) <= Pipe
  <2>1. CASE out' = out
    BY <2>1 DEF Types, AgentTypes
  <2>2. CASE \E t \in Kinds : Write(n, Frame(t))
    BY <1>0, <2>2, AgentFrame, WriteKeeps DEF Types
  <2>3. CASE agent[n].sent + 1 \in Sends(n) /\ Write(n, Fragment(n, agent[n].sent + 1))
    <3> DEFINE frame == Fragment(n, agent[n].sent + 1)
    <3>1. frame \in Frames(n) /\ frame \in Rendered
      BY <1>1, <1>2, <2>3, FragmentFacts DEF Frames
    <3> HIDE DEF frame
    <3> QED
      BY <1>0, <2>3, <3>1, WriteKeeps DEF Types, frame
  <2> QED
    BY <1>6, <2>1, <2>2, <2>3
<1>8. AgentTypes'
  BY <1>0, <1>3, <1>4, <1>5, <1>7, SameCase DEF AgentTypes
<1>9. SessionTypes'
  BY <1>0, <1>1, <1>3, SameCase DEF Types, SessionTypes, Holds
<1>10. SinkTypes'
  BY <1>0, SameCase DEF Types, SinkTypes, sinkVars
<1> QED
  BY <1>0, <1>8, <1>9, <1>10 DEF Types

\* What the four kinds of assignment to a session make of it.
LEMMA SesMoves ==
  ASSUME ses \in [Nodes -> SesRecord], NEW n \in Nodes, NEW pc \in SesPcs, ses' = [ses EXCEPT ![n].pc = pc]
  PROVE  /\ ses' \in [Nodes -> SesRecord] /\ \A m \in Nodes : m # n => ses'[m] = ses[m]
         /\ ses'[n].pc = pc /\ ses'[n].held = ses[n].held /\ ses'[n].failed = ses[n].failed
BY DEF SesRecord

\* A session that takes or lets go of a fragment.
LEMMA SesHolds ==
  ASSUME ses \in [Nodes -> SesRecord], NEW n \in Nodes, NEW pc \in SesPcs, NEW h \in Rendered \cup {None},
         ses' = [ses EXCEPT ![n].pc = pc, ![n].held = h]
  PROVE  /\ ses' \in [Nodes -> SesRecord] /\ \A m \in Nodes : m # n => ses'[m] = ses[m]
         /\ ses'[n].pc = pc /\ ses'[n].held = h /\ ses'[n].failed = ses[n].failed
<1>1. ses' \in [Nodes -> SesRecord]
  BY ZenonT(90) DEF SesRecord
<1>2. \A m \in Nodes : m # n => ses'[m] = ses[m]
  BY DEF SesRecord
<1>3. ses'[n].pc = pc /\ ses'[n].held = h /\ ses'[n].failed = ses[n].failed
  BY DEF SesRecord
<1> QED
  BY <1>1, <1>2, <1>3

\* A session that ends.
LEMMA SesEnds ==
  ASSUME ses \in [Nodes -> SesRecord], NEW n \in Nodes, NEW pc \in SesPcs, NEW b \in BOOLEAN,
         ses' = [ses EXCEPT ![n].pc = pc, ![n].failed = b]
  PROVE  /\ ses' \in [Nodes -> SesRecord] /\ \A m \in Nodes : m # n => ses'[m] = ses[m]
         /\ ses'[n].pc = pc /\ ses'[n].held = ses[n].held /\ ses'[n].failed = b
<1>1. ses' \in [Nodes -> SesRecord]
  BY ZenonT(90) DEF SesRecord
<1>2. \A m \in Nodes : m # n => ses'[m] = ses[m]
  BY DEF SesRecord
<1>3. ses'[n].pc = pc /\ ses'[n].held = ses[n].held /\ ses'[n].failed = b
  BY DEF SesRecord
<1> QED
  BY <1>1, <1>2, <1>3

\* A session that fails.
LEMMA SesFails ==
  ASSUME ses \in [Nodes -> SesRecord], NEW n \in Nodes, Fails(n)
  PROVE  /\ ses' \in [Nodes -> SesRecord] /\ \A m \in Nodes : m # n => ses'[m] = ses[m]
         /\ ses'[n].pc = "cleanup" /\ ses'[n].held = None /\ ses'[n].failed = TRUE
<1>1. ses' \in [Nodes -> SesRecord]
  BY ZenonT(90) DEF SesRecord, Fails, SesPcs
<1>2. \A m \in Nodes : m # n => ses'[m] = ses[m]
  BY DEF SesRecord, Fails
<1>3. ses'[n].pc = "cleanup" /\ ses'[n].held = None /\ ses'[n].failed = TRUE
  BY DEF SesRecord, Fails
<1> QED
  BY <1>1, <1>2, <1>3

\* What a step of a session may do to it.
Takes(n) ==
  /\ At(n, "drain") /\ out[n] # <<>> /\ Head(out[n]).type = "rendered"
  /\ ses' = [ses EXCEPT ![n].pc = "send", ![n].held = Head(out[n])]
Lets(n) == Holds(n) /\ \E pc \in {"drain", "wait"} : ses' = [ses EXCEPT ![n].pc = pc, ![n].held = None]
Ends(n) == At(n, "wait") /\ \E b \in BOOLEAN : ses' = [ses EXCEPT ![n].pc = "cleanup", ![n].failed = b]
Goes(n) == \E pc \in SesPcs \ {"send", "claim", "dial"} : ~Holds(n) /\ Moves(n, pc)

\* Every step of a session, by the assignments it is made of.
LEMMA SessionShape ==
  ASSUME NEW n, SessionAction(n)
  PROVE  /\ ses' = ses \/ Goes(n) \/ Takes(n) \/ Lets(n) \/ Ends(n) \/ (~Holds(n) /\ Fails(n)) \/ (At(n, "send") /\ Moves(n, "claim"))
         /\ agent' = agent \/ (\E pc \in {"loader", "hello"} : Goto(n, pc)) \/ Reaps(n)
         /\ fault' = fault \/ \E f \in NodeFaults : fault' = [fault EXCEPT ![n] = f]
         /\ inbox' = inbox \/ \E x \in {"hello", "job"} : inbox' = [inbox EXCEPT ![n] = @ \cup {x}]
         /\ out' = out \/ (out[n] # <<>> /\ out' = [out EXCEPT ![n] = Tail(@)])
         /\ pushed' = pushed \/ pushed' = pushed \cup {n} \/ pushed' = pushed \ {n}
         /\ failures' = failures \/ failures' = failures \cup {n}
         /\ claimed' = claimed \/ (At(n, "claim") /\ claimed' = claimed + ses[n].held.count)
         /\ chan' = chan \/ (At(n, "send") /\ Len(chan) < Window /\ chan' = Append(chan, ses[n].held))
         /\ ses[n].pc # "joined"
         /\ UNCHANGED <<mode, fwd, sink, printed, printer, exit>>
<1> USE DEF SessionAction, SessionStep, sinkVars, nodeVars, At
<1>1. CASE Dial(n)
  BY <1>1 DEF Dial, Goes, Holds, SesPcs, Strikes, NodeFaults
<1>2. CASE Exec(n)
  BY <1>2 DEF Exec, Goes, Holds, SesPcs, Strikes, NodeFaults
<1>3. CASE Preamble(n)
  BY <1>3 DEF Preamble, Goes, Holds, SesPcs
<1>4. CASE SendHello(n)
  BY <1>4 DEF SendHello, Goes, Holds, SesPcs
<1>5. CASE ReadWelcome(n)
  BY <1>5 DEF ReadWelcome, Goes, Holds, SesPcs
<1>6. CASE HandshakeTimeout(n)
  BY <1>6 DEF HandshakeTimeout, Goes, Holds, SesPcs, Strikes, NodeFaults
<1>7. CASE SendJob(n)
  BY <1>7 DEF SendJob, Goes, Holds, SesPcs
<1>8. CASE Read(n)
  BY <1>8 DEF Read, Receive, Goes, Holds, Takes, SesPcs, Strikes, NodeFaults
<1>9. CASE ReadEof(n) \/ ReadTimeout(n)
  BY <1>9 DEF ReadEof, ReadTimeout, Holds
<1>10. CASE Send(n)
  BY <1>10 DEF Send, Lets, Holds
<1>11. CASE Claim(n)
  BY <1>11 DEF Claim, Lets, Holds
<1>12. CASE WaitExit(n)
  BY <1>12 DEF WaitExit, Ends
<1>13. CASE Cleanup(n)
  BY <1>13 DEF Cleanup, Goes, Holds, SesPcs
<1>14. CASE Record(n)
  BY <1>14 DEF Record, Goes, Holds, SesPcs
<1> QED
  BY <1>1, <1>2, <1>3, <1>4, <1>5, <1>6, <1>7, <1>8, <1>9, <1>10, <1>11, <1>12, <1>13, <1>14

\* A step of a session keeps the types.
LEMMA SessionKeepsTypes ==
  ASSUME RemoteAssumption, Types, NEW n \in Nodes, SessionAction(n)
  PROVE  Types'
<1>0. mode' = mode /\ CaseFacts /\ CaseFacts' /\ UNCHANGED <<fwd, sink, printed, printer, exit>>
  BY SessionShape DEF Types, CaseFacts
<1>1. n \in mode.nodes
  BY SessionShape DEF Types, SessionTypes
<1>2. agent' \in [Nodes -> [pc : AgentPcs, sent : Nat]] /\ \A m \in Nodes : m # n => agent'[m] = agent[m]
  <2>1. agent \in [Nodes -> [pc : AgentPcs, sent : Nat]]
    BY DEF Types, AgentTypes
  <2>2. ASSUME NEW pc \in AgentPcs, Goto(n, pc)
        PROVE  agent' \in [Nodes -> [pc : AgentPcs, sent : Nat]] /\ \A m \in Nodes : m # n => agent'[m] = agent[m]
    BY <2>1, <2>2 DEF Goto
  <2>3. CASE Reaps(n)
    BY <2>1, <2>3, ZenonT(90) DEF Reaps, AgentPcs
  <2>4. {"loader", "hello"} \subseteq AgentPcs
    BY DEF AgentPcs
  <2> QED
    BY <2>1, <2>2, <2>3, <2>4, SessionShape
<1>3. fault' \in [Nodes -> NodeFaults \cup {"none"}]
  BY SessionShape, ZenonT(90) DEF Types, AgentTypes
<1>4. inbox' \in [Nodes -> SUBSET {"hello", "job"}]
  <2>1. inbox' = inbox \/ \E x \in {"hello", "job"} : inbox' = [inbox EXCEPT ![n] = @ \cup {x}]
    BY SessionShape
  <2>2. inbox \in [Nodes -> SUBSET {"hello", "job"}]
    BY DEF Types, AgentTypes
  <2>3. ASSUME NEW x \in {"hello", "job"}, inbox' = [inbox EXCEPT ![n] = @ \cup {x}]
        PROVE  inbox' \in [Nodes -> SUBSET {"hello", "job"}]
    BY <2>2, <2>3
  <2> QED
    BY <2>1, <2>2, <2>3
<1>5. /\ out' \in [Nodes -> Seq([type : Kinds] \cup Rendered)]
      /\ \A m \in Nodes : out'[m] \in Seq(Frames(m)) /\ Len(out'[m]) <= Pipe
  <2>1. CASE out' = out
    BY <2>1 DEF Types, AgentTypes
  <2>2. CASE out[n] # <<>> /\ out' = [out EXCEPT ![n] = Tail(@)]
    BY <1>0, <2>2, ReadKeeps DEF Types
  <2> QED
    BY <2>1, <2>2, SessionShape
<1>6. AgentTypes'
  BY <1>0, <1>2, <1>3, <1>4, <1>5, SameCase DEF AgentTypes
<1>7. /\ ses' \in [Nodes -> SesRecord]
      /\ \A m \in Nodes : m # n => ses'[m] = ses[m]
      /\ IF ses'[n].pc \in {"send", "claim"}
         THEN ses'[n].held \in Fragments /\ ses'[n].held.node = n ELSE ses'[n].held = None
  <2>1. /\ ses \in [Nodes -> SesRecord]
        /\ IF Holds(n) THEN ses[n].held \in Fragments /\ ses[n].held.node = n ELSE ses[n].held = None
    BY DEF Types, SessionTypes
  <2>2. CASE Goes(n)
    <3>1. PICK pc \in SesPcs \ {"send", "claim", "dial"} : ~Holds(n) /\ ses' = [ses EXCEPT ![n].pc = pc]
      BY <2>2 DEF Goes, Moves
    <3> QED
      BY <2>1, <3>1, SesMoves
  <2>3. CASE Takes(n)
    <3> DEFINE f == Head(out[n])
    <3>1. out[n] # <<>> /\ f.type = "rendered" /\ ses' = [ses EXCEPT ![n].pc = "send", ![n].held = f]
      BY <2>3 DEF Takes
    <3>2. f \in Frames(n)
      BY <3>1, HeadTailProperties DEF Types, AgentTypes
    <3>3. PICK k \in Sends(n) : f = Fragment(n, k)
      <4>1. f \notin [type : Kinds]
        BY <3>1 DEF Kinds
      <4> QED
        BY <3>2, <4>1 DEF Frames
    <3>4. f \in Fragments /\ f.node = n /\ f \in Rendered
      BY <1>0, <1>1, <3>3, FragmentFacts
    <3> HIDE DEF f
    <3>5. PICK h : h = f
      OBVIOUS
    <3>6. "send" \in SesPcs /\ h \in Rendered \cup {None} /\ ses \in [Nodes -> SesRecord]
          /\ ses' = [ses EXCEPT ![n].pc = "send", ![n].held = h]
      BY <2>1, <3>1, <3>4, <3>5 DEF SesPcs
    <3>7. /\ ses' \in [Nodes -> SesRecord] /\ \A m \in Nodes : m # n => ses'[m] = ses[m]
          /\ ses'[n].pc = "send" /\ ses'[n].held = h
      <4>1. ses' \in [Nodes -> SesRecord]
        BY <3>6, ZenonT(90) DEF SesRecord
      <4>2. \A m \in Nodes : m # n => ses'[m] = ses[m]
        BY <3>6 DEF SesRecord
      <4>3. ses'[n].pc = "send" /\ ses'[n].held = h
        BY <3>6 DEF SesRecord
      <4> QED
        BY <4>1, <4>2, <4>3
    <3> QED
      BY <3>4, <3>5, <3>7
  <2>4. CASE Lets(n)
    <3>1. PICK pc \in {"drain", "wait"} : ses' = [ses EXCEPT ![n].pc = pc, ![n].held = None]
      BY <2>4 DEF Lets
    <3>2. pc \in SesPcs
      BY DEF SesPcs
    <3>3. /\ ses' \in [Nodes -> SesRecord] /\ \A m \in Nodes : m # n => ses'[m] = ses[m]
          /\ ses'[n].pc = pc /\ ses'[n].held = None
      BY <2>1, <3>1, <3>2, SesHolds, ZenonT(90)
    <3> QED
      BY <3>3
  <2>5. CASE Ends(n)
    <3>1. ses[n].held = None /\ "cleanup" \in SesPcs
      BY <2>1, <2>5 DEF Ends, At, Holds, SesPcs
    <3>2. PICK b \in BOOLEAN : ses' = [ses EXCEPT ![n].pc = "cleanup", ![n].failed = b]
      BY <2>5 DEF Ends
    <3>3. /\ ses' \in [Nodes -> SesRecord] /\ \A m \in Nodes : m # n => ses'[m] = ses[m]
          /\ ses'[n].pc = "cleanup" /\ ses'[n].held = ses[n].held
      BY <2>1, <3>1, <3>2, SesEnds
    <3> QED
      BY <3>1, <3>3
  <2>6. CASE Fails(n)
    BY <2>1, <2>6, SesFails
  <2>7. CASE At(n, "send") /\ Moves(n, "claim")
    <3>1. "claim" \in SesPcs /\ Holds(n)
      BY <2>7 DEF SesPcs, Holds, At
    <3> QED
      BY <2>1, <2>7, <3>1, SesMoves, ZenonT(90) DEF Moves
  <2>8. CASE ses' = ses
    BY <2>1, <2>8 DEF Holds
  <2> QED
    BY <2>2, <2>3, <2>4, <2>5, <2>6, <2>7, <2>8, SessionShape
<1>8. pushed' \in SUBSET mode.nodes /\ failures' \in SUBSET mode.nodes
  <2>1. /\ pushed' = pushed \/ pushed' = pushed \cup {n} \/ pushed' = pushed \ {n}
        /\ failures' = failures \/ failures' = failures \cup {n}
    BY SessionShape
  <2> QED
    BY <1>1, <2>1 DEF Types, SessionTypes
<1>9. claimed' \in Nat
  <2>1. CASE At(n, "claim") /\ claimed' = claimed + ses[n].held.count
    <3>1. ses[n].held \in Fragments
      BY <2>1 DEF At, Types, SessionTypes, Holds
    <3>2. ses[n].held.count \in Nat
      BY <1>0, <3>1, OfFragments
    <3> QED
      BY <2>1, <3>2 DEF Types, SessionTypes
  <2> QED
    BY <2>1, SessionShape DEF Types, SessionTypes
<1>10. SessionTypes'
  BY <1>0, <1>1, <1>2, <1>7, <1>8, <1>9, SameCase, ZenonT(90) DEF Types, SessionTypes, Holds
<1>11. chan' \in Seq(Fragments) /\ Len(chan') <= Window
  <2>1. CASE At(n, "send") /\ Len(chan) < Window /\ chan' = Append(chan, ses[n].held)
    <3>1. ses[n].held \in Fragments
      BY <2>1 DEF At, Types, SessionTypes, Holds
    <3>2. chan \in Seq(Fragments) /\ Len(chan) \in Nat /\ Window \in Nat
      BY LenProperties DEF Types, SinkTypes, RemoteAssumption
    <3> QED
      BY <2>1, <3>1, <3>2, AppendProperties
  <2> QED
    BY <2>1, SessionShape DEF Types, SinkTypes
<1>12. SinkTypes'
  BY <1>0, <1>11, SameCase DEF Types, SinkTypes
<1> QED
  BY <1>0, <1>6, <1>10, <1>12 DEF Types

\* A step of the forwarder keeps the types.
LEMMA ForwardKeepsTypes ==
  ASSUME RemoteAssumption, Types, Forward
  PROVE  Types'
<1>0. UNCHANGED <<mode, agent, fault, inbox, out, ses, pushed, claimed, failures, printed, printer, exit>>
  BY DEF Forward, nodeVars
<1>1. chan \in Seq(Fragments) /\ sink \in Seq(Fragments) /\ Len(chan) \in Nat /\ Len(sink) \in Nat /\ Window \in Nat
      /\ Len(chan) <= Window /\ Len(sink) <= Window /\ fwd \in Fragments \cup {None, Gone}
  BY LenProperties DEF Types, SinkTypes, RemoteAssumption
<1>2. SinkTypes'
  <2>1. CASE fwd = None /\ chan # <<>> /\ fwd' = Head(chan) /\ chan' = Tail(chan) /\ UNCHANGED sink
    <3>1. Head(chan) \in Fragments /\ Tail(chan) \in Seq(Fragments) /\ Len(Tail(chan)) = Len(chan) - 1
      BY <1>1, <2>1, HeadTailProperties
    <3> QED
      BY <1>0, <1>1, <2>1, <3>1, SameCase DEF Types, SinkTypes
  <2>2. CASE /\ fwd \notin {None, Gone} /\ printer = "printing" /\ Len(sink) < Window
             /\ sink' = Append(sink, fwd) /\ fwd' = None /\ UNCHANGED chan
    <3>1. Append(sink, fwd) \in Seq(Fragments) /\ Len(Append(sink, fwd)) = Len(sink) + 1
      BY <1>1, <2>2, AppendProperties
    <3> QED
      BY <1>0, <1>1, <2>2, <3>1, SameCase DEF Types, SinkTypes
  <2>3. CASE fwd' = Gone /\ UNCHANGED <<chan, sink>>
    BY <1>0, <2>3, SameCase DEF Types, SinkTypes
  <2> QED
    BY <2>1, <2>2, <2>3 DEF Forward
<1>3. AgentTypes' /\ SessionTypes'
  BY <1>0, SameCase DEF Types, AgentTypes, SessionTypes, Holds
<1> QED
  BY <1>0, <1>2, <1>3 DEF Types

\* A step of the printer, or the exit, keeps the types.
LEMMA PrintKeepsTypes ==
  ASSUME RemoteAssumption, Types, Prints \/ Exits
  PROVE  Types'
<1>0. UNCHANGED <<mode, agent, fault, inbox, out, ses, pushed, claimed, failures, chan, fwd>>
  BY DEF Prints, Exits, nodeVars
<1>1. sink \in Seq(Fragments) /\ Len(sink) \in Nat /\ Window \in Nat /\ Len(sink) <= Window
  BY LenProperties DEF Types, SinkTypes, RemoteAssumption
<1>2. SinkTypes'
  <2>1. CASE /\ sink # <<>> /\ printed' = printed \cup {Head(sink)} /\ sink' = Tail(sink) /\ UNCHANGED <<printer, exit>>
    <3>1. Head(sink) \in Fragments /\ Tail(sink) \in Seq(Fragments) /\ Len(Tail(sink)) = Len(sink) - 1
      BY <1>1, <2>1, HeadTailProperties
    <3> QED
      BY <1>0, <1>1, <2>1, <3>1, SameCase DEF Types, SinkTypes
  <2>2. CASE printer' = "failed" /\ sink' = <<>> /\ UNCHANGED <<printed, exit>>
    BY <1>0, <1>1, <2>2, SameCase DEF Types, SinkTypes
  <2>3. CASE exit' \in {"error", "ok", "incomplete"} /\ UNCHANGED <<printed, printer, sink>>
    BY <1>0, <2>3, SameCase DEF Types, SinkTypes
  <2> QED
    BY <2>1, <2>2, <2>3 DEF Prints, Exits
<1>3. AgentTypes' /\ SessionTypes'
  BY <1>0, SameCase DEF Types, AgentTypes, SessionTypes, Holds
<1> QED
  BY <1>0, <1>2, <1>3 DEF Types

\* A stuttering step keeps the types.
LEMMA StutterKeepsTypes ==
  ASSUME Types, UNCHANGED vars
  PROVE  Types'
<1>1. UNCHANGED <<mode, agent, fault, inbox, out, ses, pushed, claimed, failures, chan, fwd, sink, printed, printer, exit>>
  BY DEF vars
<1>2. SinkTypes'
  BY <1>1, SameCase DEF Types, SinkTypes
<1>3. AgentTypes' /\ SessionTypes'
  BY <1>1, SameCase DEF Types, AgentTypes, SessionTypes, Holds
<1> QED
  BY <1>1, <1>2, <1>3 DEF Types

\* Every step keeps the types.
LEMMA TypesStep == RemoteAssumption /\ Types /\ [Next]_vars => Types'
  BY AgentKeepsTypes, SessionKeepsTypes, ForwardKeepsTypes, PrintKeepsTypes, StutterKeepsTypes DEF
     Next

\* The types hold in every reachable state.
LEMMA TypesHold == Spec => []Types
<1>1. Init => Types
  BY InitTypes, RemoteAssumption
<1>2. Types /\ [Next]_vars => Types'
  BY TypesStep, RemoteAssumption
<1> QED
  BY <1>1, <1>2, PTL DEF Spec

-------------------------------------------------------------------------------
\* The pushed binaries.
\* While a node's binary is there, its session has yet to run its cleanup; and a
\* forwarder is gone because the printer failed or because the senders are.
Residue ==
  /\ \A n \in pushed : ses[n].pc \notin {"dial", "record", "joined"}
  /\ fwd = Gone => printer = "failed" \/ (SendersGone /\ chan = <<>>)

\* Every pushed binary is gone when the command ends (NoResidue), with how the
\* forwarder may have gone.
ResidueInv == Residue /\ NoResidue

\* A session's step is its own.
LEMMA OthersStay ==
  ASSUME Types, NEW n \in Nodes, SessionAction(n)
  PROVE  \A m \in Nodes : m # n =>
           /\ ses'[m] = ses[m] /\ agent'[m] = agent[m] /\ fault'[m] = fault[m]
           /\ inbox'[m] = inbox[m] /\ out'[m] = out[m]
           /\ (m \in pushed' <=> m \in pushed) /\ (m \in failures' <=> m \in failures)
<1> SUFFICES ASSUME NEW m \in Nodes, m # n
             PROVE  /\ ses'[m] = ses[m] /\ agent'[m] = agent[m] /\ fault'[m] = fault[m]
                    /\ inbox'[m] = inbox[m] /\ out'[m] = out[m]
                    /\ (m \in pushed' <=> m \in pushed) /\ (m \in failures' <=> m \in failures)
  OBVIOUS
<1>1. ses'[m] = ses[m]
  <2>1. ses \in [Nodes -> SesRecord]
    BY DEF Types, SessionTypes
  <2>2. \A pc : Moves(n, pc) => ses'[m] = ses[m]
    BY <2>1 DEF Moves
  <2>3. Fails(n) \/ Takes(n) => ses'[m] = ses[m]
    BY <2>1 DEF Fails, Takes
  <2>4. Lets(n) => ses'[m] = ses[m]
    BY <2>1 DEF Lets
  <2>5. Ends(n) => ses'[m] = ses[m]
    BY <2>1 DEF Ends
  <2> QED
    BY <2>2, <2>3, <2>4, <2>5, SessionShape DEF Goes
<1>2. agent'[m] = agent[m]
  <2>1. \A pc : Goto(n, pc) => agent'[m] = agent[m]
    BY DEF Goto, Types, AgentTypes
  <2>2. Reaps(n) => agent'[m] = agent[m]
    BY DEF Reaps, Types, AgentTypes
  <2> QED
    BY <2>1, <2>2, SessionShape
<1>3. fault'[m] = fault[m] /\ inbox'[m] = inbox[m] /\ out'[m] = out[m]
  <2>1. fault' = fault \/ \E f \in NodeFaults : fault' = [fault EXCEPT ![n] = f]
    BY SessionShape
  <2>2. inbox' = inbox \/ \E x \in {"hello", "job"} : inbox' = [inbox EXCEPT ![n] = @ \cup {x}]
    BY SessionShape
  <2>3. out' = out \/ out' = [out EXCEPT ![n] = Tail(@)]
    BY SessionShape
  <2>4. fault'[m] = fault[m]
    BY <2>1 DEF Types, AgentTypes
  <2>5. inbox'[m] = inbox[m]
    BY <2>2 DEF Types, AgentTypes
  <2>6. out'[m] = out[m]
    BY <2>3 DEF Types, AgentTypes
  <2> QED
    BY <2>4, <2>5, <2>6
<1>4. (m \in pushed' <=> m \in pushed) /\ (m \in failures' <=> m \in failures)
  BY SessionShape
<1> QED
  BY <1>1, <1>2, <1>3, <1>4

\* Where each assignment leaves the session itself.
LEMMA SelfMoves ==
  ASSUME Types, NEW n \in Nodes
  PROVE  /\ \A pc : Moves(n, pc) => ses'[n].pc = pc /\ ses'[n].held = ses[n].held /\ ses'[n].failed = ses[n].failed
         /\ Fails(n) => ses'[n].pc = "cleanup" /\ ses'[n].held = None /\ ses'[n].failed
         /\ Takes(n) => ses'[n].pc = "send" /\ ses'[n].held = Head(out[n]) /\ ses'[n].failed = ses[n].failed
         /\ Lets(n) => ses'[n].pc \in {"drain", "wait"} /\ ses'[n].held = None /\ ses'[n].failed = ses[n].failed
         /\ Ends(n) => ses'[n].pc = "cleanup" /\ ses'[n].held = ses[n].held
         /\ \A pc : Goto(n, pc) => agent'[n].pc = pc /\ agent'[n].sent = agent[n].sent
         /\ Reaps(n) => agent'[n].pc = (IF agent[n].pc = "exit0" THEN "exit0" ELSE "exit1") /\ agent'[n].sent = agent[n].sent
<1>1. ses \in [Nodes -> SesRecord] /\ agent \in [Nodes -> [pc : AgentPcs, sent : Nat]]
  BY DEF Types, AgentTypes, SessionTypes
<1>2. \A pc : Moves(n, pc) => ses'[n].pc = pc /\ ses'[n].held = ses[n].held /\ ses'[n].failed = ses[n].failed
  BY <1>1 DEF Moves, SesRecord
<1>3. Fails(n) => ses'[n].pc = "cleanup" /\ ses'[n].held = None /\ ses'[n].failed
  BY <1>1 DEF Fails, SesRecord
<1>4. Takes(n) => ses'[n].pc = "send" /\ ses'[n].held = Head(out[n]) /\ ses'[n].failed = ses[n].failed
  BY <1>1 DEF Takes, SesRecord
<1>5. Lets(n) => ses'[n].pc \in {"drain", "wait"} /\ ses'[n].held = None /\ ses'[n].failed = ses[n].failed
  BY <1>1 DEF Lets, SesRecord
<1>6. Ends(n) => ses'[n].pc = "cleanup" /\ ses'[n].held = ses[n].held
  BY <1>1 DEF Ends, SesRecord
<1>7. \A pc : Goto(n, pc) => agent'[n].pc = pc /\ agent'[n].sent = agent[n].sent
  BY <1>1 DEF Goto
<1>8. Reaps(n) => agent'[n].pc = (IF agent[n].pc = "exit0" THEN "exit0" ELSE "exit1") /\ agent'[n].sent = agent[n].sent
  BY <1>1 DEF Reaps
<1> QED
  BY <1>2, <1>3, <1>4, <1>5, <1>6, <1>7, <1>8

\* A binary is gone before its session records the outcome.
LEMMA SessionPushes ==
  ASSUME Types, NEW n \in Nodes, SessionAction(n)
  PROVE  /\ ses'[n].pc # "dial"
         /\ ses'[n].pc = "record" => n \notin pushed'
         /\ ses'[n].pc = "joined" => pushed' = pushed /\ (At(n, "dial") \/ At(n, "record"))
<1> USE SelfMoves DEF SessionAction, SessionStep
<1>1. CASE Dial(n)
  BY <1>1 DEF Dial
<1>2. CASE Exec(n) \/ Preamble(n) \/ SendHello(n) \/ ReadWelcome(n) \/ HandshakeTimeout(n) \/ SendJob(n)
  BY <1>2 DEF Exec, Preamble, SendHello, ReadWelcome, HandshakeTimeout, SendJob
<1>3. CASE Read(n)
  <2>1. ses' = ses \/ Takes(n) \/ Fails(n) \/ Moves(n, "wait")
    BY <1>3 DEF Read, Receive, Takes
  <2>2. ses[n].pc = "drain"
    BY <1>3 DEF Read, At
  <2> QED
    BY <2>1, <2>2, SMTT(60)
<1>4. CASE ReadEof(n) \/ ReadTimeout(n)
  BY <1>4 DEF ReadEof, ReadTimeout
<1>5. CASE Send(n) \/ Claim(n)
  <2>1. Moves(n, "claim") \/ Lets(n)
    BY <1>5 DEF Send, Claim, Lets, Holds, At
  <2> QED
    BY <2>1, SMTT(60)
<1>6. CASE WaitExit(n)
  <2>1. Ends(n)
    BY <1>6 DEF WaitExit, Ends
  <2> QED
    BY <2>1
<1>7. CASE Cleanup(n)
  BY <1>7 DEF Cleanup
<1>8. CASE Record(n)
  BY <1>8 DEF Record, nodeVars
<1> QED
  BY <1>1, <1>2, <1>3, <1>4, <1>5, <1>6, <1>7, <1>8

\* Every step keeps ResidueInv.
LEMMA ResidueStep ==
  ASSUME RemoteAssumption, Types, ResidueInv, Next
  PROVE  ResidueInv'
<1> USE DEF ResidueInv
<1>0. exit = "none"
  BY DEF Next
<1>1. ASSUME NEW n \in Nodes, AgentAction(n) PROVE ResidueInv'
  BY <1>1 DEF AgentAction, sinkVars, Residue, NoResidue, SendersGone, At
<1>2. ASSUME NEW n \in Nodes, SessionAction(n) PROVE ResidueInv'
  <2>1. UNCHANGED <<fwd, printer, exit>> /\ ses[n].pc # "joined"
    BY <1>2, SessionShape
  <2>2. fwd = Gone => printer = "failed"
    BY <2>1 DEF Residue, SendersGone, At
  <2>3. ASSUME NEW m \in pushed' PROVE ses'[m].pc \notin {"dial", "record", "joined"}
    <3>1. m \in Nodes
      <4>1. CaseFacts /\ pushed' \in SUBSET (mode.nodes \cup {n})
        BY <1>2, SessionShape DEF Types, SessionTypes, CaseFacts
      <4> QED
        BY <4>1, CapType
    <3>2. CASE m # n
      BY <1>2, <2>3, <3>1, <3>2, OthersStay DEF Residue
    <3>3. CASE m = n
      BY <1>2, <2>3, <3>3, SessionPushes DEF Residue, At
    <3> QED
      BY <3>2, <3>3
  <2> QED
    BY <1>0, <2>1, <2>2, <2>3 DEF Residue, NoResidue
<1>3. CASE Forward
  <2>1. UNCHANGED <<ses, pushed, printer, exit>>
    BY <1>3 DEF Forward
  <2>2. fwd' = Gone => printer = "failed" \/ (SendersGone /\ chan' = <<>>)
    <3>1. chan # <<>> => Head(chan) # Gone
      <4>1. CaseFacts /\ chan \in Seq(Fragments)
        BY DEF Types, SinkTypes, CaseFacts
      <4>2. chan # <<>> => Head(chan) \in Fragments
        BY <4>1, HeadTailProperties
      <4> QED
        BY <4>1, <4>2, OfFragments
    <3>2. None # Gone
      BY DEF RemoteAssumption
    <3> QED
      BY <1>3, <3>1, <3>2 DEF Forward
  <2> QED
    BY <1>0, <2>1, <2>2 DEF Residue, NoResidue, SendersGone, At
<1>4. CASE Prints
  BY <1>0, <1>4 DEF Prints, Residue, NoResidue, SendersGone, At
<1>5. CASE Exits
  <2>1. UNCHANGED <<ses, pushed, fwd, chan, printer>>
    BY <1>5 DEF Exits
  <2>2. exit' \in {"ok", "incomplete"} => pushed = {}
    <3>1. exit' \in {"ok", "incomplete"} => SendersGone
      BY <1>5 DEF Exits, Residue
    <3>2. pushed \subseteq Nodes
      BY CapType DEF Types, SessionTypes, CaseFacts
    <3> QED
      BY <3>1, <3>2 DEF Residue, SendersGone, At
  <2> QED
    BY <2>1, <2>2 DEF Residue, NoResidue, SendersGone, At
<1> QED
  BY <1>1, <1>2, <1>3, <1>4, <1>5 DEF Next

\* ResidueInv holds in every reachable state.
LEMMA ResidueHolds == Spec => []ResidueInv
<1>1. Init => ResidueInv
  BY RemoteAssumption DEF Init, ResidueInv, Residue, NoResidue, RemoteAssumption
<1>2. Types /\ ResidueInv /\ [Next]_vars => ResidueInv'
  <2>1. ResidueInv /\ UNCHANGED vars => ResidueInv'
    BY DEF ResidueInv, Residue, NoResidue, SendersGone, At, vars
  <2> QED
    BY <2>1, ResidueStep, RemoteAssumption
<1> QED
  BY <1>1, <1>2, TypesHold, PTL DEF Spec

\* Every pushed binary is gone when the command ends, unless the printer failed:
\* however the nodes fail, and in whatever order their sessions end.
THEOREM NothingIsLeftBehind == Spec => []NoResidue
<1>1. ResidueInv => NoResidue
  BY DEF ResidueInv
<1> QED
  BY <1>1, ResidueHolds, PTL

-------------------------------------------------------------------------------
\* The nodes nothing has happened to.
\* How far the session and the agent of a node without a fault have come
\* together: nobody is refused, nobody dies, and an agent that is through has
\* left its Done in the pipe until the session takes it.
Driven(n) == ses[n].pc \in {"drain", "send", "claim"}
Start(n)  == out[n] = <<>> /\ inbox[n] = {}
Stage(n) ==
  /\ ses[n].pc \in {"dial", "exec"} => agent[n].pc = "off" /\ Start(n)
  /\ ses[n].pc = "preamble" => agent[n].pc = "loader" /\ Start(n)
  /\ ses[n].pc = "hello" => agent[n].pc = "hello" /\ Start(n)
  /\ ses[n].pc = "welcome" =>
       \/ agent[n].pc = "hello" /\ out[n] = <<>> /\ inbox[n] = {"hello"}
       \/ agent[n].pc = "job" /\ Len(out[n]) = 1 /\ out[n][1].type = "welcome" /\ inbox[n] = {}
  /\ ses[n].pc = "job" => agent[n].pc = "job" /\ Start(n)
  /\ Driven(n) =>
       \/ agent[n].pc \in {"job", "walk"}
       \/ agent[n].pc = "exit0" /\ out[n] # <<>> /\ out[n][Len(out[n])].type = "done"
  /\ ses[n].pc = "wait" => agent[n].pc \in {"job", "walk", "exit0"}
  /\ ses[n].pc \in {"cleanup", "record"} => agent[n].pc = "exit0"
NoRefusal(n) ==
  /\ agent[n].pc \notin {"bye", "exit1"}
  /\ \A i \in 1..Len(out[n]) : out[n][i].type # "bye"
  /\ ~ses[n].failed /\ n \notin failures
HealthInv == \A n \in Nodes : fault[n] = "none" => Stage(n) /\ NoRefusal(n)

\* What a frame more, or one less, makes of a pipe.
LEMMA Appended ==
  ASSUME Types, NEW n \in Nodes, NEW frame \in [type : Kinds] \cup Rendered, out'[n] = Append(out[n], frame)
  PROVE  /\ Len(out[n]) \in Nat /\ Len(out'[n]) = Len(out[n]) + 1 /\ out'[n] # <<>>
         /\ \A i \in 1..Len(out[n]) : out'[n][i] = out[n][i]
         /\ out'[n][Len(out[n]) + 1] = frame
<1>1. out[n] \in Seq([type : Kinds] \cup Rendered)
  BY DEF Types, AgentTypes
<1>2. Len(out[n]) \in Nat
  BY <1>1, LenProperties
<1> QED
  BY <1>1, <1>2, AppendProperties, SMTT(60)

\* A frame taken from a pipe: the others move up.
LEMMA Taken ==
  ASSUME Types, NEW n \in Nodes, out[n] # <<>>, out'[n] = Tail(out[n])
  PROVE  /\ Len(out[n]) \in Nat \ {0} /\ Len(out'[n]) = Len(out[n]) - 1
         /\ \A i \in 1..Len(out'[n]) : i + 1 \in 1..Len(out[n]) /\ out'[n][i] = out[n][i + 1]
         /\ Head(out[n]) = out[n][1] /\ (Len(out[n]) = 1 => out'[n] = <<>>)
<1>1. out[n] \in Seq([type : Kinds] \cup Rendered) /\ out'[n] \in Seq([type : Kinds] \cup Rendered)
  BY HeadTailProperties DEF Types, AgentTypes
<1>2. Len(out[n]) \in Nat \ {0} /\ Len(out'[n]) \in Nat
  BY <1>1, LenProperties, EmptySeq
<1>3. Len(out'[n]) = Len(out[n]) - 1 /\ \A i \in 1..Len(out'[n]) : out'[n][i] = out[n][i + 1]
  BY <1>1, HeadTailProperties
<1>4. Head(out[n]) = out[n][1]
  BY <1>1
<1>5. Len(out[n]) = 1 => out'[n] = <<>>
  <2>1. out'[n] # <<>> => Len(out'[n]) # 0
    BY <1>1, EmptySeq
  <2> QED
    BY <1>2, <1>3, <2>1
<1> QED
  BY <1>2, <1>3, <1>4, <1>5

\* A fault that strikes stays.
LEMMA FaultStays ==
  ASSUME Types, NEW n \in Nodes, AgentAction(n) \/ SessionAction(n), fault'[n] = "none"
  PROVE  fault[n] = "none" /\ fault' = fault
<1>1. fault' = fault \/ \E f \in NodeFaults : fault' = [fault EXCEPT ![n] = f]
  BY SessionShape DEF AgentAction, AgentStep, AgentFault, AgentBeats, AgentHello, AgentJob,
     AgentEmits,
         AgentFinishes, AgentBye, AgentAborts, AgentDies, AgentWedges, Strikes, NodeFaults
<1> QED
  BY <1>1 DEF Types, AgentTypes, NodeFaults

\* A fault that strikes shows.
LEMMA StrikesShows ==
  ASSUME Types, NEW n \in Nodes, NEW f \in NodeFaults, Strikes(n, f)
  PROVE  fault'[n] # "none"
BY DEF Strikes, Types, AgentTypes, NodeFaults

\* An agent without a fault goes from stage to stage.
LEMMA AgentHealth ==
  ASSUME Types, NEW n \in Nodes, AgentAction(n), fault[n] = "none" => Stage(n) /\ NoRefusal(n), fault'[n] = "none"
  PROVE  Stage(n)' /\ NoRefusal(n)'
<1>0. fault[n] = "none" /\ UNCHANGED fault /\ Stage(n) /\ NoRefusal(n)
  BY FaultStays
<1>1. UNCHANGED <<ses, failures>>
  BY DEF AgentAction
<1>2. AgentStep(n) \/ AgentBeats(n)
  <2>1. ~AgentFault(n)
    BY <1>0, StrikesShows DEF AgentFault, AgentAborts, AgentDies, AgentWedges, NodeFaults
  <2> QED
    BY <2>1 DEF AgentAction
<1>3. \A t \in Kinds : Frame(t) \in [type : Kinds] \cup Rendered /\ Frame(t).type = t
  BY AgentFrame
<1>4. out \in [Nodes -> Seq([type : Kinds] \cup Rendered)] /\ inbox \in [Nodes -> SUBSET {"hello", "job"}]
  BY DEF Types, AgentTypes
<1>5. CASE AgentHello(n)
  <2>1. agent[n].pc = "hello" /\ "hello" \in inbox[n] /\ inbox'[n] = inbox[n] \ {"hello"}
        /\ agent'[n].pc = "job" /\ out'[n] = Append(out[n], Frame("welcome"))
    BY <1>0, <1>4, <1>5, StrikesShows, SelfMoves DEF AgentHello, Write, NodeFaults
  <2>2. ses[n].pc \in {"welcome", "joined"}
    BY <1>0, <2>1 DEF Stage, Start, Driven, Types, SessionTypes, SesRecord, SesPcs
  <2>3. /\ Len(out[n]) \in Nat /\ Len(out'[n]) = Len(out[n]) + 1
        /\ \A i \in 1..Len(out[n]) : out'[n][i] = out[n][i]
        /\ out'[n][Len(out[n]) + 1].type = "welcome"
    BY <1>3, <2>1, Appended DEF Kinds
  <2>4. ses[n].pc = "welcome" => out[n] = <<>> /\ inbox[n] = {"hello"}
    BY <1>0, <2>1 DEF Stage
  <2>5. NoRefusal(n)'
    BY <1>0, <1>1, <2>1, <2>3 DEF NoRefusal
  <2>6. Stage(n)'
    <3>1. out[n] = <<>> => Len(out'[n]) = 1 /\ out'[n][1].type = "welcome"
      BY <2>3
    <3> QED
      BY <1>1, <2>1, <2>2, <2>4, <3>1 DEF Stage, Driven
  <2> QED
    BY <2>5, <2>6
<1>6. CASE AgentJob(n)
  <2>1. agent[n].pc = "job" /\ "job" \in inbox[n] /\ agent'[n].pc = "walk" /\ out'[n] = out[n]
    BY <1>0, <1>6, StrikesShows, SelfMoves DEF AgentJob, NodeFaults
  <2>2. ses[n].pc \in {"drain", "send", "claim", "wait", "joined"}
    BY <1>0, <2>1 DEF Stage, Start, Driven, Types, SessionTypes, SesRecord, SesPcs
  <2> QED
    BY <1>0, <1>1, <2>1, <2>2 DEF Stage, NoRefusal, Driven
<1>7. CASE AgentEmits(n) \/ AgentBeats(n) \/ AgentFinishes(n)
  <2>1. agent[n].pc = "walk"
    BY <1>7 DEF AgentEmits, AgentBeats, AgentFinishes
  <2>2. ses[n].pc \in {"drain", "send", "claim", "wait", "joined"}
    BY <1>0, <2>1 DEF Stage, Start, Driven, Types, SessionTypes, SesRecord, SesPcs
  <2>3. PICK frame \in [type : Kinds] \cup Rendered :
          /\ out'[n] = Append(out[n], frame) /\ frame.type # "bye"
          /\ \/ agent'[n].pc = "walk"
             \/ agent'[n].pc = "exit0" /\ frame.type = "done"
    <3>1. CASE AgentEmits(n)
      <4> DEFINE frame == Fragment(n, agent[n].sent + 1)
      <4>1. agent[n].sent + 1 \in Sends(n) /\ n \in mode.nodes /\ CaseFacts
        BY <3>1, <2>1, RemoteAssumption DEF AgentEmits, Types, SessionTypes, CaseFacts
      <4>2. frame \in Rendered /\ frame.type = "rendered"
        BY <4>1, FragmentFacts
      <4>3. out'[n] = Append(out[n], frame)
        BY <1>4, <3>1 DEF AgentEmits, Write
      <4>4. agent'[n].pc = "walk"
        BY <2>1, <3>1 DEF AgentEmits, Types, AgentTypes
      <4> HIDE DEF frame
      <4> QED
        BY <4>2, <4>3, <4>4
    <3>2. CASE AgentBeats(n)
      BY <1>3, <1>4, <2>1, <3>2 DEF AgentBeats, Write, Kinds
    <3>3. CASE AgentFinishes(n)
      BY <1>3, <1>4, <2>1, <3>3, SelfMoves DEF AgentFinishes, Write, Kinds
    <3> QED
      BY <1>7, <3>1, <3>2, <3>3
  <2>4. /\ Len(out[n]) \in Nat /\ Len(out'[n]) = Len(out[n]) + 1 /\ out'[n] # <<>>
        /\ \A i \in 1..Len(out[n]) : out'[n][i] = out[n][i]
        /\ out'[n][Len(out[n]) + 1] = frame
    BY <2>3, Appended
  <2>5. NoRefusal(n)'
    BY <1>0, <1>1, <2>3, <2>4 DEF NoRefusal
  <2>6. Stage(n)'
    BY <1>1, <2>2, <2>3, <2>4 DEF Stage, Driven
  <2> QED
    BY <2>5, <2>6
<1>8. ~AgentBye(n)
  BY <1>0 DEF AgentBye, NoRefusal
<1> QED
  BY <1>2, <1>5, <1>6, <1>7, <1>8 DEF AgentStep

\* ... and so does its session.
LEMMA SessionHealth ==
  ASSUME Types, NEW n \in Nodes, SessionAction(n), fault[n] = "none" => Stage(n) /\ NoRefusal(n), fault'[n] = "none"
  PROVE  Stage(n)' /\ NoRefusal(n)'
<1>0. fault[n] = "none" /\ UNCHANGED fault /\ Stage(n) /\ NoRefusal(n)
  BY FaultStays
<1>1. \A f \in NodeFaults : ~Strikes(n, f)
  BY <1>0, StrikesShows
<1>2. {"unreachable", "slow", "garbled"} \subseteq NodeFaults
  BY DEF NodeFaults
<1> USE SelfMoves
<1>3. CASE Dial(n)
  <2>1. ses[n].pc = "dial" /\ Moves(n, "exec") /\ UNCHANGED <<failures, agent, inbox, out>>
    BY <1>1, <1>2, <1>3 DEF Dial, At
  <2> QED
    BY <1>0, <2>1 DEF Stage, NoRefusal, Start, Driven
<1>4. CASE Exec(n)
  <2>1. ses[n].pc = "exec" /\ UNCHANGED <<failures, inbox, out>>
        /\ \/ Goto(n, "loader") /\ Moves(n, "preamble")
           \/ Goto(n, "hello") /\ Moves(n, "hello")
    BY <1>1, <1>2, <1>4 DEF Exec, At
  <2> QED
    BY <1>0, <2>1 DEF Stage, NoRefusal, Start, Driven
<1>5. CASE Preamble(n)
  <2>1. ses[n].pc = "preamble" /\ UNCHANGED <<failures, inbox, out>> /\ Goto(n, "hello") /\ Moves(n, "hello")
    BY <1>0, <1>5 DEF Preamble, At, Stage, Exited
  <2> QED
    BY <1>0, <2>1 DEF Stage, NoRefusal, Start, Driven
<1>6. CASE SendHello(n)
  <2>1. ses[n].pc = "hello" /\ UNCHANGED <<failures, agent, out>> /\ Moves(n, "welcome")
        /\ inbox'[n] = inbox[n] \cup {"hello"}
    BY <1>0, <1>6 DEF SendHello, At, Stage, Exited, Types, AgentTypes
  <2>2. inbox'[n] = {"hello"}
    BY <1>0, <2>1 DEF Stage, Start
  <2> QED
    BY <1>0, <2>1, <2>2 DEF Stage, NoRefusal, Start, Driven
<1>7. CASE ReadWelcome(n)
  <2>1. ses[n].pc = "welcome" /\ out[n] # <<>>
    BY <1>0, <1>7 DEF ReadWelcome, At, Stage, EndOfFile, Exited
  <2>2. agent[n].pc = "job" /\ Len(out[n]) = 1 /\ out[n][1].type = "welcome" /\ inbox[n] = {}
    BY <1>0, <2>1 DEF Stage
  <2>3. out'[n] = Tail(out[n])
    BY <1>7, <2>1 DEF ReadWelcome, EndOfFile, Types, AgentTypes
  <2>4. out'[n] = <<>> /\ Len(out'[n]) = 0 /\ Head(out[n]).type = "welcome"
    BY <2>1, <2>2, <2>3, Taken
  <2>5. Moves(n, "job") /\ UNCHANGED <<agent, failures, inbox>>
    BY <1>7, <2>1, <2>4 DEF ReadWelcome
  <2> QED
    BY <1>0, <2>2, <2>4, <2>5 DEF Stage, NoRefusal, Start, Driven
<1>8. CASE SendJob(n)
  <2>1. ses[n].pc = "job" /\ UNCHANGED <<failures, agent, out>> /\ Moves(n, "drain")
    BY <1>0, <1>8 DEF SendJob, At, Stage, Exited
  <2> QED
    BY <1>0, <2>1 DEF Stage, NoRefusal, Start, Driven
<1>9. CASE Read(n)
  <2>1. ses[n].pc = "drain" /\ out[n] # <<>> /\ out'[n] = Tail(out[n]) /\ UNCHANGED <<failures, agent>>
    BY <1>9 DEF Read, Receive, At, Types, AgentTypes
  <2>2. /\ Len(out[n]) \in Nat \ {0} /\ Len(out'[n]) = Len(out[n]) - 1
        /\ \A i \in 1..Len(out'[n]) : i + 1 \in 1..Len(out[n]) /\ out'[n][i] = out[n][i + 1]
        /\ Head(out[n]) = out[n][1] /\ 1 \in 1..Len(out[n])
    BY <2>1, Taken
  <2>3. NoRefusal(n)' <=> ~ses'[n].failed
    BY <1>0, <2>1, <2>2 DEF NoRefusal
  <2>4. Head(out[n]).type # "bye"
    BY <1>0, <2>2 DEF NoRefusal
  <2>5. Takes(n) \/ Moves(n, "wait") \/ (ses' = ses /\ Head(out[n]).type = "heartbeat")
    BY <1>1, <1>2, <1>9, <2>4 DEF Read, Receive, Takes
  <2>6. NoRefusal(n)'
    BY <1>0, <2>3, <2>5 DEF NoRefusal
  <2>7. CASE Moves(n, "wait")
    BY <1>0, <2>1, <2>6, <2>7 DEF Stage, Driven
  <2>8. CASE Takes(n) \/ (ses' = ses /\ Head(out[n]).type = "heartbeat")
    <3>1. Head(out[n]).type # "done" /\ ses'[n].pc \in {"send", "drain"}
      BY <2>1, <2>8 DEF Takes
    <3>2. \/ agent[n].pc \in {"job", "walk"}
          \/ agent[n].pc = "exit0" /\ out[n][Len(out[n])].type = "done"
      BY <1>0, <2>1 DEF Stage, Driven
    <3>3. CASE agent[n].pc \in {"job", "walk"}
      BY <2>1, <2>6, <3>1, <3>3 DEF Stage, Driven
    <3>4. CASE agent[n].pc = "exit0" /\ out[n][Len(out[n])].type = "done"
      <4>1. Len(out[n]) # 1
        BY <2>2, <3>1, <3>4
      <4>2. Len(out'[n]) \in Nat \ {0} /\ out'[n][Len(out'[n])] = out[n][Len(out[n])]
        <5>1. Len(out'[n]) \in 1..Len(out'[n]) /\ Len(out'[n]) \in Nat \ {0} /\ Len(out'[n]) + 1 = Len(out[n])
          <6>1. Len(out[n]) \in Nat \ {0} /\ Len(out'[n]) = Len(out[n]) - 1
            BY <2>2
          <6>2. \A a \in Nat \ {0} : \A b : b = a - 1 /\ a # 1 => b \in 1..b /\ b \in Nat \ {0} /\ b + 1 = a
            OBVIOUS
          <6> QED
            BY <4>1, <6>1, <6>2, ZenonT(90)
        <5> QED
          BY <2>2, <5>1
      <4>3. out'[n] # <<>>
        BY <4>2
      <4> QED
        BY <2>1, <2>6, <3>1, <3>4, <4>2, <4>3 DEF Stage, Driven
    <3> QED
      BY <3>2, <3>3, <3>4
  <2> QED
    BY <2>5, <2>7, <2>8
<1>10. ~HandshakeTimeout(n) /\ ~ReadEof(n) /\ ~ReadTimeout(n)
  BY <1>0, <1>1, <1>2 DEF HandshakeTimeout, ReadEof, ReadTimeout, Wedged, EndOfFile, Exited, At,
     Stage, NoRefusal, Driven
<1>11. CASE Send(n) \/ Claim(n)
  <2>1. Holds(n) /\ (Moves(n, "claim") \/ Lets(n)) /\ UNCHANGED <<failures, agent, out>>
    BY <1>11 DEF Send, Claim, Lets, Holds, At, nodeVars
  <2>2. ses'[n].pc \in {"claim", "drain", "wait"} /\ Driven(n) /\ ses'[n].failed = ses[n].failed
    BY <2>1 DEF Holds, Driven
  <2> QED
    BY <1>0, <2>1, <2>2 DEF Stage, NoRefusal, Driven
<1>12. CASE WaitExit(n)
  <2>1. ses[n].pc = "wait" /\ agent[n].pc = "exit0" /\ UNCHANGED <<failures, agent, out>>
    BY <1>0, <1>12 DEF WaitExit, At, Stage, Exited, NoRefusal, nodeVars
  <2>2. ses'[n].pc = "cleanup" /\ ses'[n].failed = FALSE
    BY <2>1, <1>12 DEF WaitExit, Types, SessionTypes, SesRecord
  <2> QED
    BY <1>0, <2>1, <2>2 DEF Stage, NoRefusal, Driven
<1>13. CASE Cleanup(n)
  <2>1. ses[n].pc = "cleanup" /\ Moves(n, "record") /\ Reaps(n) /\ UNCHANGED <<failures, out>>
    BY <1>13 DEF Cleanup, At
  <2> QED
    BY <1>0, <2>1 DEF Stage, NoRefusal, Driven
<1>14. CASE Record(n)
  <2>1. ses[n].pc = "record" /\ Moves(n, "joined") /\ UNCHANGED <<agent, out, failures>>
    BY <1>0, <1>14 DEF Record, At, NoRefusal, nodeVars
  <2> QED
    BY <1>0, <2>1 DEF Stage, NoRefusal, Driven
<1> QED
  BY <1>3, <1>4, <1>5, <1>6, <1>7, <1>8, <1>9, <1>10, <1>11, <1>12, <1>13, <1>14 DEF SessionAction,
     SessionStep

\* The steps of another node leave a node as it is.
LEMMA AgentOthersStay ==
  ASSUME Types, NEW n \in Nodes, AgentAction(n)
  PROVE  \A m \in Nodes : m # n =>
           agent'[m] = agent[m] /\ fault'[m] = fault[m] /\ inbox'[m] = inbox[m] /\ out'[m] = out[m]
<1> SUFFICES ASSUME NEW m \in Nodes, m # n
             PROVE  agent'[m] = agent[m] /\ fault'[m] = fault[m] /\ inbox'[m] = inbox[m] /\ out'[m] = out[m]
  OBVIOUS
<1> USE DEF AgentAction, AgentStep, AgentFault, AgentBeats, AgentHello, AgentJob, AgentEmits, AgentFinishes,
         AgentBye, AgentAborts, AgentDies, AgentWedges
<1>1. agent'[m] = agent[m]
  <2>1. (\E pc : Goto(n, pc)) \/ agent' = [agent EXCEPT ![n].sent = @ + 1] \/ agent' = agent
    OBVIOUS
  <2>2. \A pc : Goto(n, pc) => agent'[m] = agent[m]
    BY DEF Goto, Types, AgentTypes
  <2>3. agent' = [agent EXCEPT ![n].sent = @ + 1] => agent'[m] = agent[m]
    BY DEF Types, AgentTypes
  <2> QED
    BY <2>1, <2>2, <2>3
<1>2. fault'[m] = fault[m]
  <2>1. fault' = fault \/ \E f : fault' = [fault EXCEPT ![n] = f]
    BY DEF Strikes
  <2> QED
    BY <2>1 DEF Types, AgentTypes
<1>3. inbox'[m] = inbox[m]
  <2>1. inbox' = inbox \/ \E x : inbox' = [inbox EXCEPT ![n] = @ \ {x}]
    OBVIOUS
  <2> QED
    BY <2>1 DEF Types, AgentTypes
<1>4. out'[m] = out[m]
  <2>1. out' = out \/ \E x : out' = [out EXCEPT ![n] = Append(@, x)]
    BY DEF Write
  <2> QED
    BY <2>1 DEF Types, AgentTypes
<1> QED
  BY <1>1, <1>2, <1>3, <1>4

\* Every step keeps HealthInv.
LEMMA HealthStep ==
  ASSUME Types, HealthInv, Next
  PROVE  HealthInv'
<1> SUFFICES ASSUME NEW m \in Nodes, fault'[m] = "none" PROVE Stage(m)' /\ NoRefusal(m)'
  BY DEF HealthInv
<1>1. ASSUME NEW n \in Nodes, AgentAction(n) PROVE Stage(m)' /\ NoRefusal(m)'
  <2>1. CASE m = n
    BY <1>1, <2>1, AgentHealth DEF HealthInv
  <2>2. CASE m # n
    <3>1. agent'[m] = agent[m] /\ fault'[m] = fault[m] /\ inbox'[m] = inbox[m] /\ out'[m] = out[m]
          /\ UNCHANGED <<ses, failures>>
      BY <1>1, <2>2, AgentOthersStay DEF AgentAction
    <3> QED
      BY <3>1 DEF HealthInv, Stage, NoRefusal, Start, Driven
  <2> QED
    BY <2>1, <2>2
<1>2. ASSUME NEW n \in Nodes, SessionAction(n) PROVE Stage(m)' /\ NoRefusal(m)'
  <2>1. CASE m = n
    BY <1>2, <2>1, SessionHealth DEF HealthInv
  <2>2. CASE m # n
    <3>1. /\ ses'[m] = ses[m] /\ agent'[m] = agent[m] /\ fault'[m] = fault[m]
          /\ inbox'[m] = inbox[m] /\ out'[m] = out[m] /\ (m \in failures' <=> m \in failures)
      BY <1>2, <2>2, OthersStay
    <3> QED
      BY <3>1 DEF HealthInv, Stage, NoRefusal, Start, Driven
  <2> QED
    BY <2>1, <2>2
<1>3. CASE Forward \/ Prints \/ Exits
  <2>1. UNCHANGED <<agent, fault, inbox, out, ses, failures>>
    BY <1>3 DEF Forward, Prints, Exits, nodeVars
  <2> QED
    BY <2>1 DEF HealthInv, Stage, NoRefusal, Start, Driven
<1> QED
  BY <1>1, <1>2, <1>3 DEF Next

\* A node that nothing has happened to is never reported as failed, whatever
\* happens to the others, to the cap and to the printer.
THEOREM OnlyFaultyNodesFail == Spec => []HealthyNodesSucceed
<1>1. Init => HealthInv
  <2> SUFFICES ASSUME Init, NEW n \in Nodes PROVE Stage(n) /\ NoRefusal(n)
    BY DEF HealthInv
  <2>1. /\ ses[n].pc \in {"dial", "joined"} /\ ~ses[n].failed /\ n \notin failures
        /\ agent[n].pc = "off" /\ out[n] = <<>> /\ inbox[n] = {}
    BY DEF Init
  <2>2. Len(out[n]) = 0
    BY <2>1
  <2> QED
    BY <2>1, <2>2 DEF Stage, NoRefusal, Start, Driven
<1>2. Types /\ HealthInv /\ [Next]_vars => HealthInv'
  <2>1. HealthInv /\ UNCHANGED vars => HealthInv'
    BY DEF HealthInv, Stage, NoRefusal, Start, Driven, vars
  <2> QED
    BY <2>1, HealthStep
<1>3. Types /\ HealthInv => HealthyNodesSucceed
  BY CapType DEF HealthInv, NoRefusal, HealthyNodesSucceed, Types, SessionTypes, CaseFacts
<1> QED
  BY <1>1, <1>2, <1>3, TypesHold, PTL DEF Spec

-------------------------------------------------------------------------------
\* The order of the frames, and who has failed.
\* Before the job is sent nothing is written of it; only what ends can have
\* failed, and what has failed is recorded as its task ends.
Early == {"dial", "exec", "preamble", "hello", "welcome", "job"}
Late  == {"cleanup", "record", "joined"}
EarlyInv ==
  \A n \in Nodes :
    /\ ses[n].pc \in Early => agent[n].sent = 0 /\ "job" \notin inbox[n] /\ agent[n].pc # "walk"
    /\ ses[n].pc \in {"dial", "exec"} => agent[n].pc = "off"
    /\ ses[n].pc \notin Late => ~ses[n].failed
    /\ n \in failures => ses[n].pc = "joined"
    /\ ses[n].pc = "joined" /\ ses[n].failed => n \in failures

\* A pipe carries a node's fragments in order, each once, after the one its
\* session holds; a Done is the last frame, and comes after all the node sends.
IsRendered(n, i) == i \in 1..Len(out[n]) /\ out[n][i].type = "rendered"
FrameInv(n) ==
  /\ \A i \in 1..Len(out[n]) : out[n][i].type = "done" =>
       i = Len(out[n]) /\ agent[n].pc = "exit0" /\ agent[n].sent + 1 \notin Sends(n)
  /\ \A i \in 1..Len(out[n]) : IsRendered(n, i) => out[n][i].seq <= agent[n].sent
  /\ \A i, j \in 1..Len(out[n]) : i < j /\ IsRendered(n, i) /\ IsRendered(n, j) => out[n][i].seq < out[n][j].seq
  /\ Holds(n) =>
       /\ ses[n].held.seq <= agent[n].sent
       /\ \A i \in 1..Len(out[n]) : IsRendered(n, i) => ses[n].held.seq < out[n][i].seq
OrderInv == EarlyInv /\ \A n \in Nodes : FrameInv(n)

\* A rendered frame in a pipe is a fragment the node sends.
LEMMA RenderedAt ==
  ASSUME Types, NEW n \in Nodes, NEW f \in Frames(n), f.type = "rendered"
  PROVE  f.seq \in Sends(n) /\ f = Fragment(n, f.seq) /\ f.seq \in Nat \ {0}
<1>1. PICK k \in Sends(n) : f = Fragment(n, k)
  BY DEF Frames, Kinds
<1>2. f.seq = k
  BY <1>1 DEF Fragment
<1>3. CaseFacts
  BY RemoteAssumption DEF Types, CaseFacts
<1>4. Sends(n) \subseteq 1..Len(Counts[n]) /\ Len(Counts[n]) \in Nat
  BY <1>3, SendsFacts, CountsType
<1> QED
  BY <1>1, <1>2, <1>4

\* What a pipe carries and a session holds.
LEMMA PipeTypes ==
  ASSUME Types, NEW n \in Nodes
  PROVE  /\ agent[n].sent \in Nat /\ Len(out[n]) \in Nat
         /\ \A i \in 1..Len(out[n]) : out[n][i] \in Frames(n)
         /\ \A i \in 1..Len(out[n]) : IsRendered(n, i) =>
              out[n][i].seq \in Sends(n) /\ out[n][i] = Fragment(n, out[n][i].seq) /\ out[n][i].seq \in Nat \ {0}
         /\ Holds(n) => ses[n].held \in Fragments /\ ses[n].held.node = n /\ ses[n].held.seq \in Nat \ {0}
                        /\ ses[n].held.seq \in Sends(n) /\ ses[n].held = Fragment(n, ses[n].held.seq)
                        /\ ses[n].held.count \in Nat \ {0}
<1>1. out[n] \in Seq(Frames(n)) /\ agent[n].sent \in Nat
  BY DEF Types, AgentTypes
<1>2. Len(out[n]) \in Nat /\ \A i \in 1..Len(out[n]) : out[n][i] \in Frames(n)
  BY <1>1, LenProperties, ElementOfSeq
<1>3. CaseFacts
  BY RemoteAssumption DEF Types, CaseFacts
<1>4. Holds(n) => ses[n].held \in Fragments /\ ses[n].held.node = n
  BY DEF Types, SessionTypes
<1> QED
  BY <1>1, <1>2, <1>3, <1>4, RenderedAt, OfFragments DEF IsRendered

\* An agent that takes a step is running.
LEMMA AgentRuns ==
  ASSUME NEW n, AgentAction(n)
  PROVE  agent[n].pc \notin {"off", "exit0", "exit1"}
BY DEF AgentAction, AgentStep, AgentFault, AgentBeats, AgentHello, AgentJob, AgentEmits,
   AgentFinishes,
       AgentBye, AgentAborts, AgentDies, AgentWedges, Running

\* A step of an agent keeps EarlyInv.
LEMMA AgentEarly ==
  ASSUME Types, EarlyInv, NEW n \in Nodes, AgentAction(n)
  PROVE  EarlyInv'
<1> SUFFICES ASSUME NEW m \in Nodes, ses[m].pc \in Early
             PROVE  /\ agent'[m].sent = 0 /\ "job" \notin inbox'[m] /\ agent'[m].pc # "walk"
                    /\ ses[m].pc \in {"dial", "exec"} => agent'[m].pc = "off"
  BY DEF AgentAction, EarlyInv, Early
<1>1. /\ agent[m].sent = 0 /\ "job" \notin inbox[m] /\ agent[m].pc # "walk"
      /\ ses[m].pc \in {"dial", "exec"} => agent[m].pc = "off"
  BY DEF EarlyInv
<1>2. CASE m # n
  BY <1>1, <1>2, AgentOthersStay
<1>3. CASE m = n
  <2>1. inbox' = inbox \/ \E x : inbox' = [inbox EXCEPT ![n] = @ \ {x}]
    BY DEF AgentAction, AgentStep, AgentFault, AgentBeats, AgentHello, AgentJob, AgentEmits,
       AgentFinishes,
         AgentBye, AgentAborts, AgentDies, AgentWedges
  <2>2. "job" \notin inbox'[m]
    BY <1>1, <1>3, <2>1 DEF Types, AgentTypes
  <2>3. agent' = agent \/ \E pc \in {"job", "bye", "exit0", "exit1"} : Goto(n, pc)
    BY <1>1, <1>3 DEF AgentAction, AgentStep, AgentFault, AgentBeats, AgentHello, AgentJob,
       AgentEmits, AgentFinishes,
         AgentBye, AgentAborts, AgentDies, AgentWedges
  <2>4. agent[n].pc # "off"
    BY AgentRuns
  <2> QED
    BY <1>1, <1>3, <2>2, <2>3, <2>4, SelfMoves
<1> QED
  BY <1>2, <1>3

\* A step of a session keeps EarlyInv.
LEMMA SessionEarly ==
  ASSUME Types, EarlyInv, NEW n \in Nodes, SessionAction(n)
  PROVE  EarlyInv'
<1> SUFFICES ASSUME NEW m \in Nodes
             PROVE  /\ ses'[m].pc \in Early => agent'[m].sent = 0 /\ "job" \notin inbox'[m] /\ agent'[m].pc # "walk"
                    /\ ses'[m].pc \in {"dial", "exec"} => agent'[m].pc = "off"
                    /\ ses'[m].pc \notin Late => ~ses'[m].failed
                    /\ m \in failures' => ses'[m].pc = "joined"
                    /\ ses'[m].pc = "joined" /\ ses'[m].failed => m \in failures'
  BY DEF EarlyInv
<1>0. /\ ses[m].pc \in Early => agent[m].sent = 0 /\ "job" \notin inbox[m] /\ agent[m].pc # "walk"
      /\ ses[m].pc \in {"dial", "exec"} => agent[m].pc = "off"
      /\ ses[m].pc \notin Late => ~ses[m].failed
      /\ m \in failures => ses[m].pc = "joined"
      /\ ses[m].pc = "joined" /\ ses[m].failed => m \in failures
  BY DEF EarlyInv
<1>1. CASE m # n
  BY <1>0, <1>1, OthersStay
<1>2. CASE m = n
  <2> USE <1>0, <1>2, SelfMoves DEF Early, Late, At
  <2>0. ses[n].pc # "joined" /\ inbox \in [Nodes -> SUBSET {"hello", "job"}]
    BY SessionShape DEF Types, AgentTypes
  <2>1. CASE Dial(n)
    BY <2>0, <2>1 DEF Dial
  <2>2. CASE Exec(n)
    BY <2>0, <2>2 DEF Exec
  <2>3. CASE Preamble(n)
    BY <2>0, <2>3 DEF Preamble
  <2>4. CASE SendHello(n)
    BY <2>0, <2>4 DEF SendHello
  <2>5. CASE ReadWelcome(n)
    BY <2>0, <2>5 DEF ReadWelcome
  <2>6. CASE HandshakeTimeout(n) \/ ReadEof(n) \/ ReadTimeout(n)
    BY <2>0, <2>6 DEF HandshakeTimeout, ReadEof, ReadTimeout
  <2>7. CASE SendJob(n)
    BY <2>0, <2>7 DEF SendJob
  <2>8. CASE Read(n)
    <3>1. ses[n].pc = "drain" /\ UNCHANGED failures /\ (ses' = ses \/ Takes(n) \/ Fails(n) \/ Moves(n, "wait"))
      BY <2>8 DEF Read, Receive, Takes
    <3> QED
      BY <2>0, <3>1
  <2>9. CASE Send(n) \/ Claim(n)
    <3>1. Holds(n) /\ UNCHANGED failures /\ (Moves(n, "claim") \/ Lets(n))
      BY <2>9 DEF Send, Claim, Lets, Holds
    <3> QED
      BY <2>0, <3>1 DEF Holds
  <2>10. CASE WaitExit(n)
    <3>1. Ends(n) /\ UNCHANGED failures /\ ses[n].pc = "wait"
      BY <2>10 DEF WaitExit, Ends
    <3> QED
      BY <2>0, <3>1
  <2>11. CASE Cleanup(n)
    BY <2>0, <2>11 DEF Cleanup
  <2>12. CASE Record(n)
    BY <2>0, <2>12 DEF Record
  <2> QED
    BY <2>1, <2>2, <2>3, <2>4, <2>5, <2>6, <2>7, <2>8, <2>9, <2>10, <2>11, <2>12 DEF SessionAction,
       SessionStep
<1> QED
  BY <1>1, <1>2

\* What an agent writes comes after all it has written.
LEMMA AgentFrames ==
  ASSUME Types, NEW n \in Nodes, FrameInv(n), AgentAction(n)
  PROVE  FrameInv(n)'
<1>0. UNCHANGED <<mode, ses>> /\ \A i \in 1..Len(out[n]) : out[n][i].type # "done"
  BY AgentRuns DEF AgentAction, FrameInv
<1>1. out \in [Nodes -> Seq([type : Kinds] \cup Rendered)]
  BY DEF Types, AgentTypes
<1>2. agent[n].sent \in Nat /\ Len(out[n]) \in Nat
  BY PipeTypes
<1>3. Sends(n)' = Sends(n)
  BY <1>0, SameCase
<1>4. CASE out'[n] = out[n] /\ agent'[n].sent = agent[n].sent
  BY <1>0, <1>4 DEF FrameInv, IsRendered, Holds
<1>5. ASSUME NEW frame \in [type : Kinds] \cup Rendered, out'[n] = Append(out[n], frame),
             frame.type = "done" => agent'[n].pc = "exit0" /\ agent'[n].sent + 1 \notin Sends(n),
             IF frame.type = "rendered" THEN frame.seq = agent[n].sent + 1 /\ agent'[n].sent = agent[n].sent + 1
                                        ELSE agent'[n].sent = agent[n].sent
      PROVE  FrameInv(n)'
  <2>1. /\ Len(out'[n]) = Len(out[n]) + 1
        /\ \A i \in 1..Len(out[n]) : out'[n][i] = out[n][i]
        /\ out'[n][Len(out[n]) + 1] = frame
    BY <1>5, Appended
  <2>2. \A i \in 1..Len(out'[n]) : i \in 1..Len(out[n]) \/ i = Len(out'[n])
    BY <1>2, <2>1
  <2>3. agent'[n].sent \in Nat /\ agent[n].sent <= agent'[n].sent
    BY <1>2, <1>5
  <2>4. ASSUME NEW i \in 1..Len(out'[n]), out'[n][i].type = "done"
        PROVE  i = Len(out'[n]) /\ agent'[n].pc = "exit0" /\ agent'[n].sent + 1 \notin Sends(n)'
    BY <1>0, <1>3, <1>5, <2>1, <2>2, <2>4
  <2>5. \A i \in 1..Len(out[n]) : IsRendered(n, i) => out[n][i].seq \in Nat
    BY PipeTypes
  <2>6. ASSUME NEW i \in 1..Len(out'[n]), IsRendered(n, i)'
        PROVE  /\ out'[n][i].seq <= agent'[n].sent
               /\ i \in 1..Len(out[n]) => IsRendered(n, i) /\ out'[n][i] = out[n][i] /\ out[n][i].seq <= agent[n].sent
    <3>1. CASE i \in 1..Len(out[n])
      <4>1. IsRendered(n, i) /\ out'[n][i] = out[n][i]
        BY <2>1, <2>6, <3>1 DEF IsRendered
      <4>2. out[n][i].seq <= agent[n].sent /\ out[n][i].seq \in Nat
        BY <2>5, <3>1, <4>1 DEF FrameInv
      <4> QED
        BY <1>2, <2>3, <4>1, <4>2
    <3>2. CASE i = Len(out'[n])
      <4>1. out'[n][i] = frame /\ frame.type = "rendered" /\ i \notin 1..Len(out[n])
        BY <1>2, <2>1, <2>6, <3>2 DEF IsRendered
      <4> QED
        BY <1>2, <1>5, <4>1
    <3> QED
      BY <2>2, <3>1, <3>2
  <2>7. ASSUME NEW i \in 1..Len(out'[n]), NEW j \in 1..Len(out'[n]), i < j, IsRendered(n, i)', IsRendered(n, j)'
        PROVE  out'[n][i].seq < out'[n][j].seq
    <3>1. i \in 1..Len(out[n])
      BY <1>2, <2>1, <2>7
    <3>2. IsRendered(n, i) /\ out'[n][i] = out[n][i] /\ out[n][i].seq <= agent[n].sent /\ out[n][i].seq \in Nat
      BY <2>5, <2>6, <2>7, <3>1
    <3>3. CASE j \in 1..Len(out[n])
      BY <2>6, <2>7, <3>1, <3>2, <3>3 DEF FrameInv
    <3>4. CASE j = Len(out'[n])
      <4>1. out'[n][j] = frame /\ frame.type = "rendered"
        BY <2>1, <2>7, <3>4 DEF IsRendered
      <4> QED
        BY <1>2, <1>5, <3>2, <4>1, SMTT(60)
    <3> QED
      BY <2>2, <3>3, <3>4
  <2>8. ASSUME Holds(n)'
        PROVE  /\ ses'[n].held.seq <= agent'[n].sent
               /\ \A i \in 1..Len(out'[n]) : IsRendered(n, i)' => ses'[n].held.seq < out'[n][i].seq
    <3>1. Holds(n) /\ ses'[n].held = ses[n].held
      BY <1>0, <2>8 DEF Holds
    <3>2. ses[n].held.seq \in Nat /\ ses[n].held.seq <= agent[n].sent
      BY <3>1, PipeTypes DEF FrameInv
    <3>3. ASSUME NEW i \in 1..Len(out'[n]), IsRendered(n, i)' PROVE ses[n].held.seq < out'[n][i].seq
      <4>1. CASE i \in 1..Len(out[n])
        BY <2>6, <3>1, <3>3, <4>1 DEF FrameInv
      <4>2. CASE i = Len(out'[n])
        <5>1. out'[n][i] = frame /\ frame.type = "rendered"
          BY <2>1, <3>3, <4>2 DEF IsRendered
        <5> QED
          BY <1>2, <1>5, <3>2, <5>1
      <4> QED
        BY <2>2, <4>1, <4>2
    <3> QED
      BY <1>2, <2>3, <3>1, <3>2, <3>3
  <2> QED
    BY <2>4, <2>6, <2>7, <2>8 DEF FrameInv
<1>6. CASE AgentEmits(n)
  <2> DEFINE frame == Fragment(n, agent[n].sent + 1)
  <2>1. agent[n].sent + 1 \in Sends(n) /\ n \in mode.nodes /\ CaseFacts
    BY <1>6, RemoteAssumption DEF AgentEmits, Types, SessionTypes, CaseFacts
  <2>2. frame \in Rendered /\ frame.type = "rendered" /\ frame.seq = agent[n].sent + 1
    BY <2>1, FragmentFacts
  <2>3. out'[n] = Append(out[n], frame)
    BY <1>1, <1>6 DEF AgentEmits, Write
  <2>4. agent'[n].sent = agent[n].sent + 1
    BY <1>6 DEF AgentEmits, Types, AgentTypes
  <2>5. PICK g : g = frame
    OBVIOUS
  <2> HIDE DEF frame
  <2> QED
    BY <1>5, <2>2, <2>3, <2>4, <2>5
<1>7. CASE AgentBeats(n) \/ AgentFinishes(n) \/ AgentBye(n) \/ AgentHello(n)
  <2>1. \A t \in Kinds : Frame(t) \in [type : Kinds] \cup Rendered /\ Frame(t).type = t
    BY AgentFrame
  <2>2. \A t : Write(n, Frame(t)) => out'[n] = Append(out[n], Frame(t))
    BY <1>1 DEF Write
  <2>3. agent'[n].sent = agent[n].sent
    BY <1>7, SelfMoves DEF AgentBeats, AgentFinishes, AgentBye, AgentHello
  <2>4. CASE AgentFinishes(n)
    <3>1. agent'[n].pc = "exit0" /\ agent[n].sent + 1 \notin Sends(n) /\ Write(n, Frame("done"))
      BY <2>4, SelfMoves DEF AgentFinishes
    <3> QED
      BY <1>5, <2>1, <2>2, <2>3, <3>1 DEF Kinds
  <2>5. CASE AgentBeats(n) \/ AgentBye(n) \/ AgentHello(n)
    <3>1. out'[n] = out[n] \/ \E t \in {"heartbeat", "bye", "welcome"} : Write(n, Frame(t))
      BY <2>5 DEF AgentBeats, AgentBye, AgentHello
    <3>2. \A t \in {"heartbeat", "bye", "welcome"} : t \in Kinds /\ t \notin {"done", "rendered"}
      BY DEF Kinds
    <3> QED
      BY <1>4, <1>5, <2>1, <2>2, <2>3, <3>1, <3>2
  <2> QED
    BY <1>7, <2>4, <2>5
<1>8. CASE AgentJob(n) \/ AgentFault(n)
  BY <1>4, <1>8, SelfMoves DEF AgentJob, AgentFault, AgentAborts, AgentDies, AgentWedges
<1> QED
  BY <1>6, <1>7, <1>8 DEF AgentAction, AgentStep

\* What a step of a session does to its pipe and to the fragment it holds.
LEMMA SessionPipe ==
  ASSUME Types, EarlyInv, NEW n \in Nodes, SessionAction(n)
  PROVE  /\ agent'[n].sent = agent[n].sent /\ (agent[n].pc = "exit0" => agent'[n].pc = "exit0")
         /\ \/ out' = out /\ (Holds(n)' => Holds(n) /\ ses'[n].held = ses[n].held)
            \/ out[n] # <<>> /\ out'[n] = Tail(out[n]) /\ ~Holds(n)'
            \/ out[n] # <<>> /\ out'[n] = Tail(out[n]) /\ Head(out[n]).type = "rendered" /\ ses'[n].held = Head(out[n])
<1> USE SelfMoves DEF Holds
<1>1. agent'[n].sent = agent[n].sent
  BY SessionShape, SMTT(60)
<1>2. agent[n].pc = "exit0" => agent'[n].pc = "exit0"
  <2> SUFFICES ASSUME agent[n].pc = "exit0" PROVE agent'[n].pc = "exit0"
    OBVIOUS
  <2>1. ~Exec(n)
    BY DEF Exec, At, EarlyInv
  <2>2. Preamble(n) => agent' = agent
    BY SMTT(60) DEF Preamble
  <2> QED
    BY <2>1, <2>2 DEF SessionAction, SessionStep, Dial, SendHello, ReadWelcome, HandshakeTimeout,
       SendJob, Read, Receive,
         ReadEof, ReadTimeout, Send, Claim, WaitExit, Cleanup, Record, nodeVars
<1>3. out' = out \/ (out[n] # <<>> /\ out'[n] = Tail(out[n]) /\ (ReadWelcome(n) \/ Read(n)))
  <2>1. ReadWelcome(n) => out' = out \/ (out[n] # <<>> /\ out'[n] = Tail(out[n]))
    BY DEF ReadWelcome, Types, AgentTypes
  <2>2. Read(n) => out[n] # <<>> /\ out'[n] = Tail(out[n])
    BY DEF Read, Types, AgentTypes
  <2>3. Preamble(n) => out' = out
    BY DEF Preamble
  <2>4. ReadWelcome(n) \/ Read(n) \/ Preamble(n) \/ out' = out
    BY DEF SessionAction, SessionStep, Dial, Exec, SendHello, HandshakeTimeout, SendJob, ReadEof, ReadTimeout,
       Send, Claim, WaitExit, Cleanup, Record, nodeVars
  <2> QED
    BY <2>1, <2>2, <2>3, <2>4
<1>4. CASE ReadWelcome(n) /\ out[n] # <<>> /\ out'[n] = Tail(out[n])
  BY <1>1, <1>2, <1>4 DEF ReadWelcome
<1>5. CASE Read(n) /\ out[n] # <<>> /\ out'[n] = Tail(out[n])
  <2>1. ses[n].pc = "drain" /\ (ses' = ses \/ Takes(n) \/ Fails(n) \/ Moves(n, "wait"))
    BY <1>5 DEF Read, Receive, Takes, At
  <2> QED
    BY <1>1, <1>2, <1>5, <2>1 DEF Takes
<1>6. CASE out' = out
  <2>1. ~Takes(n)
    <3>1. Takes(n) => Read(n)
      BY DEF Takes, SessionAction, SessionStep, Dial, Exec, Preamble, SendHello, ReadWelcome,
         HandshakeTimeout, SendJob,
             ReadEof, ReadTimeout, Send, Claim, WaitExit, Cleanup, Record, At
    <3>2. Read(n) => ~(out' = out)
      <4>1. Read(n) => out[n] # <<>> /\ out' = [out EXCEPT ![n] = Tail(@)]
        BY DEF Read
      <4>2. out[n] # <<>> => Tail(out[n]) # out[n]
        <5>1. out[n] \in Seq(Frames(n))
          BY DEF Types, AgentTypes
        <5>2. out[n] # <<>> => Len(out[n]) \in Nat /\ Len(Tail(out[n])) = Len(out[n]) - 1
          BY <5>1, HeadTailProperties, LenProperties
        <5>3. \A k \in Nat : k - 1 # k
          OBVIOUS
        <5> QED
          BY <5>2, <5>3, ZenonT(90)
      <4> QED
        BY <4>1, <4>2 DEF Types, AgentTypes
    <3> QED
      BY <1>6, <3>1, <3>2, SMTT(60)
  <2>2. Holds(n)' => Holds(n) /\ ses'[n].held = ses[n].held
    <3>1. CASE ses' = ses \/ Lets(n) \/ Ends(n) \/ Fails(n)
      BY <3>1
    <3>2. CASE Goes(n)
      BY <3>2 DEF Goes
    <3>3. CASE At(n, "send") /\ Moves(n, "claim")
      BY <3>3 DEF At
    <3> QED
      BY <2>1, <3>1, <3>2, <3>3, SessionShape
  <2> QED
    BY <1>1, <1>2, <1>6, <2>2
<1> QED
  BY <1>3, <1>4, <1>5, <1>6

\* A session reads the frames in order.
LEMMA SessionFrames ==
  ASSUME Types, EarlyInv, NEW n \in Nodes, FrameInv(n), SessionAction(n)
  PROVE  FrameInv(n)'
<1>0. mode' = mode /\ agent'[n].sent = agent[n].sent /\ (agent[n].pc = "exit0" => agent'[n].pc = "exit0")
  BY SessionShape, SessionPipe
<1>1. Sends(n)' = Sends(n)
  BY <1>0, SameCase
<1>2. CASE out' = out /\ (Holds(n)' => Holds(n) /\ ses'[n].held = ses[n].held)
  BY <1>0, <1>1, <1>2 DEF FrameInv, IsRendered
<1>3. CASE out[n] # <<>> /\ out'[n] = Tail(out[n])
           /\ (Holds(n)' => Head(out[n]).type = "rendered" /\ ses'[n].held = Head(out[n]))
  <2>1. /\ Len(out[n]) \in Nat \ {0} /\ Len(out'[n]) = Len(out[n]) - 1
        /\ \A i \in 1..Len(out'[n]) : i + 1 \in 1..Len(out[n]) /\ out'[n][i] = out[n][i + 1]
        /\ Head(out[n]) = out[n][1] /\ 1 \in 1..Len(out[n])
    BY <1>3, Taken
  <2>2. \A i \in 1..Len(out'[n]) : IsRendered(n, i)' <=> IsRendered(n, i + 1)
    BY <2>1 DEF IsRendered
  <2>3. ASSUME NEW i \in 1..Len(out'[n])
        PROVE  /\ out'[n][i].type = "done" => i = Len(out'[n]) /\ agent'[n].pc = "exit0" /\ agent'[n].sent + 1 \notin Sends(n)'
               /\ IsRendered(n, i)' => out'[n][i].seq <= agent'[n].sent
    <3>1. i + 1 \in 1..Len(out[n]) /\ out'[n][i] = out[n][i + 1] /\ (i + 1 = Len(out[n]) => i = Len(out'[n]))
      BY <2>1
    <3> QED
      BY <1>0, <1>1, <2>2, <3>1 DEF FrameInv
  <2>4. ASSUME NEW i \in 1..Len(out'[n]), NEW j \in 1..Len(out'[n]), i < j, IsRendered(n, i)', IsRendered(n, j)'
        PROVE  out'[n][i].seq < out'[n][j].seq
    <3>1. i + 1 \in 1..Len(out[n]) /\ j + 1 \in 1..Len(out[n]) /\ i + 1 < j + 1
          /\ out'[n][i] = out[n][i + 1] /\ out'[n][j] = out[n][j + 1]
      BY <2>1, <2>4
    <3> QED
      BY <2>2, <2>4, <3>1 DEF FrameInv
  <2>5. ASSUME Holds(n)'
        PROVE  /\ ses'[n].held.seq <= agent'[n].sent
               /\ \A i \in 1..Len(out'[n]) : IsRendered(n, i)' => ses'[n].held.seq < out'[n][i].seq
    <3>1. IsRendered(n, 1) /\ ses'[n].held = out[n][1]
      BY <1>3, <2>1, <2>5 DEF IsRendered
    <3>2. ASSUME NEW i \in 1..Len(out'[n]), IsRendered(n, i)' PROVE out[n][1].seq < out'[n][i].seq
      <4>1. i + 1 \in 1..Len(out[n]) /\ 1 < i + 1 /\ out'[n][i] = out[n][i + 1] /\ IsRendered(n, i + 1)
        BY <2>1, <2>2, <3>2
      <4> QED
        BY <2>1, <3>1, <4>1 DEF FrameInv
    <3> QED
      BY <1>0, <2>1, <3>1, <3>2 DEF FrameInv
  <2> QED
    BY <2>3, <2>4, <2>5 DEF FrameInv
<1> QED
  BY <1>2, <1>3, SessionPipe

\* Every step keeps OrderInv.
LEMMA OrderStep ==
  ASSUME Types, OrderInv, Next
  PROVE  OrderInv'
<1> USE DEF OrderInv
<1>1. ASSUME NEW n \in Nodes, AgentAction(n) PROVE OrderInv'
  <2>1. ASSUME NEW m \in Nodes PROVE FrameInv(m)'
    <3>1. CASE m = n
      BY <1>1, <3>1, AgentFrames
    <3>2. CASE m # n
      <4>1. agent'[m] = agent[m] /\ out'[m] = out[m] /\ UNCHANGED <<ses, mode>>
        BY <1>1, <3>2, AgentOthersStay DEF AgentAction
      <4>2. Sends(m)' = Sends(m)
        BY <4>1, SameCase
      <4> QED
        BY <4>1, <4>2 DEF FrameInv, IsRendered, Holds
    <3> QED
      BY <3>1, <3>2
  <2> QED
    BY <1>1, <2>1, AgentEarly
<1>2. ASSUME NEW n \in Nodes, SessionAction(n) PROVE OrderInv'
  <2>1. ASSUME NEW m \in Nodes PROVE FrameInv(m)'
    <3>1. CASE m = n
      BY <1>2, <3>1, SessionFrames
    <3>2. CASE m # n
      <4>1. agent'[m] = agent[m] /\ out'[m] = out[m] /\ ses'[m] = ses[m] /\ mode' = mode
        BY <1>2, <3>2, OthersStay, SessionShape
      <4>2. Sends(m)' = Sends(m)
        BY <4>1, SameCase
      <4> QED
        BY <4>1, <4>2 DEF FrameInv, IsRendered, Holds
    <3> QED
      BY <3>1, <3>2
  <2> QED
    BY <1>2, <2>1, SessionEarly
<1>3. CASE Forward \/ Prints \/ Exits
  <2>1. UNCHANGED <<mode, agent, inbox, out, ses, failures>>
    BY <1>3 DEF Forward, Prints, Exits, nodeVars
  <2>2. \A n : Sends(n)' = Sends(n)
    BY <2>1, SameCase
  <2> QED
    BY <2>1, <2>2 DEF EarlyInv, FrameInv, IsRendered, Holds
<1> QED
  BY <1>1, <1>2, <1>3 DEF Next

\* OrderInv holds in every reachable state.
LEMMA OrderHolds == Spec => []OrderInv
<1>1. Init => OrderInv
  <2> SUFFICES ASSUME Init PROVE OrderInv
    OBVIOUS
  <2>1. EarlyInv
    BY DEF Init, EarlyInv, Early, Late
  <2>2. ASSUME NEW n \in Nodes PROVE FrameInv(n)
    <3>1. Len(out[n]) = 0 /\ ses[n].pc \in {"dial", "joined"}
      BY DEF Init
    <3> QED
      BY <3>1 DEF FrameInv, Holds
  <2> QED
    BY <2>1, <2>2 DEF OrderInv
<1>2. Types /\ OrderInv /\ [Next]_vars => OrderInv'
  <2>1. ASSUME OrderInv, UNCHANGED vars PROVE OrderInv'
    <3>1. UNCHANGED <<mode, agent, inbox, out, ses, failures>>
      BY <2>1 DEF vars
    <3>2. \A n : Sends(n)' = Sends(n)
      BY <3>1, SameCase
    <3> QED
      BY <2>1, <3>1, <3>2 DEF OrderInv, EarlyInv, FrameInv, IsRendered, Holds
  <2> QED
    BY <2>1, OrderStep
<1> QED
  BY <1>1, <1>2, TypesHold, PTL DEF Spec

-------------------------------------------------------------------------------
\* The channels: each fragment is in one place.
Once(s) == \A i, j \in 1..Len(s) : s[i] = s[j] => i = j

\* A new element at the end of a sequence without repetition.
LEMMA AppendOnce ==
  ASSUME NEW S, NEW s \in Seq(S), NEW x \in S
  PROVE  /\ ToSet(Append(s, x)) = ToSet(s) \cup {x}
         /\ Once(s) /\ x \notin ToSet(s) => Once(Append(s, x))
<1>1. DOMAIN s = 1..Len(s) /\ Len(s) \in Nat
  BY LenProperties
<1>2. Append(s, x) \in Seq(S) /\ Len(Append(s, x)) = Len(s) + 1 /\ Append(s, x)[Len(s) + 1] = x
      /\ \A i \in 1..Len(s) : Append(s, x)[i] = s[i]
  BY AppendProperties
<1>3. DOMAIN Append(s, x) = 1..(Len(s) + 1)
  BY <1>2, LenProperties
<1>4. 1..(Len(s) + 1) = (1..Len(s)) \cup {Len(s) + 1}
  BY <1>1
<1>5. ToSet(Append(s, x)) = ToSet(s) \cup {x}
  BY <1>1, <1>2, <1>3, <1>4 DEF ToSet
<1>6. ASSUME Once(s), x \notin ToSet(s), NEW i \in 1..Len(Append(s, x)), NEW j \in 1..Len(Append(s, x)),
             Append(s, x)[i] = Append(s, x)[j]
      PROVE  i = j
  <2>1. \A k \in 1..Len(s) : s[k] # x
    BY <1>1, <1>6 DEF ToSet
  <2>2. (i \in 1..Len(s) \/ i = Len(s) + 1) /\ (j \in 1..Len(s) \/ j = Len(s) + 1)
    BY <1>1, <1>2
  <2> QED
    BY <1>2, <1>6, <2>1, <2>2 DEF Once
<1> QED
  BY <1>5, <1>6 DEF Once

\* The head taken from a sequence without repetition.
LEMMA TailOnce ==
  ASSUME NEW S, NEW s \in Seq(S), s # <<>>
  PROVE  /\ ToSet(s) = ToSet(Tail(s)) \cup {Head(s)}
         /\ Once(s) => Once(Tail(s)) /\ Head(s) \notin ToSet(Tail(s))
<1>1. DOMAIN s = 1..Len(s) /\ Len(s) \in Nat \ {0} /\ Head(s) = s[1]
  BY LenProperties, EmptySeq
<1>2. Tail(s) \in Seq(S) /\ Len(Tail(s)) = Len(s) - 1 /\ \A i \in 1..Len(Tail(s)) : Tail(s)[i] = s[i + 1]
  BY HeadTailProperties
<1>3. DOMAIN Tail(s) = 1..(Len(s) - 1)
  BY <1>2, LenProperties
<1>4. \A i \in 1..Len(s) : i = 1 \/ (i - 1 \in 1..(Len(s) - 1) /\ s[i] = Tail(s)[i - 1])
  <2> SUFFICES ASSUME NEW i \in 1..Len(s), i # 1 PROVE i - 1 \in 1..(Len(s) - 1) /\ s[i] = Tail(s)[i - 1]
    OBVIOUS
  <2>1. i - 1 \in 1..(Len(s) - 1) /\ (i - 1) + 1 = i
    BY <1>1
  <2> QED
    BY <1>2, <2>1
<1>5. \A i \in 1..(Len(s) - 1) : i + 1 \in 1..Len(s) /\ Tail(s)[i] = s[i + 1]
  BY <1>1, <1>2
<1>6. ToSet(s) = ToSet(Tail(s)) \cup {Head(s)}
  <2>1. \A x : x \in ToSet(s) <=> \E i \in 1..Len(s) : x = s[i]
    BY <1>1 DEF ToSet
  <2>2. \A x : x \in ToSet(Tail(s)) <=> \E i \in 1..(Len(s) - 1) : x = Tail(s)[i]
    BY <1>3 DEF ToSet
  <2>3. 1 \in 1..Len(s)
    BY <1>1
  <2>4. \A x : x \in ToSet(s) => x \in ToSet(Tail(s)) \/ x = Head(s)
    BY <1>1, <1>4, <2>1, <2>2
  <2>5. \A x : x \in ToSet(Tail(s)) \/ x = Head(s) => x \in ToSet(s)
    BY <1>1, <1>5, <2>1, <2>2, <2>3
  <2> QED
    BY <2>4, <2>5
<1>7. ASSUME Once(s) PROVE Once(Tail(s)) /\ Head(s) \notin ToSet(Tail(s))
  <2>1. ASSUME NEW i \in 1..Len(Tail(s)), NEW j \in 1..Len(Tail(s)), Tail(s)[i] = Tail(s)[j] PROVE i = j
    <3>1. i + 1 \in 1..Len(s) /\ j + 1 \in 1..Len(s) /\ s[i + 1] = s[j + 1]
      BY <1>2, <1>5, <2>1
    <3>2. i + 1 = j + 1
      BY <1>7, <3>1 DEF Once
    <3> QED
      BY <1>1, <1>2, <3>2
  <2>2. \A i \in 1..(Len(s) - 1) : Tail(s)[i] # Head(s)
    <3> SUFFICES ASSUME NEW i \in 1..(Len(s) - 1), s[i + 1] = s[1] PROVE FALSE
      BY <1>1, <1>5
    <3>1. i + 1 \in 1..Len(s) /\ 1 \in 1..Len(s) /\ i + 1 # 1
      BY <1>1
    <3> QED
      BY <1>7, <3>1 DEF Once
  <2>3. Head(s) \notin ToSet(Tail(s))
    BY <1>3, <2>2 DEF ToSet
  <2> QED
    BY <2>1, <2>3 DEF Once
<1> QED
  BY <1>6, <1>7

\* A sequence without repetition has as many elements as places.
LEMMA OnceCount ==
  ASSUME NEW S, NEW s \in Seq(S), Once(s)
  PROVE  IsFiniteSet(ToSet(s)) /\ Cardinality(ToSet(s)) = Len(s)
<1>1. Len(s) \in Nat /\ DOMAIN s = 1..Len(s) /\ s \in [1..Len(s) -> S]
  BY LenProperties
<1>2. s \in [1..Len(s) -> ToSet(s)]
  BY <1>1 DEF ToSet
<1>3. s \in Injection(1..Len(s), ToSet(s))
  BY <1>2, Fun_IsInj DEF Once
<1>4. s \in Surjection(1..Len(s), ToSet(s))
  BY <1>1, <1>2 DEF Surjection, ToSet
<1>5. IsFiniteSet(1..Len(s)) /\ Cardinality(1..Len(s)) = Len(s)
  BY <1>1, RangeFinite
<1> QED
  BY <1>3, <1>4, <1>5, FS_Surjection

PlaceInv ==
  /\ Once(chan) /\ Once(sink)
  /\ ToSet(chan) \cap ToSet(sink) = {}
  /\ (ToSet(chan) \cup ToSet(sink)) \cap printed = {}
  /\ fwd \notin ToSet(chan) \cup ToSet(sink) \cup printed

\* What has been forwarded of a node comes before what its session holds and
\* what its pipe carries.
Past(f) ==
  /\ f.seq <= agent[f.node].sent
  /\ \A i \in 1..Len(out[f.node]) : IsRendered(f.node, i) => f.seq < out[f.node][i].seq
  /\ ses[f.node].pc = "send" => f.seq < ses[f.node].held.seq
  /\ ses[f.node].pc = "claim" => f.seq <= ses[f.node].held.seq
PastInv == \A f \in Forwarded : Past(f)

\* Everything forwarded is a fragment of the case at hand.
LEMMA ForwardedType ==
  ASSUME Types
  PROVE  /\ CaseFacts /\ Forwarded \subseteq Fragments /\ ToSet(chan) \subseteq Fragments /\ ToSet(sink) \subseteq Fragments
         /\ None \notin Fragments /\ Gone \notin Fragments /\ None # Gone
<1>1. CaseFacts /\ None # Gone
  BY RemoteAssumption DEF Types, CaseFacts, RemoteAssumption
<1>2. ToSet(chan) \subseteq Fragments /\ ToSet(sink) \subseteq Fragments
  <2>1. \A s \in Seq(Fragments) : DOMAIN s = 1..Len(s) /\ \A i \in 1..Len(s) : s[i] \in Fragments
    BY LenProperties, ElementOfSeq
  <2> QED
    BY <2>1 DEF ToSet, Types, SinkTypes
<1>3. None \notin Fragments /\ Gone \notin Fragments
  BY <1>1, OfFragments
<1> QED
  BY <1>1, <1>2, <1>3 DEF Forwarded, Types, SinkTypes

\* Passing a fragment on forwards nothing new, and loses nothing while the
\* printer prints.
LEMMA SinkMoves ==
  ASSUME Types, PlaceInv, Forward \/ Prints \/ Exits
  PROVE  /\ PlaceInv' /\ Forwarded' \subseteq Forwarded
         /\ printer' = "printing" => Forwarded' = Forwarded /\ printer = "printing"
<1>0. /\ chan \in Seq(Fragments) /\ sink \in Seq(Fragments) /\ fwd \in Fragments \cup {None, Gone}
      /\ printer \in {"printing", "failed"}
  BY DEF Types, SinkTypes
<1>1. ToSet(<<>>) = {} /\ Once(<<>>)
  BY DEF ToSet, Once
<1>2. /\ ToSet(chan) \subseteq Fragments /\ ToSet(sink) \subseteq Fragments /\ printed \subseteq Fragments
      /\ None \notin Fragments /\ Gone \notin Fragments /\ None # Gone
  BY ForwardedType DEF Types, SinkTypes
<1>3. CASE fwd = None /\ chan # <<>> /\ fwd' = Head(chan) /\ chan' = Tail(chan) /\ UNCHANGED <<sink, printed, printer>>
  <2>1. ToSet(chan) = ToSet(chan') \cup {Head(chan)} /\ Once(chan') /\ Head(chan) \notin ToSet(chan') /\ Head(chan) \in Fragments
    BY <1>0, <1>3, TailOnce, HeadTailProperties DEF PlaceInv
  <2>2. PlaceInv'
    BY <1>3, <2>1 DEF PlaceInv
  <2>3. Forwarded' = Forwarded
    BY <1>2, <1>3, <2>1 DEF Forwarded
  <2> QED
    BY <1>3, <2>2, <2>3
<1>4. CASE /\ fwd \notin {None, Gone} /\ sink' = Append(sink, fwd) /\ fwd' = None /\ UNCHANGED <<chan, printed, printer>>
  <2>1. ToSet(sink') = ToSet(sink) \cup {fwd} /\ Once(sink')
    BY <1>0, <1>4, AppendOnce DEF PlaceInv
  <2>2. PlaceInv'
    BY <1>2, <1>4, <2>1 DEF PlaceInv
  <2>3. Forwarded' = Forwarded
    BY <1>4, <2>1 DEF Forwarded
  <2> QED
    BY <1>4, <2>2, <2>3
<1>5. CASE /\ fwd' = Gone /\ UNCHANGED <<chan, sink, printed, printer>> /\ (fwd = None \/ printer = "failed")
  <2>1. PlaceInv'
    BY <1>2, <1>5 DEF PlaceInv
  <2>2. Forwarded' \subseteq Forwarded /\ (fwd = None => Forwarded' = Forwarded)
    BY <1>2, <1>5 DEF Forwarded
  <2> QED
    BY <1>5, <2>1, <2>2
<1>6. CASE /\ sink # <<>> /\ printed' = printed \cup {Head(sink)} /\ sink' = Tail(sink) /\ UNCHANGED <<printer, chan, fwd>>
  <2>1. ToSet(sink) = ToSet(sink') \cup {Head(sink)} /\ Once(sink') /\ Head(sink) \notin ToSet(sink')
    BY <1>0, <1>6, TailOnce DEF PlaceInv
  <2>2. PlaceInv'
    BY <1>6, <2>1 DEF PlaceInv
  <2>3. Forwarded' = Forwarded
    BY <1>6, <2>1 DEF Forwarded
  <2> QED
    BY <1>6, <2>2, <2>3
<1>7. CASE printer' = "failed" /\ sink' = <<>> /\ UNCHANGED <<printed, chan, fwd>>
  BY <1>1, <1>7 DEF PlaceInv, Forwarded
<1>8. CASE UNCHANGED <<chan, fwd, sink, printed, printer>>
  BY <1>8 DEF PlaceInv, Forwarded
<1> QED
  BY <1>3, <1>4, <1>5, <1>6, <1>7, <1>8 DEF Forward, Prints, Exits

\* What a session sends has not been forwarded before.
LEMMA HeldIsNew ==
  ASSUME Types, PastInv, NEW n \in Nodes, At(n, "send")
  PROVE  ses[n].held \in Fragments /\ ses[n].held.node = n /\ ses[n].held \notin Forwarded
<1>1. ses[n].held \in Fragments /\ ses[n].held.node = n /\ ses[n].held.seq \in Nat \ {0}
  BY PipeTypes DEF At, Holds
<1>2. \A k \in Nat : ~(k < k)
  OBVIOUS
<1> QED
  BY <1>1, <1>2 DEF PastInv, Past, At

\* A step of a session forwards the fragment it sends, or nothing.
LEMMA SessionForwards ==
  ASSUME Types, PlaceInv, PastInv, NEW n \in Nodes, SessionAction(n)
  PROVE  /\ PlaceInv' /\ UNCHANGED <<fwd, sink, printed, printer, exit, mode>>
         /\ IF Send(n) /\ fwd # Gone
            THEN /\ ses[n].held \notin Forwarded /\ ses[n].held \in Fragments /\ Forwarded' = Forwarded \cup {ses[n].held}
                 /\ chan' = Append(chan, ses[n].held) /\ At(n, "send") /\ Moves(n, "claim") /\ UNCHANGED claimed
            ELSE chan' = chan /\ Forwarded' = Forwarded
<1>1. UNCHANGED <<fwd, sink, printed, printer, exit, mode>>
  BY SessionShape
<1>2. CASE Send(n) /\ fwd # Gone
  <2>1. chan' = Append(chan, ses[n].held) /\ At(n, "send") /\ Moves(n, "claim") /\ UNCHANGED claimed
    BY <1>2 DEF Send
  <2>2. ses[n].held \notin Forwarded /\ ses[n].held \in Fragments
    BY <2>1, HeldIsNew
  <2>3. ToSet(chan') = ToSet(chan) \cup {ses[n].held} /\ (ses[n].held \notin ToSet(chan) => Once(chan'))
    BY <2>1, <2>2, AppendOnce DEF Types, SinkTypes, PlaceInv
  <2>4. fwd # ses[n].held /\ ses[n].held \notin ToSet(chan) \cup ToSet(sink) \cup printed
    BY <2>2, ForwardedType DEF Forwarded
  <2>5. PlaceInv'
    BY <1>1, <2>3, <2>4 DEF PlaceInv
  <2>6. Forwarded' = Forwarded \cup {ses[n].held}
    BY <1>1, <2>3 DEF Forwarded
  <2> QED
    BY <1>1, <1>2, <2>1, <2>2, <2>5, <2>6
<1>3. CASE ~(Send(n) /\ fwd # Gone)
  <2>1. chan' = chan
    BY <1>3 DEF SessionAction, SessionStep, Dial, Exec, Preamble, SendHello, ReadWelcome,
       HandshakeTimeout, SendJob, Read,
       ReadEof, ReadTimeout, Send, Claim, WaitExit, Cleanup, Record, nodeVars
  <2> QED
    BY <1>1, <1>3, <2>1 DEF PlaceInv, Forwarded
<1> QED
  BY <1>2, <1>3

\* What a step of an agent does to its pipe.
LEMMA AgentPipe ==
  ASSUME Types, NEW n \in Nodes, AgentAction(n)
  PROVE  /\ UNCHANGED <<mode, ses, chan, fwd, sink, printed, printer, exit, claimed, failures>>
         /\ \/ out'[n] = out[n] /\ agent'[n].sent = agent[n].sent
            \/ \E frame \in [type : Kinds] \cup Rendered :
                 /\ out'[n] = Append(out[n], frame)
                 /\ IF frame.type = "rendered"
                    THEN /\ agent[n].sent + 1 \in Sends(n) /\ frame = Fragment(n, agent[n].sent + 1)
                         /\ frame.seq = agent[n].sent + 1 /\ agent'[n].sent = agent[n].sent + 1
                    ELSE agent'[n].sent = agent[n].sent
<1>1. out \in [Nodes -> Seq([type : Kinds] \cup Rendered)]
  BY DEF Types, AgentTypes
<1>2. UNCHANGED <<mode, ses, chan, fwd, sink, printed, printer, exit, claimed, failures>>
  BY DEF AgentAction, sinkVars
<1>6. CASE AgentEmits(n)
  <2> DEFINE frame == Fragment(n, agent[n].sent + 1)
  <2>1. agent[n].sent + 1 \in Sends(n) /\ n \in mode.nodes /\ CaseFacts
    BY <1>6, RemoteAssumption DEF AgentEmits, Types, SessionTypes, CaseFacts
  <2>2. frame \in Rendered /\ frame.type = "rendered" /\ frame.seq = agent[n].sent + 1
    BY <2>1, FragmentFacts
  <2>3. out'[n] = Append(out[n], frame)
    BY <1>1, <1>6 DEF AgentEmits, Write
  <2>4. agent'[n].sent = agent[n].sent + 1
    BY <1>6 DEF AgentEmits, Types, AgentTypes
  <2> QED
    BY <1>2, <2>1, <2>2, <2>3, <2>4
<1>7. CASE AgentBeats(n) \/ AgentFinishes(n) \/ AgentBye(n) \/ AgentHello(n)
  <2>1. \A t \in Kinds : Frame(t) \in [type : Kinds] \cup Rendered /\ Frame(t).type = t /\ t # "rendered"
    BY AgentFrame DEF Kinds
  <2>2. \A t : Write(n, Frame(t)) => out'[n] = Append(out[n], Frame(t))
    BY <1>1 DEF Write
  <2>3. agent'[n].sent = agent[n].sent
    BY <1>7, SelfMoves DEF AgentBeats, AgentFinishes, AgentBye, AgentHello
  <2>4. out'[n] = out[n] \/ \E t \in Kinds : Write(n, Frame(t))
    BY <1>7 DEF AgentBeats, AgentBye, AgentHello, AgentFinishes, Kinds
  <2> QED
    BY <1>2, <2>1, <2>2, <2>3, <2>4
<1>8. CASE AgentJob(n) \/ AgentFault(n)
  BY <1>2, <1>8, SelfMoves DEF AgentJob, AgentFault, AgentAborts, AgentDies, AgentWedges
<1> QED
  BY <1>6, <1>7, <1>8 DEF AgentAction, AgentStep

\* What an agent writes comes after what has been forwarded.
LEMMA AgentKeepsPast ==
  ASSUME Types, NEW n \in Nodes, AgentAction(n), NEW f \in Fragments, Past(f)
  PROVE  Past(f)'
<1>0. UNCHANGED ses /\ f.node \in Nodes /\ f.seq \in Nat
  BY AgentPipe, ForwardedType, OfFragments
<1>1. CASE f.node # n
  BY <1>0, <1>1, AgentOthersStay DEF Past, IsRendered
<1>2. CASE f.node = n
  <2>1. CASE out'[n] = out[n] /\ agent'[n].sent = agent[n].sent
    BY <1>0, <1>2, <2>1 DEF Past, IsRendered
  <2>2. ASSUME NEW frame \in [type : Kinds] \cup Rendered, out'[n] = Append(out[n], frame),
               IF frame.type = "rendered" THEN frame.seq = agent[n].sent + 1 /\ agent'[n].sent = agent[n].sent + 1
                                          ELSE agent'[n].sent = agent[n].sent
        PROVE  Past(f)'
    <3>1. /\ Len(out'[n]) = Len(out[n]) + 1 /\ Len(out[n]) \in Nat
          /\ \A i \in 1..Len(out[n]) : out'[n][i] = out[n][i]
          /\ out'[n][Len(out[n]) + 1] = frame
      BY <2>2, Appended
    <3>2. agent[n].sent \in Nat /\ f.seq <= agent[n].sent
      BY <1>2, PipeTypes DEF Past
    <3>3. f.seq <= agent'[n].sent
      BY <1>0, <2>2, <3>2
    <3>4. ASSUME NEW i \in 1..Len(out'[n]), IsRendered(n, i)' PROVE f.seq < out'[n][i].seq
      <4>1. i \in 1..Len(out[n]) \/ i = Len(out[n]) + 1
        BY <3>1
      <4>2. CASE i \in 1..Len(out[n])
        BY <1>2, <3>1, <3>4, <4>2 DEF Past, IsRendered
      <4>3. CASE i = Len(out[n]) + 1
        BY <1>0, <2>2, <3>1, <3>2, <3>4, <4>3, SMTT(60) DEF IsRendered
      <4> QED
        BY <4>1, <4>2, <4>3
    <3> QED
      BY <1>0, <1>2, <3>3, <3>4 DEF Past
  <2> QED
    BY <2>1, <2>2, AgentPipe
<1> QED
  BY <1>1, <1>2

\* Where a session comes to hold a fragment from.
LEMMA HoldsFrom ==
  ASSUME Types, NEW n \in Nodes, SessionAction(n)
  PROVE  /\ ses'[n].pc = "send" => ses[n].pc = "send" \/ Takes(n)
         /\ ses'[n].pc = "claim" => ses[n].pc \in {"send", "claim"}
         /\ Holds(n) /\ Holds(n)' => ses'[n].held = ses[n].held
<1> USE SelfMoves DEF Holds, At
<1>1. CASE ses' = ses
  BY <1>1
<1>2. CASE Goes(n)
  BY <1>2 DEF Goes
<1>3. CASE Takes(n)
  BY <1>3 DEF Takes
<1>4. CASE Lets(n) \/ Ends(n)
  BY <1>4 DEF Ends
<1>5. CASE ~Holds(n) /\ Fails(n)
  BY <1>5
<1>6. CASE At(n, "send") /\ Moves(n, "claim")
  BY <1>6
<1> QED
  BY <1>1, <1>2, <1>3, <1>4, <1>5, <1>6, SessionShape

\* What a session takes comes after what has been forwarded.
LEMMA SessionKeepsPast ==
  ASSUME Types, OrderInv, NEW n \in Nodes, SessionAction(n), NEW f \in Fragments, Past(f)
  PROVE  Past(f)'
<1>0. f.node \in Nodes /\ f.seq \in Nat
  BY ForwardedType, OfFragments
<1>1. CASE f.node # n
  BY <1>0, <1>1, OthersStay DEF Past, IsRendered
<1>2. CASE f.node = n
  <2>1. agent'[n].sent = agent[n].sent
    BY SessionPipe DEF OrderInv
  <2>2. CASE out' = out /\ (Holds(n)' => Holds(n) /\ ses'[n].held = ses[n].held)
    <3>1. (ses'[n].pc = "send" => ses[n].pc = "send") /\ (ses'[n].pc = "claim" => ses[n].pc \in {"send", "claim"})
      BY <2>2, HoldsFrom DEF Takes, Holds, At
    <3>2. Holds(n) => ses[n].held.seq \in Nat
      BY PipeTypes
    <3>3. f.seq <= agent'[n].sent /\ \A i \in 1..Len(out'[n]) : IsRendered(n, i)' => f.seq < out'[n][i].seq
      BY <1>2, <2>1, <2>2 DEF Past, IsRendered
    <3>4. ses'[n].pc = "send" => f.seq < ses'[n].held.seq
      BY <1>2, <2>2, <3>1 DEF Past, Holds
    <3>5. ses'[n].pc = "claim" => f.seq <= ses'[n].held.seq
      BY <1>0, <1>2, <2>2, <3>1, <3>2 DEF Past, Holds
    <3> QED
      BY <1>2, <3>3, <3>4, <3>5 DEF Past
  <2>3. CASE out[n] # <<>> /\ out'[n] = Tail(out[n])
             /\ (Holds(n)' => Head(out[n]).type = "rendered" /\ ses'[n].held = Head(out[n]))
    <3>1. /\ Len(out[n]) \in Nat \ {0} /\ Len(out'[n]) = Len(out[n]) - 1
          /\ \A i \in 1..Len(out'[n]) : i + 1 \in 1..Len(out[n]) /\ out'[n][i] = out[n][i + 1]
          /\ Head(out[n]) = out[n][1] /\ 1 \in 1..Len(out[n])
      BY <2>3, Taken
    <3>2. ASSUME NEW i \in 1..Len(out'[n]), IsRendered(n, i)' PROVE f.seq < out'[n][i].seq
      BY <1>2, <3>1, <3>2 DEF Past, IsRendered
    <3>3. Holds(n)' => f.seq < ses'[n].held.seq
      BY <1>2, <2>3, <3>1 DEF Past, IsRendered
    <3>4. Holds(n)' => ses'[n].held.seq \in Nat
      <4>1. \A i \in 1..Len(out[n]) : IsRendered(n, i) => out[n][i].seq \in Nat
        BY PipeTypes
      <4> QED
        BY <2>3, <3>1, <4>1 DEF IsRendered
    <3>5. ses'[n].pc = "claim" => f.seq <= ses'[n].held.seq
      BY <1>0, <3>3, <3>4 DEF Holds
    <3> QED
      BY <1>2, <2>1, <3>2, <3>3, <3>5 DEF Past, Holds
  <2> QED
    BY <2>2, <2>3, SessionPipe DEF OrderInv
<1> QED
  BY <1>1, <1>2

\* What is forwarded now came before what is still to come.
LEMMA SendIsPast ==
  ASSUME Types, OrderInv, NEW n \in Nodes, SessionAction(n), Send(n), fwd # Gone
  PROVE  Past(ses[n].held)'
<1>1. At(n, "send") /\ Moves(n, "claim") /\ UNCHANGED <<agent, out>>
  BY DEF Send, nodeVars
<1>2. Holds(n) /\ ses[n].held.node = n /\ ses[n].held.seq \in Nat
  BY <1>1, PipeTypes DEF At, Holds
<1>3. ses'[n].pc = "claim" /\ ses'[n].held = ses[n].held
  BY <1>1, SelfMoves
<1>4. FrameInv(n)
  BY DEF OrderInv
<1>5. PICK h : h = ses[n].held
  OBVIOUS
<1>6. Past(h)'
  BY <1>1, <1>2, <1>3, <1>4, <1>5, SMTT(60) DEF FrameInv, Past, IsRendered
<1>7. ses[n].held.seq <= ses'[n].held.seq
  BY <1>2, <1>3
<1>8. ses[n].held.seq <= agent[n].sent /\ \A i \in 1..Len(out[n]) : IsRendered(n, i) => ses[n].held.seq < out[n][i].seq
  BY <1>2, <1>4 DEF FrameInv
<1> QED
  BY <1>3, <1>5, <1>6

\* Each fragment is in one place, and its node's fragments pass in order.
LEMMA DeliveryHolds == Spec => [](PlaceInv /\ PastInv)
<1>1. Init => PlaceInv /\ PastInv
  <2> SUFFICES ASSUME Init PROVE PlaceInv /\ PastInv
    OBVIOUS
  <2>1. chan = <<>> /\ sink = <<>> /\ printed = {} /\ fwd = None /\ ToSet(<<>>) = {}
    BY DEF Init, ToSet
  <2> QED
    BY <2>1 DEF PlaceInv, PastInv, Forwarded, Once
<1>2. Types /\ OrderInv /\ PlaceInv /\ PastInv /\ [Next]_vars => PlaceInv' /\ PastInv'
  <2> SUFFICES ASSUME Types, OrderInv, PlaceInv, PastInv, [Next]_vars PROVE PlaceInv' /\ PastInv'
    OBVIOUS
  <2>0. Forwarded \subseteq Fragments
    BY ForwardedType
  <2>1. ASSUME NEW n \in Nodes, AgentAction(n) PROVE PlaceInv' /\ PastInv'
    <3>1. UNCHANGED <<chan, fwd, sink, printed>> /\ Forwarded' = Forwarded
      BY <2>1, AgentPipe DEF Forwarded
    <3>2. \A f \in Forwarded : Past(f)'
      BY <2>0, <2>1, AgentKeepsPast DEF PastInv
    <3> QED
      BY <3>1, <3>2 DEF PlaceInv, PastInv
  <2>2. ASSUME NEW n \in Nodes, SessionAction(n) PROVE PlaceInv' /\ PastInv'
    <3>1. PlaceInv'
      BY <2>2, SessionForwards
    <3>2. \A f \in Forwarded : Past(f)'
      BY <2>0, <2>2, SessionKeepsPast DEF PastInv
    <3>3. CASE Send(n) /\ fwd # Gone
      <4>1. Forwarded' = Forwarded \cup {ses[n].held} /\ At(n, "send") /\ Moves(n, "claim")
        BY <2>2, <3>3, SessionForwards
      <4>2. Past(ses[n].held)' /\ ses'[n].held = ses[n].held
        BY <2>2, <3>3, <4>1, SendIsPast, SelfMoves
      <4>3. \A f \in Forwarded' : f \in Forwarded \/ f = ses'[n].held
        BY <4>1, <4>2
      <4>4. \A f \in Forwarded' : Past(f)'
        <5> TAKE f \in Forwarded'
        <5>1. CASE f \in Forwarded
          BY <3>2, <5>1, SMTT(60)
        <5>2. CASE f = ses'[n].held
          BY <4>2, <5>2 DEF Past
        <5> QED
          BY <4>3, <5>1, <5>2
      <4> QED
        BY <3>1, <4>4 DEF PastInv
    <3>4. CASE ~(Send(n) /\ fwd # Gone)
      BY <2>2, <3>1, <3>2, <3>4, SessionForwards DEF PastInv
    <3> QED
      BY <3>3, <3>4
  <2>3. CASE Forward \/ Prints \/ Exits
    <3>1. PlaceInv' /\ Forwarded' \subseteq Forwarded
      BY <2>3, SinkMoves
    <3>2. UNCHANGED <<agent, out, ses>>
      BY <2>3 DEF Forward, Prints, Exits, nodeVars
    <3>3. \A f \in Forwarded : Past(f)'
      BY <3>2 DEF PastInv, Past, IsRendered
    <3> QED
      BY <3>1, <3>3 DEF PastInv
  <2>4. CASE UNCHANGED vars
    <3>1. UNCHANGED <<agent, out, ses, chan, fwd, sink, printed>>
      BY <2>4 DEF vars
    <3>2. Forwarded' = Forwarded
      BY <3>1 DEF Forwarded
    <3> QED
      BY <3>1, <3>2 DEF PlaceInv, PastInv, Past, IsRendered
  <2> QED
    BY <2>1, <2>2, <2>3, <2>4 DEF Next
<1> QED
  BY <1>1, <1>2, TypesHold, OrderHolds, PTL DEF Spec

-------------------------------------------------------------------------------
\* The cap: a session takes a fragment only while matches are left to claim, and
\* what is taken and not claimed is a fragment per node at most.
InFlight == {n \in mode.nodes : Holds(n)}
CapInv ==
  Capped => claimed + Cardinality(InFlight) * Largest <= mode.cap - 1 + Cardinality(mode.nodes) * Largest

\* Products of natural numbers.
LEMMA Times ==
  /\ \A a, b, l \in Nat : a <= b => a * l <= b * l
  /\ \A a, l \in Nat : (a + 1) * l = a * l + l
  /\ \A a, l \in Nat : a * l \in Nat
<1>1. \A a, l \in Nat : a * l \in Nat
  OBVIOUS
<1>2. \A a, l \in Nat : (a + 1) * l = a * l + l
  OBVIOUS
<1>3. ASSUME NEW a \in Nat, NEW b \in Nat, NEW l \in Nat, a <= b PROVE a * l <= b * l
  <2>1. PICK c \in Nat : b = a + c
    <3>1. b - a \in Nat /\ b = a + (b - a)
      BY <1>3
    <3> QED
      BY <3>1
  <2>2. (a + c) * l = a * l + c * l /\ c * l \in Nat /\ a * l \in Nat
    BY <1>1
  <2> QED
    BY <2>1, <2>2
<1> QED
  BY <1>1, <1>2, <1>3

\* The sessions in flight are among the nodes in use.
LEMMA InFlightFacts ==
  ASSUME Types
  PROVE  /\ InFlight \in SUBSET mode.nodes /\ IsFiniteSet(InFlight) /\ Cardinality(InFlight) \in Nat
         /\ Cardinality(InFlight) <= Cardinality(mode.nodes)
         /\ IsFiniteSet(mode.nodes) /\ Cardinality(mode.nodes) \in Nat /\ mode.cap \in Nat /\ claimed \in Nat
         /\ Largest \in Nat /\ CaseFacts
<1>1. CaseFacts /\ claimed \in Nat
  BY RemoteAssumption DEF Types, CaseFacts, SessionTypes
<1>2. InFlight \in SUBSET mode.nodes /\ IsFiniteSet(mode.nodes) /\ Cardinality(mode.nodes) \in Nat /\ mode.cap \in Nat
  BY <1>1, CapType DEF InFlight
<1>3. IsFiniteSet(InFlight) /\ Cardinality(InFlight) <= Cardinality(mode.nodes)
  BY <1>2, FS_Subset
<1> QED
  BY <1>1, <1>2, <1>3, LargestFacts, FS_CardinalityType

\* A fragment is taken only while matches are left (the look at the counter, session.rs 240).
LEMMA TakesUnderCap ==
  ASSUME Types, NEW n \in Nodes, SessionAction(n), Takes(n)
  PROVE  Read(n) /\ ~ReachedMax /\ claimed' = claimed
<1>0. At(n, "drain") /\ out[n] # <<>> /\ ses'[n].pc = "send" /\ Head(out[n]).type = "rendered"
  BY SelfMoves DEF Takes
<1>1. Read(n)
  BY <1>0 DEF SessionAction, SessionStep, Dial, Exec, Preamble, SendHello, ReadWelcome,
     HandshakeTimeout, SendJob,
         ReadEof, ReadTimeout, EndOfFile, Send, Claim, WaitExit, Cleanup, Record, At
<1>2. Receive(n) => ~ReachedMax
  BY <1>0, SelfMoves DEF Receive
<1>3. Receive(n)
  BY <1>0, <1>1 DEF Read
<1>4. claimed' = claimed
  BY <1>1 DEF Read
<1> QED
  BY <1>1, <1>2, <1>3, <1>4

\* CapInv holds in every reachable state.
LEMMA CapHolding == Spec => []CapInv
<1>1. Init => CapInv
  <2> SUFFICES ASSUME Init, Capped PROVE CapInv
    BY DEF CapInv
  <2>1. claimed = 0 /\ Types /\ InFlight = {}
    BY InitTypes, RemoteAssumption DEF Init, InFlight, Holds
  <2>2. Cardinality(InFlight) = 0 /\ mode.cap \in Nat \ {0} /\ Largest \in Nat /\ Cardinality(mode.nodes) \in Nat
    BY <2>1, InFlightFacts, FS_EmptySet DEF Capped
  <2>3. Cardinality(mode.nodes) * Largest \in Nat /\ 0 * Largest = 0
    BY <2>2, Times
  <2>4. 0 + 0 * Largest <= mode.cap - 1 + Cardinality(mode.nodes) * Largest
    BY <2>2, <2>3
  <2> QED
    BY <2>1, <2>2, <2>4 DEF CapInv
<1>2. Types /\ CapInv /\ [Next]_vars => CapInv'
  <2> SUFFICES ASSUME Types, CapInv, [Next]_vars, Capped' PROVE CapInv'
    BY DEF CapInv
  <2>1. CASE UNCHANGED <<mode, ses, claimed>>
    <3>1. InFlight' = InFlight /\ Largest' = Largest
      BY <2>1, SameCase DEF InFlight, Holds
    <3> QED
      BY <2>1, <3>1 DEF CapInv, Capped
  <2>2. ASSUME NEW n \in Nodes, SessionAction(n) PROVE CapInv'
    <3>1. mode' = mode /\ Largest' = Largest /\ Capped
      BY <2>2, SessionShape, SameCase
    <3>2. Types'
      BY <2>2, SessionKeepsTypes, RemoteAssumption
    <3>3. claimed \in Nat /\ claimed' \in Nat /\ Cardinality(InFlight) \in Nat /\ Cardinality(InFlight') \in Nat
          /\ Cardinality(InFlight') <= Cardinality(mode.nodes) /\ Largest \in Nat /\ mode.cap \in Nat \ {0}
          /\ Cardinality(mode.nodes) \in Nat /\ IsFiniteSet(InFlight)
      <4>1. Cardinality(InFlight') \in Nat /\ Cardinality(InFlight') <= Cardinality(mode.nodes) /\ claimed' \in Nat
        <5>1. InFlight' \in SUBSET mode.nodes /\ IsFiniteSet(mode.nodes)
          BY <3>1, InFlightFacts DEF InFlight
        <5> QED
          BY <3>2, <5>1, FS_Subset, FS_CardinalityType DEF Types, SessionTypes
      <4> QED
        BY <3>1, <4>1, InFlightFacts DEF Capped
    <3>4. claimed + Cardinality(InFlight) * Largest <= mode.cap - 1 + Cardinality(mode.nodes) * Largest
      BY <3>1 DEF CapInv
    <3>5. \A m \in Nodes : m # n => (Holds(m)' <=> Holds(m))
      BY <2>2, OthersStay DEF Holds
    <3>6. mode.nodes \in SUBSET Nodes
      BY CapType, InFlightFacts
    <3>7. CASE Takes(n)
      <4>1. claimed' = claimed /\ claimed < mode.cap
        BY <2>2, <3>1, <3>3, <3>7, TakesUnderCap DEF ReachedMax
      <4>2. Cardinality(InFlight') * Largest <= Cardinality(mode.nodes) * Largest
            /\ Cardinality(InFlight') * Largest \in Nat /\ Cardinality(mode.nodes) * Largest \in Nat
        BY <3>3, Times
      <4>3. claimed' + Cardinality(InFlight') * Largest <= mode.cap - 1 + Cardinality(mode.nodes) * Largest
        BY <3>3, <4>1, <4>2
      <4> QED
        BY <3>1, <4>3 DEF CapInv
    <3>8. CASE ~Takes(n)
      <4>1. Holds(n)' => Holds(n)
        BY <2>2, <3>8, HoldsFrom DEF Holds
      <4>2. InFlight' \in SUBSET InFlight
        BY <3>1, <3>5, <3>6, <4>1 DEF InFlight
      <4>3. CASE claimed' = claimed
        <5>1. Cardinality(InFlight') <= Cardinality(InFlight)
          BY <3>3, <4>2, FS_Subset
        <5>2. Cardinality(InFlight') * Largest <= Cardinality(InFlight) * Largest
              /\ Cardinality(InFlight') * Largest \in Nat /\ Cardinality(InFlight) * Largest \in Nat
              /\ Cardinality(mode.nodes) * Largest \in Nat
          BY <3>3, <5>1, Times
        <5>3. claimed' + Cardinality(InFlight') * Largest <= mode.cap - 1 + Cardinality(mode.nodes) * Largest
          BY <3>3, <3>4, <4>3, <5>2
        <5> QED
          BY <3>1, <5>3 DEF CapInv
      <4>4. CASE At(n, "claim") /\ claimed' = claimed + ses[n].held.count
        <5>1. Holds(n) /\ n \in mode.nodes /\ ses[n].held \in Fragments
          BY <4>4, PipeTypes DEF Holds, At, Types, SessionTypes
        <5>2. ses[n].held.count \in Nat /\ ses[n].held.count <= Largest
          BY <5>1, InFlightFacts, LargestFacts, OfFragments
        <5>3. n \in InFlight /\ ~Holds(n)'
          <6>1. Claim(n) \/ claimed' = claimed
            BY <2>2 DEF SessionAction, SessionStep, Dial, Exec, Preamble, SendHello, ReadWelcome,
               HandshakeTimeout, SendJob, Read,
               ReadEof, ReadTimeout, Send, WaitExit, Cleanup, Record
          <6>2. ses[n].held.count # 0
            BY <5>1, InFlightFacts, OfFragments
          <6>3. Claim(n)
            BY <3>3, <4>4, <5>2, <6>1, <6>2
          <6>4. Lets(n)
            BY <6>3 DEF Claim, Lets, Holds, At
          <6> QED
            BY <5>1, <6>4, SelfMoves DEF InFlight, Holds
        <5>4. InFlight' \in SUBSET (InFlight \ {n})
          BY <4>2, <5>3 DEF InFlight
        <5>5. IsFiniteSet(InFlight \ {n}) /\ Cardinality(InFlight \ {n}) = Cardinality(InFlight) - 1
          BY <3>3, <5>3, FS_RemoveElement
        <5>6. Cardinality(InFlight') <= Cardinality(InFlight) - 1
          BY <5>4, <5>5, FS_Subset
        <5>7. (Cardinality(InFlight') + 1) * Largest <= Cardinality(InFlight) * Largest
              /\ (Cardinality(InFlight') + 1) * Largest = Cardinality(InFlight') * Largest + Largest
              /\ Cardinality(InFlight') * Largest \in Nat /\ Cardinality(InFlight) * Largest \in Nat
              /\ Cardinality(mode.nodes) * Largest \in Nat
          <6>1. Cardinality(InFlight') + 1 <= Cardinality(InFlight) /\ Cardinality(InFlight') + 1 \in Nat
            BY <3>3, <5>6
          <6> QED
            BY <3>3, <6>1, Times
        <5>8. claimed' + Cardinality(InFlight') * Largest <= mode.cap - 1 + Cardinality(mode.nodes) * Largest
          BY <3>3, <3>4, <4>4, <5>2, <5>7
        <5> QED
          BY <3>1, <5>8 DEF CapInv
      <4> QED
        BY <2>2, <4>3, <4>4, SessionShape
    <3> QED
      BY <3>7, <3>8
  <2>3. ASSUME NEW n \in Nodes, AgentAction(n) PROVE CapInv'
    BY <2>1, <2>3, AgentPipe
  <2>4. CASE Forward \/ Prints \/ Exits \/ UNCHANGED vars
    BY <2>1, <2>4 DEF Forward, Prints, Exits, vars
  <2> QED
    BY <2>2, <2>3, <2>4 DEF Next
<1> QED
  BY <1>1, <1>2, TypesHold, PTL DEF Spec

\* What is forwarded and no longer claimed for is what has been claimed, as long
\* as the printer prints and nothing forwarded is lost.
Claiming(f) == ses[f.node].pc = "claim" /\ ses[f.node].held = f
Settled     == {f \in Forwarded : ~Claiming(f)}
SumInv ==
  /\ Capped => MatchesOf(Settled) <= claimed /\ (printer = "printing" => MatchesOf(Settled) = claimed)
  /\ printer = "printing" => \A n \in Nodes : ses[n].pc = "claim" => ses[n].held \in Forwarded

\* A claim follows a send, and ends what is in flight (session.rs 247-250).
LEMMA ClaimMoves ==
  ASSUME Types, NEW n \in Nodes, SessionAction(n)
  PROVE  /\ ses[n].pc = "claim" => Claim(n)
         /\ Claim(n) => ses[n].pc = "claim" /\ ses'[n].pc = "drain" /\ ~Send(n)
         /\ ses'[n].pc = "claim" <=> Send(n) /\ fwd # Gone
<1>1. ses[n].pc = "claim" => Claim(n)
  BY DEF SessionAction, SessionStep, Dial, Exec, Preamble, SendHello, ReadWelcome,
     HandshakeTimeout, SendJob, Read,
         ReadEof, ReadTimeout, Send, WaitExit, Cleanup, Record, At
<1>2. Claim(n) => ses[n].pc = "claim" /\ ses'[n].pc = "drain" /\ ~Send(n)
  BY DEF Claim, At, Send, Types, SessionTypes, SesRecord
<1>3. Send(n) /\ fwd # Gone => ses'[n].pc = "claim"
  BY SelfMoves DEF Send
<1>4. ASSUME ses'[n].pc = "claim" PROVE Send(n) /\ fwd # Gone
  <2>1. ses[n].pc = "send"
    BY <1>1, <1>2, <1>4, HoldsFrom
  <2>2. Send(n)
    BY <2>1 DEF SessionAction, SessionStep, Dial, Exec, Preamble, SendHello, ReadWelcome,
       HandshakeTimeout, SendJob, Read,
         ReadEof, ReadTimeout, Claim, WaitExit, Cleanup, Record, At
  <2>3. ses' = [ses EXCEPT ![n].pc = "wait", ![n].held = None] => ses'[n].pc = "wait"
    BY DEF Types, SessionTypes, SesRecord
  <2> QED
    BY <1>4, <2>2, <2>3 DEF Send
<1> QED
  BY <1>1, <1>2, <1>3, <1>4

\* Any set of fragments has finitely many matches.
LEMMA SettledFacts ==
  ASSUME Types, NEW S \in SUBSET Fragments
  PROVE  IsFiniteSet(S) /\ (\A f \in S : f.count \in Nat) /\ MatchesOf(S) \in Nat
<1> QED
  BY ForwardedType, FragmentsFinite, MatchesMonotone

\* A step of a session keeps SumInv.
LEMMA SettleStep ==
  ASSUME Types, PlaceInv, PastInv, SumInv, NEW n \in Nodes, SessionAction(n)
  PROVE  SumInv'
<1>0. mode' = mode /\ Capped' = Capped /\ UNCHANGED printer /\ claimed \in Nat /\ CaseFacts
  BY SessionShape, SameCase, InFlightFacts
<1>1. Forwarded \subseteq Fragments /\ Settled \in SUBSET Fragments
  BY ForwardedType DEF Settled
<1>2. IsFiniteSet(Settled) /\ (\A f \in Settled : f.count \in Nat) /\ MatchesOf(Settled) \in Nat
  BY <1>1, SettledFacts
<1>3. \A f \in Fragments : f.node \in Nodes
  BY <1>0, OfFragments
<1>4. \A f \in Fragments : f.node # n => (Claiming(f)' <=> Claiming(f))
  BY <1>3, OthersStay DEF Claiming
<1>5. CASE Send(n) /\ fwd # Gone
  <2>1. /\ ses[n].held \notin Forwarded /\ ses[n].held \in Fragments /\ Forwarded' = Forwarded \cup {ses[n].held}
        /\ At(n, "send") /\ Moves(n, "claim") /\ UNCHANGED claimed
    BY <1>5, SessionForwards
  <2>2. ses[n].held.node = n /\ ses'[n].pc = "claim" /\ ses'[n].held = ses[n].held
    BY <2>1, SelfMoves, PipeTypes DEF At, Holds
  <2>3. \A f \in Forwarded : Claiming(f)' <=> Claiming(f)
    <3> TAKE f \in Forwarded
    <3>1. CASE f.node = n
      BY <2>1, <2>2, <3>1 DEF Claiming, At
    <3> QED
      BY <1>1, <1>4, <3>1
  <2>4. \A f : f = ses[n].held => Claiming(f)'
    BY <2>2 DEF Claiming
  <2>5. Settled' = Settled
    <3>1. \A f : f \in Settled' <=> f \in Forwarded' /\ ~Claiming(f)'
      BY DEF Settled
    <3>2. \A f : f \in Settled' <=> f \in Settled
      BY <2>1, <2>3, <2>4, <3>1 DEF Settled
    <3> QED
      BY <3>2
  <2>6. ASSUME printer = "printing", NEW m \in Nodes, ses'[m].pc = "claim" PROVE ses'[m].held \in Forwarded'
    BY <2>1, <2>2, <2>6, OthersStay DEF SumInv
  <2>7. MatchesOf(Settled)' = MatchesOf(Settled)
    BY <2>5 DEF MatchesOf
  <2> QED
    BY <1>0, <2>1, <2>6, <2>7 DEF SumInv
<1>6. CASE Claim(n)
  <2>1. ses[n].pc = "claim" /\ ses'[n].pc = "drain" /\ ~Send(n)
    BY <1>6, ClaimMoves
  <2>2. Forwarded' = Forwarded
    BY <2>1, SessionForwards
  <2>3. ses[n].held \in Fragments /\ ses[n].held.node = n /\ ses[n].held.count \in Nat
    BY <2>1, PipeTypes DEF Holds
  <2>4. PICK h : h = ses[n].held
    OBVIOUS
  <2>5. \A f \in Forwarded : ~Claiming(f)' <=> f \in Settled \/ f = h
    <3> TAKE f \in Forwarded
    <3>1. CASE f.node = n
      BY <2>1, <2>4, <3>1 DEF Claiming, Settled
    <3>2. CASE f.node # n
      BY <1>1, <1>4, <2>3, <2>4, <3>2 DEF Settled
    <3> QED
      BY <3>1, <3>2
  <2>6. \A f : f \in Settled' <=> f \in Forwarded' /\ ~Claiming(f)'
    BY DEF Settled
  <2>7. h \notin Settled
    BY <2>1, <2>3, <2>4 DEF Settled, Claiming
  <2>8. Capped => claimed' = claimed + h.count
    BY <1>6, <2>4 DEF Claim
  <2>9. ASSUME printer = "printing", NEW m \in Nodes, ses'[m].pc = "claim" PROVE ses'[m].held \in Forwarded'
    BY <2>1, <2>2, <2>9, OthersStay DEF SumInv
  <2>10. CASE h \in Forwarded
    <3>1. Settled' = Settled \cup {h}
      BY <2>2, <2>5, <2>6, <2>10 DEF Settled
    <3>2. MatchesOf(Settled \cup {h}) = MatchesOf(Settled) + h.count
      BY <1>2, <2>3, <2>4, <2>7, MatchesAdd
    <3>3. MatchesOf(Settled)' = MatchesOf(Settled) + h.count
      BY <3>1, <3>2 DEF MatchesOf
    <3>4. Capped => MatchesOf(Settled)' <= claimed' /\ (printer = "printing" => MatchesOf(Settled)' = claimed')
      BY <1>0, <1>2, <2>3, <2>4, <2>8, <3>3 DEF SumInv
    <3> QED
      BY <1>0, <2>9, <3>4 DEF SumInv
  <2>11. CASE h \notin Forwarded
    <3>1. Settled' = Settled
      BY <2>2, <2>5, <2>6, <2>11 DEF Settled
    <3>2. MatchesOf(Settled)' = MatchesOf(Settled) /\ printer # "printing"
      BY <2>1, <2>4, <2>11, <3>1 DEF MatchesOf, SumInv
    <3>3. Capped => MatchesOf(Settled)' <= claimed'
      BY <1>0, <1>2, <2>3, <2>4, <2>8, <3>2 DEF SumInv
    <3> QED
      BY <1>0, <3>2, <3>3 DEF SumInv
  <2> QED
    BY <2>10, <2>11
<1>7. CASE ~Claim(n) /\ ~(Send(n) /\ fwd # Gone)
  <2>1. ses[n].pc # "claim" /\ ses'[n].pc # "claim"
    BY <1>7, ClaimMoves
  <2>2. Forwarded' = Forwarded
    BY <1>7, SessionForwards
  <2>3. \A f \in Fragments : Claiming(f)' <=> Claiming(f)
    BY <1>4, <2>1 DEF Claiming
  <2>4. Settled' = Settled
    <3>1. \A f : f \in Settled' <=> f \in Forwarded' /\ ~Claiming(f)'
      BY DEF Settled
    <3>2. \A f : f \in Settled' <=> f \in Settled
      BY <1>1, <2>2, <2>3, <3>1 DEF Settled
    <3> QED
      BY <3>2
  <2>5. claimed' = claimed
    BY <1>7, <2>1, SessionShape DEF At
  <2>6. ASSUME printer = "printing", NEW m \in Nodes, ses'[m].pc = "claim" PROVE ses'[m].held \in Forwarded'
    BY <2>1, <2>2, <2>6, OthersStay DEF SumInv
  <2>7. MatchesOf(Settled)' = MatchesOf(Settled)
    BY <2>4 DEF MatchesOf
  <2> QED
    BY <1>0, <2>5, <2>6, <2>7 DEF SumInv
<1> QED
  BY <1>5, <1>6, <1>7

\* SumInv holds in every reachable state.
LEMMA SumHolds == Spec => []SumInv
<1>1. Init => SumInv
  <2> SUFFICES ASSUME Init PROVE SumInv
    OBVIOUS
  <2>1. Forwarded = {} /\ claimed = 0
    BY DEF Init, Forwarded, ToSet
  <2>2. Settled = {} /\ MatchesOf({}) = 0
    BY <2>1, MatchesNone DEF Settled
  <2>3. \A n \in Nodes : ses[n].pc # "claim"
    BY DEF Init
  <2> QED
    BY <2>1, <2>2, <2>3 DEF SumInv
<1>2. Types /\ PlaceInv /\ PastInv /\ SumInv /\ [Next]_vars => SumInv'
  <2> SUFFICES ASSUME Types, PlaceInv, PastInv, SumInv, [Next]_vars PROVE SumInv'
    OBVIOUS
  <2>1. ASSUME UNCHANGED <<mode, ses, claimed, printer>>, Forwarded' = Forwarded PROVE SumInv'
    <3>1. \A f : Claiming(f)' <=> Claiming(f)
      BY <2>1 DEF Claiming
    <3>2. Settled' = Settled
      BY <2>1, <3>1 DEF Settled
    <3>3. MatchesOf(Settled)' = MatchesOf(Settled)
      BY <3>2 DEF MatchesOf
    <3> QED
      BY <2>1, <3>3 DEF SumInv, Capped
  <2>2. ASSUME NEW n \in Nodes, SessionAction(n) PROVE SumInv'
    BY <2>2, SettleStep
  <2>3. ASSUME NEW n \in Nodes, AgentAction(n) PROVE SumInv'
    BY <2>1, <2>3, AgentPipe DEF Forwarded
  <2>4. CASE Forward \/ Prints \/ Exits
    <3>1. UNCHANGED <<mode, ses, claimed>>
      BY <2>4 DEF Forward, Prints, Exits
    <3>2. Forwarded' \subseteq Forwarded /\ (printer' = "printing" => Forwarded' = Forwarded /\ printer = "printing")
      BY <2>4, SinkMoves
    <3>3. CASE printer' = "printing"
      BY <2>1, <3>1, <3>2, <3>3
    <3>4. CASE printer' # "printing"
      <4>1. \A f : Claiming(f)' <=> Claiming(f)
        BY <3>1 DEF Claiming
      <4>2. Settled' \in SUBSET Settled
        BY <3>2, <4>1 DEF Settled
      <4>3. Settled \in SUBSET Fragments
        BY ForwardedType DEF Settled
      <4>4. IsFiniteSet(Settled) /\ (\A f \in Settled : f.count \in Nat) /\ MatchesOf(Settled) \in Nat
        BY <4>3, SettledFacts
      <4>5. PICK T : T = Settled'
        OBVIOUS
      <4>6. MatchesOf(T) <= MatchesOf(Settled) /\ MatchesOf(T) \in Nat
        BY <4>2, <4>4, <4>5, MatchesMonotone
      <4>7. MatchesOf(Settled)' = MatchesOf(T)
        BY <4>5 DEF MatchesOf
      <4>8. claimed \in Nat
        BY InFlightFacts
      <4>9. Capped => MatchesOf(Settled)' <= claimed'
        BY <3>1, <4>4, <4>6, <4>7, <4>8 DEF SumInv
      <4> QED
        BY <3>1, <3>4, <4>9 DEF SumInv, Capped
    <3> QED
      BY <3>3, <3>4
  <2>5. CASE UNCHANGED vars
    BY <2>1, <2>5 DEF vars, Forwarded
  <2> QED
    BY <2>2, <2>3, <2>4, <2>5 DEF Next
<1> QED
  BY <1>1, <1>2, TypesHold, DeliveryHolds, PTL DEF Spec

-------------------------------------------------------------------------------
\* What is being claimed for is a fragment per session in flight at most.
Claims == {f \in Forwarded : Claiming(f)}

\* What is forwarded and not settled is a fragment per session in flight at most.
LEMMA ClaimsBound ==
  ASSUME Types
  PROVE  MatchesOf(Forwarded) <= MatchesOf(Settled) + Cardinality(InFlight) * Largest
<1>0. CaseFacts /\ Forwarded \in SUBSET Fragments /\ Claims \in SUBSET Fragments /\ Settled \in SUBSET Fragments
      /\ Forwarded = Settled \cup Claims
  BY ForwardedType DEF Claims, Settled
<1>1. IsFiniteSet(Claims) /\ IsFiniteSet(Settled) /\ (\A f \in Claims : f.count \in Nat) /\ (\A f \in Settled : f.count \in Nat)
  BY <1>0, SettledFacts
<1>2. Largest \in Nat /\ (\A f \in Claims : f.count \in Nat /\ f.count <= Largest) /\ IsFiniteSet(InFlight) /\ Cardinality(InFlight) \in Nat
  BY <1>0, <1>1, LargestFacts, InFlightFacts
<1>3. Cardinality(Claims) <= Cardinality(InFlight) /\ Cardinality(Claims) \in Nat
  <2> DEFINE g == [f \in Claims |-> f.node]
  <2>1. \A f \in Claims : f.node \in InFlight
    BY <1>0, OfFragments DEF Claims, Claiming, InFlight, Holds
  <2>2. \A f, h \in Claims : f.node = h.node => f = h
    BY DEF Claims, Claiming
  <2>3. g \in [Claims -> InFlight] /\ \A f, h \in Claims : g[f] = g[h] => f = h
    BY <2>1, <2>2
  <2>4. g \in Injection(Claims, InFlight)
    <3> HIDE DEF g
    <3> QED
      BY <2>3, Fun_IsInj
  <2> HIDE DEF g
  <2> QED
    BY <1>1, <1>2, <2>4, FS_Injection, FS_CardinalityType
<1>4. MatchesOf(Claims) \in Nat /\ MatchesOf(Claims) <= Cardinality(InFlight) * Largest
  <2>1. IsFiniteSet(1..Largest) /\ Cardinality(1..Largest) = Largest
    BY <1>2, RangeFinite
  <2>2. IsFiniteSet(Claims \X (1..Largest)) /\ Cardinality(Claims \X (1..Largest)) = Cardinality(Claims) * Cardinality(1..Largest)
    BY <1>1, <2>1, FS_Product
  <2>3. MatchSet(Claims) \in SUBSET (Claims \X (1..Largest))
    <3> SUFFICES ASSUME NEW f \in Claims, NEW i \in 1..f.count PROVE i \in 1..Largest
      BY DEF MatchSet
    <3> QED
      BY <1>2
  <2>4. Cardinality(MatchSet(Claims)) <= Cardinality(Claims \X (1..Largest))
    BY <2>2, <2>3, FS_Subset
  <2>5. MatchesOf(Claims) <= Cardinality(Claims) * Largest
    <3>1. Cardinality(Claims \X (1..Largest)) = Cardinality(Claims) * Largest
      BY <2>1, <2>2
    <3> QED
      BY <2>4, <3>1 DEF MatchesOf, MatchSet
  <2>6. MatchesOf(Claims) \in Nat
    BY <1>0, SettledFacts
  <2>7. Cardinality(Claims) * Largest <= Cardinality(InFlight) * Largest /\ Cardinality(Claims) * Largest \in Nat
        /\ Cardinality(InFlight) * Largest \in Nat
    BY <1>2, <1>3, Times
  <2> QED
    BY <2>5, <2>6, <2>7
<1>5. MatchesOf(Forwarded) <= MatchesOf(Settled) + MatchesOf(Claims)
  <2>1. MatchSet(Forwarded) = MatchSet(Settled) \cup MatchSet(Claims)
    BY <1>0 DEF MatchSet
  <2>2. IsFiniteSet(MatchSet(Settled)) /\ IsFiniteSet(MatchSet(Claims))
    BY <1>1, MatchesFinite
  <2>3. Cardinality(MatchSet(Forwarded)) = Cardinality(MatchSet(Settled)) + Cardinality(MatchSet(Claims))
                                          - Cardinality(MatchSet(Settled) \cap MatchSet(Claims))
    BY <2>1, <2>2, FS_Union
  <2>4. Cardinality(MatchSet(Settled) \cap MatchSet(Claims)) \in Nat /\ Cardinality(MatchSet(Settled)) \in Nat
        /\ Cardinality(MatchSet(Claims)) \in Nat
    BY <2>2, FS_Intersection, FS_CardinalityType
  <2>5. Cardinality(MatchSet(Forwarded)) <= Cardinality(MatchSet(Settled)) + Cardinality(MatchSet(Claims))
    BY <2>3, <2>4
  <2> QED
    BY <2>5 DEF MatchesOf, MatchSet
<1>6. MatchesOf(Settled) \in Nat /\ MatchesOf(Forwarded) \in Nat
  BY <1>0, SettledFacts
<1>7. Cardinality(InFlight) * Largest \in Nat
  BY <1>2, Times
<1> QED
  BY <1>4, <1>5, <1>6, <1>7

\* Nothing is in two places, so that what the channels and the printer have is no
\* more than there is.
LEMMA NothingTwice ==
  ASSUME Types, PlaceInv
  PROVE  Cardinality(printed) + Len(chan) + Len(sink) <= Cardinality(Fragments)
<1>1. /\ IsFiniteSet(Fragments) /\ ToSet(chan) \subseteq Fragments /\ ToSet(sink) \subseteq Fragments
      /\ printed \subseteq Fragments /\ IsFiniteSet(printed)
  BY ForwardedType, FragmentsFinite, FS_Subset DEF Types, SinkTypes
<1>2. /\ IsFiniteSet(ToSet(chan)) /\ Cardinality(ToSet(chan)) = Len(chan)
      /\ IsFiniteSet(ToSet(sink)) /\ Cardinality(ToSet(sink)) = Len(sink)
  BY OnceCount DEF PlaceInv, Types, SinkTypes
<1>3. Len(chan) \in Nat /\ Len(sink) \in Nat /\ Cardinality(printed) \in Nat
  BY <1>1, LenProperties, FS_CardinalityType DEF Types, SinkTypes
<1> DEFINE U == ToSet(chan) \cup ToSet(sink)
<1>4. IsFiniteSet(U) /\ Cardinality(U) = Len(chan) + Len(sink) - 0
  <2>1. ToSet(chan) \cap ToSet(sink) = {} /\ Cardinality({}) = 0
    BY FS_EmptySet DEF PlaceInv
  <2>2. IsFiniteSet(U) /\ Cardinality(U) = Cardinality(ToSet(chan)) + Cardinality(ToSet(sink)) - Cardinality(ToSet(chan) \cap ToSet(sink))
    BY <1>2, FS_Union
  <2> QED
    BY <1>2, <2>1, <2>2
<1>5. U \cap printed = {} /\ U \cup printed \in SUBSET Fragments
  BY <1>1 DEF PlaceInv
<1> HIDE DEF U
<1>6. Cardinality(U \cup printed) = Cardinality(U) + Cardinality(printed) - 0
  <2>1. Cardinality(U \cup printed) = Cardinality(U) + Cardinality(printed) - Cardinality(U \cap printed)
    BY <1>1, <1>4, FS_Union
  <2> QED
    BY <1>5, <2>1, FS_EmptySet
<1>7. Cardinality(U \cup printed) <= Cardinality(Fragments) /\ Cardinality(Fragments) \in Nat
  BY <1>1, <1>5, FS_Subset, FS_CardinalityType
<1> QED
  BY <1>3, <1>4, <1>6, <1>7

\* The invariants imply TypeOK.
LEMMA TypesMean ==
  ASSUME Types, PlaceInv
  PROVE  TypeOK
<1>1. \A n \in Nodes : /\ Len(out[n]) <= Pipe /\ ses[n].pc \in SesPcs /\ ses[n].failed \in BOOLEAN
                       /\ IF ses[n].pc \in {"send", "claim"} THEN ses[n].held \in Fragments ELSE ses[n].held = None
  BY DEF Types, AgentTypes, SessionTypes, SesRecord, Holds
<1>2. ToSet(chan) \cup ToSet(sink) \cup printed \subseteq Fragments
  BY ForwardedType DEF Types, SinkTypes
<1>3. Cardinality(printed) + Len(chan) + Len(sink) <= Cardinality(Fragments)
  BY NothingTwice
<1> QED
  BY <1>1, <1>2, <1>3 DEF TypeOK, Types, AgentTypes, SessionTypes, SinkTypes

\* The buffers stay within their sizes, a session holds a fragment exactly while
\* it sends or claims it, and no fragment is in two places (TypeOK).
THEOREM TypeCorrect == Spec => []TypeOK
<1>1. Types /\ PlaceInv => TypeOK
  BY TypesMean
<1> QED
  BY <1>1, TypesHold, DeliveryHolds, PTL

\* The cap on results is exact for one node, and for several exceeded by less
\* than a fragment per node: the sessions look at the shared counter before they
\* forward and claim after (session.rs 240-250), in whatever order they do.
THEOREM CapIsKept == Spec => []CapHolds
<1>1. Types /\ PlaceInv /\ CapInv /\ SumInv => CapHolds
  <2> SUFFICES ASSUME Types, PlaceInv, CapInv, SumInv, Capped
               PROVE  MatchesOf(Forwarded) <= (IF Cardinality(mode.nodes) = 1 THEN mode.cap
                                               ELSE mode.cap - 1 + Cardinality(mode.nodes) * Largest)
    BY TypesMean DEF CapHolds
  <2>1. CaseFacts /\ Forwarded \in SUBSET Fragments /\ Settled \in SUBSET Fragments
    BY ForwardedType DEF Settled
  <2>2. MatchesOf(Forwarded) \in Nat /\ MatchesOf(Settled) \in Nat
    BY <2>1, SettledFacts
  <2>3. CASE Cardinality(mode.nodes) = 1
    <3>1. PICK n : mode.nodes = {n}
      BY <2>1, <2>3, CapType, FS_Singleton
    <3>2. MatchesOf(Fragments) <= mode.cap
      BY <2>1, <3>1, OneNodeWithinCap
    <3>3. MatchesOf(Forwarded) <= MatchesOf(Fragments) /\ MatchesOf(Fragments) \in Nat
      BY <2>1, FragmentsFinite, MatchesMonotone, SettledFacts
    <3> QED
      BY <2>1, <2>2, <2>3, <3>2, <3>3, CapType
  <2>4. CASE Cardinality(mode.nodes) # 1
    <3>1. Cardinality(InFlight) * Largest \in Nat /\ Cardinality(mode.nodes) * Largest \in Nat
      BY InFlightFacts, Times
    <3>2. MatchesOf(Forwarded) <= MatchesOf(Settled) + Cardinality(InFlight) * Largest
      BY ClaimsBound
    <3>3. MatchesOf(Settled) <= claimed /\ claimed + Cardinality(InFlight) * Largest <= mode.cap - 1 + Cardinality(mode.nodes) * Largest
      BY DEF SumInv, CapInv
    <3>4. claimed \in Nat /\ mode.cap \in Nat
      BY InFlightFacts
    <3> QED
      BY <2>2, <2>4, <3>1, <3>2, <3>3, <3>4
  <2> QED
    BY <2>3, <2>4
<1> QED
  BY <1>1, TypesHold, DeliveryHolds, CapHolding, SumHolds, PTL

-------------------------------------------------------------------------------
\* Nothing is lost between an agent and the printer: what a driven agent has
\* written is forwarded, held or in the pipe; and a session that ended well has
\* forwarded all its node sends, unless the cap was reached.
AllSent(n) ==
  \A k \in 1..agent[n].sent :
    \/ Fragment(n, k) \in Forwarded
    \/ Holds(n) /\ ses[n].held = Fragment(n, k)
    \/ \E i \in 1..Len(out[n]) : out[n][i] = Fragment(n, k)
Delivered(n) == \A k \in Sends(n) : Fragment(n, k) \in Forwarded
Whole(n) ==
  /\ Driven(n) => AllSent(n)
  /\ ses[n].pc \in Late \cup {"wait"} /\ ~ses[n].failed /\ n \notin failures => ReachedMax \/ Delivered(n)
WholeInv == printer = "printing" => \A n \in mode.nodes : Whole(n)

\* What a step of a session leaves as it was.
LEMMA SessionGrows ==
  ASSUME Types, PlaceInv, PastInv, NEW n \in Nodes, SessionAction(n)
  PROVE  /\ Forwarded \subseteq Forwarded' /\ (ReachedMax => ReachedMax')
         /\ (\A m, k : Fragment(m, k)' = Fragment(m, k)) /\ (\A m : Sends(m)' = Sends(m))
<1>1. Forwarded \subseteq Forwarded'
  BY SessionForwards
<1>2. mode' = mode /\ Capped' = Capped
  BY SessionShape, SameCase
<1>3. claimed' = claimed \/ (At(n, "claim") /\ claimed' = claimed + ses[n].held.count)
  BY SessionShape
<1>4. claimed \in Nat /\ mode.cap \in Nat /\ (At(n, "claim") => ses[n].held.count \in Nat)
  BY InFlightFacts, PipeTypes DEF At, Holds
<1>5. ReachedMax => ReachedMax'
  BY <1>2, <1>3, <1>4 DEF ReachedMax
<1> QED
  BY <1>1, <1>2, <1>5, SameCase

\* A step of an agent loses nothing.
LEMMA AgentKeepsWhole ==
  ASSUME Types, NEW n \in Nodes, AgentAction(n), NEW m \in Nodes, Whole(m)
  PROVE  Whole(m)'
<1>1. /\ UNCHANGED <<mode, ses, claimed, failures>> /\ Forwarded' = Forwarded
      /\ (ReachedMax' <=> ReachedMax)
  BY AgentPipe DEF Forwarded, ReachedMax, Capped
<1>2. \A j, k : Fragment(j, k)' = Fragment(j, k) /\ Sends(j)' = Sends(j)
  BY <1>1, SameCase
<1>3. Delivered(m)' <=> Delivered(m)
  BY <1>1, <1>2 DEF Delivered
<1>4. AllSent(m) => AllSent(m)'
  <2> SUFFICES ASSUME AllSent(m), NEW k \in 1..agent'[m].sent
               PROVE  \/ Fragment(m, k) \in Forwarded
                      \/ Holds(m) /\ ses[m].held = Fragment(m, k)
                      \/ \E i \in 1..Len(out'[m]) : out'[m][i] = Fragment(m, k)
    BY <1>1, <1>2 DEF AllSent, Holds
  <2>1. CASE m # n \/ (out'[n] = out[n] /\ agent'[n].sent = agent[n].sent)
    BY <2>1, AgentOthersStay DEF AllSent
  <2>2. ASSUME m = n, NEW frame \in [type : Kinds] \cup Rendered, out'[n] = Append(out[n], frame),
               IF frame.type = "rendered"
               THEN frame = Fragment(n, agent[n].sent + 1) /\ agent'[n].sent = agent[n].sent + 1
               ELSE agent'[n].sent = agent[n].sent
        PROVE  \/ Fragment(m, k) \in Forwarded
               \/ Holds(m) /\ ses[m].held = Fragment(m, k)
               \/ \E i \in 1..Len(out'[m]) : out'[m][i] = Fragment(m, k)
    <3>1. /\ Len(out[n]) \in Nat /\ Len(out'[n]) = Len(out[n]) + 1
          /\ \A i \in 1..Len(out[n]) : out'[n][i] = out[n][i]
          /\ out'[n][Len(out[n]) + 1] = frame
      BY <2>2, Appended
    <3>2. agent[n].sent \in Nat
      BY PipeTypes
    <3>3. k \in 1..agent[n].sent \/ (k = agent[n].sent + 1 /\ frame = Fragment(n, k))
      BY <2>2, <3>2, SMTT(60)
    <3>4. 1..Len(out[n]) \subseteq 1..Len(out'[n]) /\ Len(out[n]) + 1 \in 1..Len(out'[n])
      BY <3>1
    <3> QED
      BY <2>2, <3>1, <3>3, <3>4 DEF AllSent
  <2> QED
    BY <2>1, <2>2, AgentPipe
<1> QED
  BY <1>1, <1>3, <1>4 DEF Whole, Driven

\* A step of a session loses nothing of another node.
LEMMA SessionKeepsOthersWhole ==
  ASSUME Types, PlaceInv, PastInv, NEW n \in Nodes, SessionAction(n), NEW m \in Nodes, m # n, Whole(m)
  PROVE  Whole(m)'
<1>1. /\ ses'[m] = ses[m] /\ agent'[m] = agent[m] /\ out'[m] = out[m] /\ (m \in failures' <=> m \in failures)
  BY OthersStay
<1>2. Delivered(m) => Delivered(m)'
  BY SessionGrows DEF Delivered
<1>3. AllSent(m) => AllSent(m)'
  BY <1>1, SessionGrows DEF AllSent, Holds
<1> QED
  BY <1>1, <1>2, <1>3, SessionGrows DEF Whole, Driven

\* A Done comes after all the node sends: what is not in the pipe before it has
\* been forwarded.
LEMMA DoneIsAll ==
  ASSUME Types, NEW n \in Nodes, FrameInv(n), ses[n].pc = "drain", AllSent(n), out[n] # <<>>, Head(out[n]).type = "done"
  PROVE  Delivered(n)
<1>1. out[n] \in Seq(Frames(n)) /\ agent[n].sent \in Nat
  BY DEF Types, AgentTypes
<1>2. Len(out[n]) \in Nat \ {0} /\ Head(out[n]) = out[n][1]
  BY <1>1, LenProperties, EmptySeq
<1>3. 1 = Len(out[n]) /\ agent[n].sent + 1 \notin Sends(n)
  <2>1. 1 \in 1..Len(out[n]) /\ out[n][1].type = "done"
    BY <1>2
  <2> QED
    BY <2>1 DEF FrameInv
<1>4. CaseFacts
  BY ForwardedType
<1>5. ASSUME NEW k \in Sends(n) PROVE Fragment(n, k) \in Forwarded
  <2>1. k \in Nat \ {0} /\ \A j \in 1..k : j \in Sends(n)
    BY <1>4, SendsFacts, CountsType
  <2>2. k \in 1..agent[n].sent
    <3>1. agent[n].sent + 1 \notin 1..k
      BY <1>3, <2>1
    <3> QED
      BY <1>1, <2>1, <3>1
  <2>3. \A i \in 1..Len(out[n]) : out[n][i] # Fragment(n, k)
    <3>1. Fragment(n, k).type = "rendered"
      BY DEF Fragment
    <3>2. \A i \in 1..Len(out[n]) : i = 1
      <4>1. \A i \in 1..1 : i = 1
        OBVIOUS
      <4> QED
        BY <1>3, <4>1
    <3> QED
      BY <1>2, <3>1, <3>2
  <2> QED
    BY <2>2, <2>3 DEF AllSent, Holds
<1> QED
  BY <1>5 DEF Delivered

\* A session that drives its agent goes on with all there is.
LEMMA DrivenStays ==
  ASSUME Types, OrderInv, PlaceInv, PastInv, SumInv, printer = "printing", NEW n \in Nodes, SessionAction(n),
         Driven(n), AllSent(n), Driven(n)'
  PROVE  AllSent(n)'
<1> SUFFICES ASSUME NEW k \in 1..agent[n].sent
             PROVE  \/ Fragment(n, k) \in Forwarded'
                    \/ Holds(n)' /\ ses'[n].held = Fragment(n, k)
                    \/ \E i \in 1..Len(out'[n]) : out'[n][i] = Fragment(n, k)
  BY SessionGrows, SessionPipe DEF AllSent, OrderInv
<1>1. CASE Fragment(n, k) \in Forwarded
  BY <1>1, SessionGrows
<1>2. CASE Holds(n) /\ ses[n].held = Fragment(n, k)
  <2>1. CASE Holds(n)'
    BY <1>2, <2>1, HoldsFrom
  <2>2. CASE ~Holds(n)' /\ ses[n].pc = "claim"
    BY <1>2, <2>2, SessionGrows DEF SumInv
  <2>3. CASE ~Holds(n)' /\ ses[n].pc = "send"
    <3>1. Send(n)
      BY <2>3 DEF SessionAction, SessionStep, Dial, Exec, Preamble, SendHello, ReadWelcome,
         HandshakeTimeout, SendJob, Read,
         ReadEof, ReadTimeout, Claim, WaitExit, Cleanup, Record, At
    <3>2. fwd = Gone
      BY <2>3, <3>1, ClaimMoves DEF Holds
    <3>3. ses' = [ses EXCEPT ![n].pc = "wait", ![n].held = None]
      BY <3>1, <3>2 DEF Send
    <3>4. ses'[n].pc = "wait"
      BY <3>3 DEF Types, SessionTypes, SesRecord
    <3> QED
      BY <3>4 DEF Driven
  <2> QED
    BY <1>2, <2>1, <2>2, <2>3 DEF Holds
<1>3. ASSUME NEW i \in 1..Len(out[n]), out[n][i] = Fragment(n, k)
      PROVE  \/ Holds(n)' /\ ses'[n].held = Fragment(n, k)
             \/ \E j \in 1..Len(out'[n]) : out'[n][j] = Fragment(n, k)
  <2>1. CASE out' = out
    BY <1>3, <2>1
  <2>2. CASE out[n] # <<>> /\ out'[n] = Tail(out[n])
    <3>1. /\ Len(out[n]) \in Nat \ {0} /\ Len(out'[n]) = Len(out[n]) - 1
          /\ \A j \in 1..Len(out'[n]) : j + 1 \in 1..Len(out[n]) /\ out'[n][j] = out[n][j + 1]
          /\ Head(out[n]) = out[n][1]
      BY <2>2, Taken
    <3>2. CASE i # 1
      <4>1. i - 1 \in 1..Len(out'[n]) /\ (i - 1) + 1 = i
        BY <3>1, <3>2
      <4> QED
        BY <1>3, <3>1, <4>1
    <3>3. CASE i = 1
      <4>1. Head(out[n]) = Fragment(n, k) /\ Head(out[n]).type = "rendered"
        BY <1>3, <3>1, <3>3 DEF Fragment
      <4>2. Read(n)
        <5>1. out # out'
          <6>1. Len(out'[n]) # Len(out[n])
            BY <3>1
          <6> QED
            BY <6>1
        <5> QED
          BY <5>1 DEF Driven, SessionAction, SessionStep, Dial, Exec, Preamble, SendHello,
             ReadWelcome, HandshakeTimeout, SendJob,
             ReadEof, ReadTimeout, Send, Claim, WaitExit, Cleanup, Record, At, nodeVars
      <4>3. Receive(n) /\ At(n, "drain")
        BY <4>1, <4>2 DEF Read
      <4>4. Takes(n) \/ Moves(n, "wait") \/ Fails(n)
        BY <2>2, <4>1, <4>3 DEF Receive, Takes
      <4> QED
        BY <4>1, <4>4, SelfMoves DEF Driven, Holds
    <3> QED
      BY <3>2, <3>3
  <2> QED
    BY <2>1, <2>2, SessionPipe DEF OrderInv
<1> QED
  BY <1>1, <1>2, <1>3 DEF AllSent

\* Where a session comes from and how it ends.
LEMMA LateMoves ==
  ASSUME Types, NEW n \in Nodes, SessionAction(n)
  PROVE  /\ ses[n].pc = "wait" => ses'[n].pc = "cleanup"
         /\ ses[n].pc \in {"cleanup", "record"} => ses'[n].pc \in {"record", "joined"} /\ ses'[n].failed = ses[n].failed
         /\ ses[n].pc \in Early => \/ ses'[n].pc \in Early \cup {"drain"}
                                   \/ ses'[n].failed
                                   \/ n \in failures'
<1> USE SelfMoves DEF At
<1>1. ses[n].pc = "wait" => ses'[n].pc = "cleanup"
  <2> SUFFICES ASSUME ses[n].pc = "wait" PROVE ses'[n].pc = "cleanup"
    OBVIOUS
  <2>1. WaitExit(n)
    BY DEF SessionAction, SessionStep, Dial, Exec, Preamble, SendHello, ReadWelcome,
       HandshakeTimeout, SendJob, Read,
         ReadEof, ReadTimeout, Send, Claim, Cleanup, Record
  <2>2. Ends(n)
    BY <2>1 DEF WaitExit, Ends
  <2> QED
    BY <2>2
<1>2. ses[n].pc \in {"cleanup", "record"} => ses'[n].pc \in {"record", "joined"} /\ ses'[n].failed = ses[n].failed
  <2> SUFFICES ASSUME ses[n].pc \in {"cleanup", "record"}
               PROVE  ses'[n].pc \in {"record", "joined"} /\ ses'[n].failed = ses[n].failed
    OBVIOUS
  <2>1. Cleanup(n) \/ Record(n)
    BY DEF SessionAction, SessionStep, Dial, Exec, Preamble, SendHello, ReadWelcome,
       HandshakeTimeout, SendJob, Read,
         ReadEof, ReadTimeout, Send, Claim, WaitExit
  <2> QED
    BY <2>1 DEF Cleanup, Record
<1>3. ASSUME ses[n].pc \in Early
      PROVE  ses'[n].pc \in Early \cup {"drain"} \/ ses'[n].failed \/ n \in failures'
  <2>1. \/ Dial(n) \/ Exec(n) \/ Preamble(n) \/ SendHello(n) \/ ReadWelcome(n) \/ HandshakeTimeout(n) \/ SendJob(n)
    BY <1>3 DEF SessionAction, SessionStep, Read, ReadEof, ReadTimeout, Send, Claim, WaitExit,
       Cleanup, Record, Early
  <2>2. Fails(n) \/ n \in failures' \/ \E pc \in Early \cup {"drain"} : Moves(n, pc)
    BY <2>1 DEF Dial, Exec, Preamble, SendHello, ReadWelcome, HandshakeTimeout, SendJob, Early
  <2> QED
    BY <2>2, SMTT(60)
<1> QED
  BY <1>1, <1>2, <1>3

\* A step of a session loses nothing of its own node.
LEMMA SessionKeepsWhole ==
  ASSUME Types, OrderInv, ResidueInv, PlaceInv, PastInv, SumInv, printer = "printing",
         NEW n \in Nodes, SessionAction(n), Whole(n)
  PROVE  Whole(n)'
<1>0. ses[n].pc \in SesPcs /\ ses[n].pc # "joined" /\ ses'[n].pc \in SesPcs
  BY SessionShape, SessionKeepsTypes, RemoteAssumption DEF Types, SessionTypes, SesRecord
<1>1. ses[n].pc \in Early \/ Driven(n) \/ ses[n].pc \in {"wait", "cleanup", "record"}
  BY <1>0 DEF Early, Driven, SesPcs
<1>2. (ReachedMax \/ Delivered(n)) => ReachedMax' \/ Delivered(n)'
  BY SessionGrows DEF Delivered
<1>3. failures \subseteq failures'
  BY SessionShape
<1>4. ASSUME Driven(n)' PROVE AllSent(n)'
  <2>1. CASE Driven(n)
    BY <1>4, <2>1, DrivenStays DEF Whole
  <2>2. CASE ses[n].pc \in Early
    <3>1. agent'[n].sent = 0
      BY <2>2, SessionPipe DEF OrderInv, EarlyInv
    <3> QED
      BY <3>1 DEF AllSent
  <2>3. CASE ses[n].pc \in {"wait", "cleanup", "record"}
    BY <1>4, <2>3, LateMoves DEF Driven
  <2> QED
    BY <1>1, <2>1, <2>2, <2>3
<1>5. ASSUME ses'[n].pc \in Late \cup {"wait"}, ~ses'[n].failed, n \notin failures' PROVE ReachedMax' \/ Delivered(n)'
  <2>1. CASE ses[n].pc \in {"wait", "cleanup", "record"}
    <3>1. ~ses[n].failed
      BY <1>5, <2>1, LateMoves DEF OrderInv, EarlyInv, Late
    <3> QED
      BY <1>2, <1>3, <1>5, <2>1, <3>1 DEF Whole, Late
  <2>2. CASE ses[n].pc \in Early
    BY <1>5, <2>2, LateMoves DEF Early, Late
  <2>3. CASE ses[n].pc = "drain"
    <3>1. Read(n) \/ ReadEof(n) \/ ReadTimeout(n)
      BY <2>3 DEF SessionAction, SessionStep, Dial, Exec, Preamble, SendHello, ReadWelcome,
         HandshakeTimeout, SendJob,
         Send, Claim, WaitExit, Cleanup, Record, At
    <3>2. ~Fails(n) /\ ses' # ses /\ ~Takes(n)
      BY <1>5, <2>3, SelfMoves DEF Late
    <3>3. Read(n) /\ out[n] # <<>>
      BY <3>1, <3>2 DEF ReadEof, ReadTimeout, Read
    <3>4. ReachedMax \/ Head(out[n]).type = "done"
      BY <3>2, <3>3 DEF Read, Receive, Takes
    <3>5. Head(out[n]).type = "done" => Delivered(n)
      BY <2>3, <3>3, DoneIsAll DEF OrderInv, Whole, Driven
    <3> QED
      BY <1>2, <3>4, <3>5
  <2>4. CASE ses[n].pc = "send"
    <3>1. Send(n)
      BY <2>4 DEF SessionAction, SessionStep, Dial, Exec, Preamble, SendHello, ReadWelcome,
         HandshakeTimeout, SendJob, Read,
         ReadEof, ReadTimeout, Claim, WaitExit, Cleanup, Record, At
    <3>2. fwd = Gone
      BY <1>5, <3>1, ClaimMoves DEF Late
    <3>3. SendersGone
      BY <3>2 DEF ResidueInv, Residue
    <3> QED
      BY <2>4, <3>3 DEF SendersGone, At
  <2>5. CASE ses[n].pc = "claim"
    BY <1>5, <2>5, ClaimMoves DEF Late
  <2> QED
    BY <1>1, <2>1, <2>2, <2>3, <2>4, <2>5 DEF Driven
<1> QED
  BY <1>4, <1>5 DEF Whole

\* WholeInv holds in every reachable state.
LEMMA WholeHolds == Spec => []WholeInv
<1>1. Init => WholeInv
  <2> SUFFICES ASSUME Init, NEW n \in mode.nodes PROVE Whole(n)
    BY DEF WholeInv
  <2>1. n \in Nodes
    BY CapType, RemoteAssumption DEF Init, CaseFacts
  <2>2. ses[n].pc = "dial"
    BY <2>1 DEF Init
  <2> QED
    BY <2>2 DEF Whole, Driven, Late
<1>2. Types /\ OrderInv /\ ResidueInv /\ PlaceInv /\ PastInv /\ SumInv /\ WholeInv /\ [Next]_vars => WholeInv'
  <2> SUFFICES ASSUME Types, OrderInv, ResidueInv, PlaceInv, PastInv, SumInv, WholeInv, [Next]_vars, printer' = "printing"
               PROVE  \A m \in mode'.nodes : Whole(m)'
    BY DEF WholeInv
  <2>1. mode' = mode /\ mode.nodes \subseteq Nodes
    <3>1. mode' = mode
      BY SessionShape, AgentPipe DEF Next, Forward, Prints, Exits, vars
    <3> QED
      BY <3>1, CapType, InFlightFacts
  <2>2. ASSUME UNCHANGED <<ses, agent, out, failures, claimed>>, Forwarded' = Forwarded, printer = "printing"
        PROVE  \A m \in mode'.nodes : Whole(m)'
    <3>1. \A j : Sends(j)' = Sends(j) /\ \A k : Fragment(j, k)' = Fragment(j, k)
      BY <2>1, SameCase
    <3>2. \A m \in mode.nodes : Whole(m)
      BY <2>2 DEF WholeInv
    <3> QED
      BY <2>1, <2>2, <3>1, <3>2 DEF Whole, Driven, AllSent, Delivered, Holds, ReachedMax, Capped
  <2>3. ASSUME NEW n \in Nodes, SessionAction(n) PROVE \A m \in mode'.nodes : Whole(m)'
    <3>1. printer = "printing"
      BY <2>3, SessionShape
    <3> TAKE m \in mode'.nodes
    <3>2. m \in Nodes /\ Whole(m)
      BY <2>1, <3>1 DEF WholeInv
    <3> QED
      BY <2>3, <3>1, <3>2, SessionKeepsWhole, SessionKeepsOthersWhole
  <2>4. ASSUME NEW n \in Nodes, AgentAction(n) PROVE \A m \in mode'.nodes : Whole(m)'
    BY <2>1, <2>4, AgentPipe, AgentKeepsWhole DEF WholeInv
  <2>5. CASE Forward \/ Prints \/ Exits
    <3>1. Forwarded' = Forwarded /\ printer = "printing"
      BY <2>5, SinkMoves
    <3>2. UNCHANGED <<ses, agent, out, failures, claimed>>
      BY <2>5 DEF Forward, Prints, Exits, nodeVars
    <3> QED
      BY <2>2, <3>1, <3>2
  <2>6. CASE UNCHANGED vars
    BY <2>2, <2>6 DEF vars, Forwarded
  <2> QED
    BY <2>3, <2>4, <2>5, <2>6 DEF Next
<1> QED
  BY <1>1, <1>2, TypesHold, OrderHolds, ResidueHolds, DeliveryHolds, SumHolds, PTL DEF Spec

\* The least of two numbers.
LEMMA MinOfTwo ==
  ASSUME NEW a \in Nat, NEW b \in Nat
  PROVE  Min({a, b}) <= a /\ Min({a, b}) <= b /\ Min({a, b}) \in Nat
<1>1. \E x \in {a, b} : \A y \in {a, b} : x <= y
  BY SMT
<1> QED
  BY <1>1 DEF Min

\* What a command that ends well has printed.
LEMMA EndsWhole ==
  ASSUME Types, OrderInv, ResidueInv, SumInv, WholeInv, Exits, exit' = "ok"
  PROVE  MatchesOf(printed) >= (IF Capped THEN Min({mode.cap, Available}) ELSE Available)
<1>1. printer = "printing" /\ sink = <<>> /\ fwd = Gone /\ failures = {}
  BY DEF Exits
<1>2. SendersGone /\ chan = <<>> /\ ToSet(<<>>) = {}
  BY <1>1 DEF ResidueInv, Residue, ToSet
<1>3. Forwarded = printed
  BY <1>1, <1>2 DEF Forwarded
<1>4. CaseFacts /\ Forwarded \in SUBSET Fragments /\ mode.cap \in Nat /\ claimed \in Nat
  BY ForwardedType, InFlightFacts
<1>5. MatchesOf(printed) \in Nat /\ Available \in Nat
  BY <1>3, <1>4, SettledFacts DEF Available
<1>6. \A n \in mode.nodes : n \in Nodes /\ ses[n].pc = "joined" /\ ~ses[n].failed
  BY <1>1, <1>2, <1>4, CapType DEF SendersGone, At, OrderInv, EarlyInv
<1>7. ReachedMax \/ \A n \in mode.nodes : Delivered(n)
  BY <1>1, <1>6 DEF WholeInv, Whole, Late
<1>8. CASE ReachedMax
  <2>1. Settled = Forwarded
    BY <1>4, <1>6, OfFragments DEF Settled, Claiming
  <2>2. MatchesOf(printed) = claimed /\ claimed >= mode.cap /\ Capped
    BY <1>1, <1>3, <1>8, <2>1 DEF SumInv, ReachedMax
  <2> QED
    BY <1>4, <1>5, <2>2, MinOfTwo
<1>9. CASE \A n \in mode.nodes : Delivered(n)
  <2>1. Fragments = printed
    <3>1. Fragments \subseteq Forwarded
      BY <1>9 DEF Delivered, Fragments
    <3> QED
      BY <1>3, <1>4, <3>1
  <2> QED
    BY <1>4, <1>5, <2>1, MinOfTwo DEF Available
<1> QED
  BY <1>7, <1>8, <1>9

\* A command that reports success has printed every fragment of every node, or as
\* many matches as the cap allows, whatever fails and however the failures race
\* the end of the streams (producer.rs 42-44, session.rs 214-266).
THEOREM SuccessMeansAll == Spec => []SuccessIsComplete
<1>1. Init => SuccessIsComplete
  BY DEF Init, SuccessIsComplete
<1>2. Types /\ OrderInv /\ ResidueInv /\ SumInv /\ WholeInv /\ SuccessIsComplete /\ [Next]_vars => SuccessIsComplete'
  <2> SUFFICES ASSUME Types, OrderInv, ResidueInv, SumInv, WholeInv, SuccessIsComplete, [Next]_vars, exit' = "ok"
               PROVE  MatchesOf(printed)' >= (IF Capped' THEN Min({mode'.cap, Available'}) ELSE Available')
    BY DEF SuccessIsComplete
  <2>1. ASSUME UNCHANGED <<mode, printed>>
        PROVE  /\ MatchesOf(printed)' = MatchesOf(printed) /\ Available' = Available /\ Capped' = Capped
    BY <2>1, SameCase DEF MatchesOf, Available
  <2>2. CASE Exits
    <3>1. UNCHANGED <<mode, printed>>
      BY <2>2 DEF Exits
    <3> QED
      BY <2>1, <2>2, <3>1, EndsWhole
  <2>3. CASE UNCHANGED vars
    <3>1. UNCHANGED <<mode, printed, exit>>
      BY <2>3 DEF vars
    <3> QED
      BY <2>1, <3>1 DEF SuccessIsComplete
  <2>4. ASSUME Next, ~Exits PROVE FALSE
    <3>1. exit = "none" /\ exit' = exit
      BY <2>4, SessionShape, AgentPipe DEF Next, Forward, Prints
    <3> QED
      BY <3>1
  <2> QED
    BY <2>2, <2>3, <2>4
<1> QED
  BY <1>1, <1>2, TypesHold, OrderHolds, ResidueHolds, SumHolds, WholeHolds, PTL DEF Spec
===============================================================================
