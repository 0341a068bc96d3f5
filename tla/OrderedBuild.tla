----------------------------- MODULE OrderedBuild -----------------------------
(***************************************************************************)
(* What the streaming ingest promises: the merged graph grows by whole     *)
(* shards in manifest order, each the shard's extractable entries in       *)
(* order, and the call returns once: "ok" only with every shard merged,    *)
(* or "err".  This is the batch path, one shard at a time.                 *)
(***************************************************************************)
EXTENDS Integers, Sequences, FiniteSets

CONSTANTS N,          \* number of entries; an entry is its sequence number
          ShardSize   \* entries per shard

VARIABLES graph,   \* the entries merged so far, in merge order
          merged,  \* the number of shards merged
          result   \* "none" until the call returns

vars == <<graph, merged, result>>

NumShards == (N + ShardSize - 1) \div ShardSize
EntriesOf(s) == {e \in 0..(N - 1) : e \div ShardSize = s}

\* A set of entries in manifest order: the i-th has i of them up to itself.
InOrder(S) ==
  [i \in 1..Cardinality(S) |-> CHOOSE e \in S : Cardinality({d \in S : d <= e}) = i]

Init ==
  /\ graph = <<>>
  /\ merged = 0
  /\ result = "none"

\* Which entries are extractable is the environment's choice.
MergeShard ==
  /\ result = "none"
  /\ merged < NumShards
  /\ \E kept \in SUBSET EntriesOf(merged) : graph' = graph \o InOrder(kept)
  /\ merged' = merged + 1
  /\ UNCHANGED result

Succeed ==
  /\ result = "none"
  /\ merged = NumShards
  /\ result' = "ok"
  /\ UNCHANGED <<graph, merged>>

Fail ==
  /\ result = "none"
  /\ result' = "err"
  /\ UNCHANGED <<graph, merged>>

Next == MergeShard \/ Succeed \/ Fail

Spec == Init /\ [][Next]_vars /\ WF_vars(Next)
===============================================================================
