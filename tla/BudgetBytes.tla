------------------------------ MODULE BudgetBytes ------------------------------
(***************************************************************************)
(* The unit of account of the in-flight byte budget                        *)
(* (crates/ingest/src/pipeline.rs, ByteBudget): what a file weighs, and    *)
(* what a set of files weighs together.                                    *)
(***************************************************************************)
EXTENDS Integers, FiniteSets

CONSTANTS Items,     \* the files of one ingest run
          Size,      \* Size[i]: the bytes the manifest records for file i
          Capacity   \* the configured budget, in bytes

ASSUME BudgetAssumption ==
  /\ IsFiniteSet(Items)
  /\ Size \in [Items -> Nat]
  /\ Capacity \in Nat \ {0}

\* reserve and release clamp alike: an empty file weighs one byte, and a file
\* larger than the whole budget weighs the whole budget.
Clamp(bytes) ==
  IF bytes < 1 THEN 1 ELSE IF bytes > Capacity THEN Capacity ELSE bytes

Cost == [i \in Items |-> Clamp(Size[i])]

\* The bytes of a set of items: the cardinality of the disjoint union of
\* theirs.
ByteSet(S) == UNION {{i} \X (1..Cost[i]) : i \in S}
Bytes(S) == Cardinality(ByteSet(S))
===============================================================================
