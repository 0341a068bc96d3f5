----------------------------- MODULE MCByteBudget -----------------------------
(* Instances of ByteBudget: files that are empty, ordinary and oversized.  *)
EXTENDS ByteBudget

CONSTANTS empty, small, large

MCSize == [i \in Items |-> IF i = empty THEN 0 ELSE IF i = large THEN 5 ELSE 2]
===============================================================================
