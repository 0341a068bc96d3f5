--------------------------- MODULE MCStreamPipeline ---------------------------
(* Instances of StreamPipeline. *)
EXTENDS StreamPipeline

\* Entry 3 weighs more than the whole of any budget used here.
MCSize == [e \in Items |-> IF e = 3 THEN 9 ELSE 1]
===============================================================================
