--------------------------- MODULE MCGenerationStore ---------------------------
(* Instances of GenerationStore: builds one after the other that take any      *)
(* time, of which one may die, or beside which there is a reader; and two      *)
(* builds at once that nobody interrupts for two minutes.                      *)
EXTENDS GenerationStore

CONSTANTS b1, t1

Serial == [builders |-> {b1}, trees |-> Trees, slow |-> TRUE, crashes |-> 1,
           readers |-> Readers]
Quick  == [builders |-> Builders, trees |-> {t1}, slow |-> FALSE, crashes |-> 0,
           readers |-> {}]

CheckedModes == {[Serial EXCEPT !.readers = {}], [Serial EXCEPT !.crashes = 0], Quick}
SerialModes  == {Serial}
TornModes    == {[Quick EXCEPT !.trees = Trees]}
MixtureModes == {[Serial EXCEPT !.slow = FALSE, !.crashes = 0]}
===============================================================================
