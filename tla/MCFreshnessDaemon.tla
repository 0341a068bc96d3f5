-------------------------- MODULE MCFreshnessDaemon --------------------------
(* Instances of FreshnessDaemon: without overlay and proactive rebuilds,     *)
(* with both or neither, with overlays only, and with every combination.     *)
EXTENDS FreshnessDaemon, TLC

Renamings == Permutations(Files)
Lazy == {[overlay |-> FALSE, proactive |-> FALSE]}
Overlaid == {[overlay |-> TRUE, proactive |-> FALSE]}
Ends == {[overlay |-> b, proactive |-> b] : b \in BOOLEAN}
Full == [overlay : BOOLEAN, proactive : BOOLEAN]
===============================================================================
