----------------------------- MODULE MCVectorTier -----------------------------
(* Instances of VectorTier: two generations, one trainable corpus.             *)
EXTENDS VectorTier, TLC

CONSTANTS g1, g2, s1, s2

MCStampOf == g1 :> s1 @@ g2 :> s2
MCTouched == g1 :> s1 @@ g2 :> s1
MCTrainable == {s1}
===============================================================================
