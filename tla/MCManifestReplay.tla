--------------------------- MODULE MCManifestReplay ---------------------------
(* Instances of ManifestReplay: one or two files of two contents, on a clock   *)
(* of three grains; the racy window is two.                                    *)
EXTENDS ManifestReplay, FiniteSets, TLC

CONSTANTS b1, b2

Renamings == Permutations(Files) \cup Permutations(Contents)

\* Every case over n files that one builder sweeps alone.
Alone(n) ==
  [hinted : {None}, verified : {FALSE}, coarse : {FALSE}, slow : {TRUE}, kept : {FALSE},
   bank : {"none"}, apart : {FALSE}, upgrade : {FALSE}, builders : {{b1}},
   files : {F \in SUBSET Files : Cardinality(F) = n}]

\* Stamps of a grain that holds several edits, and builds within the window.
Coarse(n) == {[m EXCEPT !.coarse = TRUE, !.slow = FALSE] : m \in Alone(n)}
Hinted(S) == {[m EXCEPT !.hinted = b1] : m \in S}
Both(S)   == {[m EXCEPT !.builders = {b1, b2}] : m \in S}
Banked(S, how) == {[m EXCEPT !.bank = how] : m \in S}

SoundModes ==
  Coarse(1) \cup Hinted(Coarse(2)) \cup Alone(2) \cup Hinted(Alone(2)) \cup Both(Alone(1))
  \cup {[m EXCEPT !.upgrade = TRUE] : m \in Banked(Alone(1), "read")}
  \cup {[m EXCEPT !.apart = TRUE] : m \in Hinted(Both(Alone(1)))}
  \cup {[m EXCEPT !.verified = TRUE, !.slow = TRUE, !.kept = TRUE] : m \in Banked(Coarse(1), "held")}

CoarseModes    == Coarse(2)

\* The runs that pass are of the cases the theorems are about.
ASSUME RunsAreSound == \A m \in SoundModes \cup CoarseModes : SoundCase(m)

HeldModes      == Banked(Alone(1), "held")
SlowModes      == {[m EXCEPT !.slow = TRUE] : m \in Coarse(1)}
BankModes      == Banked(Coarse(1), "read")
OvertakenModes == Hinted(Both(Alone(1)))

\* The counterexamples are of the others.
ASSUME OthersAreNot ==
  \A m \in HeldModes \cup SlowModes \cup BankModes \cup OvertakenModes : ~SoundCase(m)
===============================================================================
