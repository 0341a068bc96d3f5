------------------------------ MODULE VectorTier ------------------------------
(* The vector tier on disk: the files ann.bin, ann.files, ann.model.bin,       *)
(* ann.model.json and ann.stamp that a generation directory admits after its   *)
(* commit, and everybody who reads or writes them without a common lock:       *)
(* warms (the daemon's thread, its child, a detached command), the commit of   *)
(* the next generation, which carries them forward, `vorpal tune`, which       *)
(* rewrites the record, searchers that open a generation, and the daemon's     *)
(* adoption of the live tier.  One file operation is one step.                 *)
(*                                                                             *)
(* Abstractions.  A node segment is its stamp; two generations with one stamp  *)
(* differ in their manifest alone.  A learned model is deterministic in the    *)
(* segment it was trained on, so its weights are named by that segment's stamp.*)
(* The calibration, the gate's verdict, the postings and the other sidecars    *)
(* heal on their own and are left out; so is the copy's own torn window.       *)
EXTENDS Naturals, Sequences, FiniteSets

CONSTANTS
  Gens,          \* generation directories
  First,         \* the generation the first build committed
  StampOf,       \* the stamp of each generation's node segment
  Trainable,     \* the stamps of corpora above the learned tier's floor
  SameDim,       \* the learned model has as many dimensions as the lexical one
  Warmers,       \* processes and threads that warm
  MaxDisturbances,   \* bound on the commits, flips, stops and rewrites together
  None

ASSUME VectorTierAssumption ==
  /\ First \in Gens /\ DOMAIN StampOf = Gens
  /\ SameDim \in BOOLEAN
  /\ MaxDisturbances \in Nat
  /\ None \notin Gens \cup Warmers \cup {StampOf[g] : g \in Gens}
  /\ None \notin [stamp : {StampOf[g] : g \in Gens}, tier : {"lexical", "learned"}]
  /\ None \notin [tier : {"lexical", "learned"}, of : {StampOf[g] : g \in Gens}, noted : BOOLEAN]

VARIABLES
  current,    \* the generation CURRENT names
  selection,  \* the root's semantic.tier
  tier,       \* tier[g][f]: the file f of generation g, None when absent
  lock,       \* lock[g]: the warm that holds ann.build.lock
  warm,       \* the warms in flight
  carry,      \* the commit that carries the tier of the prior generation
  tune,       \* the rewrite of the record by `vorpal tune`
  read,       \* a searcher being opened, or an adoption in flight
  clobbered,  \* history: generations a writer changed on an outdated observation
  spent       \* commits, flips, stops and rewrites so far

vars == <<current, selection, tier, lock, warm, carry, tune, read, clobbered, spent>>

Stamps == {StampOf[g] : g \in Gens}
Tiers  == {"lexical", "learned"}

(* The order in which a commit carries the files; a warm writes in it too.     *)
CarryOrder == <<"bin", "files", "weights", "record", "stamp">>
Parts      == {"bin", "files", "weights", "record", "stamp"}

(* A bin header holds its stamp and dimension; the rows are of one model.      *)
Bins    == [stamp : Stamps, tier : Tiers]
Records == [tier : Tiers, of : Stamps, noted : BOOLEAN]
Dim(t)  == IF t = "lexical" \/ SameDim THEN 256 ELSE 128

Bin(g)     == tier[g]["bin"]
FilesOf(g) == tier[g]["files"]
Weights(g) == tier[g]["weights"]
RecordOf(g) == tier[g]["record"]
StampFile(g) == tier[g]["stamp"]

Quiet == [pc |-> "idle", sel |-> "lexical", gen |-> None, tier |-> "lexical"]
NoCarry == [pc |-> "idle", gen |-> None, prior |-> None, next |-> 0, absent |-> TRUE]
NoTune  == [pc |-> "idle", gen |-> None, record |-> None]
NoRead  == [kind |-> "open", pc |-> "idle", gen |-> None, record |-> None, base |-> None]

Init ==
  /\ current = First
  /\ selection \in Tiers
  /\ tier = [g \in Gens |-> [f \in Parts |-> None]]
  /\ lock = [g \in Gens |-> None]
  /\ warm = [w \in Warmers |-> Quiet]
  /\ carry = NoCarry /\ tune = NoTune /\ read = NoRead
  /\ clobbered = {}
  /\ spent = 0

(*-------------------------------- criteria ----------------------------------*)

HeaderMatches(g, record) ==
  /\ Bin(g) # None
  /\ Bin(g).stamp = StampOf[g]
  /\ Dim(Bin(g).tier) = Dim(record.tier)

(* A lexical record satisfies a learned selection only with the fallback note. *)
Satisfies(g, record, sel) ==
  \/ record.tier = "lexical" /\ record.noted = (sel = "learned")
  \/ record.tier = "learned" /\ sel = "learned" /\ Weights(g) = record.of

(* ann_is_fresh: what a warm takes for a tier that needs no rebuild.           *)
Fresh(g, sel) ==
  /\ StampFile(g) = StampOf[g]
  /\ RecordOf(g) # None
  /\ HeaderMatches(g, RecordOf(g))
  /\ Satisfies(g, RecordOf(g), sel)

(*---------------------------------- warms -----------------------------------*)

Holds(w) == warm[w].pc \notin {"idle", "resolve"}
At(w, pc) == warm[w].pc = pc

WarmBegin(w) ==
  /\ At(w, "idle")
  /\ warm' = [warm EXCEPT ![w] = [Quiet EXCEPT !.pc = "resolve", !.sel = selection]]
  /\ UNCHANGED <<current, selection, tier, lock, carry, tune, read, clobbered, spent>>

(* Fault: the lock is taken whoever holds it.                                  *)
WarmResolveUnlocked(w) ==
  /\ At(w, "resolve")
  /\ lock' = [lock EXCEPT ![current] = w]
  /\ warm' = [warm EXCEPT ![w].pc = "check", ![w].gen = current]
  /\ UNCHANGED <<current, selection, tier, carry, tune, read, clobbered, spent>>

(* The loser of the lock returns as if it had warmed.                          *)
WarmResolve(w) ==
  /\ At(w, "resolve")
  /\ \/ /\ lock[current] = None
        /\ lock' = [lock EXCEPT ![current] = w]
        /\ warm' = [warm EXCEPT ![w].pc = "check", ![w].gen = current]
     \/ /\ lock[current] # None
        /\ warm' = [warm EXCEPT ![w] = Quiet]
        /\ UNCHANGED lock
  /\ UNCHANGED <<current, selection, tier, carry, tune, read, clobbered, spent>>

(* Release: the guard of the lock file is dropped on every way out.            *)
Release(w) ==
  /\ lock' = [lock EXCEPT ![warm[w].gen] = None]
  /\ warm' = [warm EXCEPT ![w] = Quiet]

WarmCheck(w) ==
  /\ At(w, "check")
  /\ LET g == warm[w].gen IN
       IF Fresh(g, warm[w].sel) THEN Release(w)
       ELSE /\ warm' = [warm EXCEPT ![w].pc = "bin",
                          ![w].tier = IF warm[w].sel = "learned" /\ StampOf[g] \in Trainable
                                      THEN "learned" ELSE "lexical"]
            /\ UNCHANGED lock
  /\ UNCHANGED <<current, selection, tier, carry, tune, read, clobbered, spent>>

(* Fault: the stamp is taken from the root, not from the graph embedded.       *)
WrittenForCurrent(w, f) ==
  LET s == StampOf[current]
      t == warm[w].tier
  IN CASE f = "bin"     -> [stamp |-> s, tier |-> t]
       [] f = "files"   -> s
       [] f = "weights" -> IF t = "learned" THEN s ELSE None
       [] f = "record"  -> [tier |-> t, of |-> s, noted |-> t # warm[w].sel]
       [] f = "stamp"   -> s

(* What this warm writes into each file.                                       *)
Written(w, f) ==
  LET s == StampOf[warm[w].gen]
      t == warm[w].tier
  IN CASE f = "bin"     -> [stamp |-> s, tier |-> t]
       [] f = "files"   -> s
       [] f = "weights" -> IF t = "learned" THEN s ELSE None
       [] f = "record"  -> [tier |-> t, of |-> s, noted |-> t # warm[w].sel]
       [] f = "stamp"   -> s

(* Fault: a failure to write the map is ignored.                               *)
AfterSkippingFiles(f) == CASE f = "bin" -> "weights" [] f = "files" -> "weights"
              [] f = "weights" -> "record" [] f = "record" -> "stamp"

After(f) == CASE f = "bin" -> "files" [] f = "files" -> "weights"
              [] f = "weights" -> "record" [] f = "record" -> "stamp"

(* tmp + rename of one file.                                                   *)
WarmWrite(w) ==
  /\ warm[w].pc \in Parts \ {"stamp"}
  /\ tier' = [tier EXCEPT ![warm[w].gen][warm[w].pc] = Written(w, warm[w].pc)]
  /\ warm' = [warm EXCEPT ![w].pc = After(warm[w].pc)]
  /\ UNCHANGED <<current, selection, lock, carry, tune, read, clobbered, spent>>

(* The stamp is the commit point; the sidecars that follow are left out.       *)
WarmCommit(w) ==
  /\ At(w, "stamp")
  /\ tier' = [tier EXCEPT ![warm[w].gen]["stamp"] = Written(w, "stamp")]
  /\ Release(w)
  /\ UNCHANGED <<current, selection, carry, tune, read, clobbered, spent>>

(* Fault: the lock outlives the warm.                                          *)
StopLocked(w) ==
  /\ Holds(w) /\ spent < MaxDisturbances
  /\ warm' = [warm EXCEPT ![w] = Quiet]
  /\ spent' = spent + 1
  /\ UNCHANGED <<current, selection, tier, lock, carry, tune, read, clobbered>>

(* A warm is cancelled at a phase boundary, fails, or dies anywhere; the       *)
(* system releases the advisory lock of a dead process.                        *)
Stop(w) ==
  /\ Holds(w) /\ spent < MaxDisturbances
  /\ Release(w)
  /\ spent' = spent + 1
  /\ UNCHANGED <<current, selection, tier, carry, tune, read, clobbered>>

WarmStep(w) == WarmBegin(w) \/ WarmResolve(w) \/ WarmCheck(w) \/ WarmWrite(w) \/ WarmCommit(w)

(*--------------------------------- commits ----------------------------------*)

(* A commit of another generation, a new one or one that was there before.     *)
CommitBegin(g) ==
  /\ carry.pc = "idle" /\ g # current /\ spent < MaxDisturbances
  /\ carry' = [NoCarry EXCEPT !.pc = "test", !.gen = g, !.prior = current, !.next = 1]
  /\ spent' = spent + 1
  /\ UNCHANGED <<current, selection, tier, lock, warm, tune, read, clobbered>>

Carried == CarryOrder[carry.next]
NextFile == [carry EXCEPT !.next = @ + 1, !.absent = TRUE,
                          !.pc = IF carry.next = Len(CarryOrder) THEN "swap" ELSE "test"]

(* Fault: the test for a tier that the generation already has is dropped.      *)
CarryTestSource ==
  /\ carry.pc = "test"
  /\ carry' = IF tier[carry.prior][Carried] # None
              THEN [carry EXCEPT !.pc = "link", !.absent = tier[carry.gen][Carried] = None]
              ELSE NextFile
  /\ UNCHANGED <<current, selection, tier, lock, warm, tune, read, clobbered, spent>>

(* from.exists() && !to.exists()                                               *)
CarryTest ==
  /\ carry.pc = "test"
  /\ carry' = IF tier[carry.prior][Carried] # None /\ tier[carry.gen][Carried] = None
              THEN [carry EXCEPT !.pc = "link", !.absent = TRUE] ELSE NextFile
  /\ UNCHANGED <<current, selection, tier, lock, warm, tune, read, clobbered, spent>>

(* What linking one file does to the tier, and to the history: the copy that   *)
(* follows a failed link overwrites a file that was created since the test.    *)
LinkAs(f, value) ==
  /\ tier' = IF value = None THEN tier ELSE [tier EXCEPT ![carry.gen][f] = value]
  /\ clobbered' = IF value # None /\ carry.absent /\ tier[carry.gen][f] # None
                  THEN clobbered \cup {carry.gen} ELSE clobbered
  /\ carry' = NextFile
  /\ UNCHANGED <<current, selection, lock, warm, tune, read, spent>>

(* hard_link(from, to), else copy(from, to).                                   *)
CarryLink ==
  /\ carry.pc = "link"
  /\ LinkAs(Carried, tier[carry.prior][Carried])

CommitSwap ==
  /\ carry.pc = "swap"
  /\ current' = carry.gen
  /\ carry' = NoCarry
  /\ UNCHANGED <<selection, tier, lock, warm, tune, read, clobbered, spent>>

CommitStep == CarryTest \/ CarryLink \/ CommitSwap

(* The commit dies; what it carried stays where it is.                         *)
CommitDies ==
  /\ carry.pc # "idle" /\ spent < MaxDisturbances
  /\ carry' = NoCarry
  /\ spent' = spent + 1
  /\ UNCHANGED <<current, selection, tier, lock, warm, tune, read, clobbered>>

(*------------------------- the selection and the record ---------------------*)

Flip ==
  /\ spent < MaxDisturbances
  /\ selection' \in Tiers \ {selection}
  /\ spent' = spent + 1
  /\ UNCHANGED <<current, tier, lock, warm, carry, tune, read, clobbered>>

(* set_bm25_override reads the record, and writes it back with another verdict. *)
TuneRead ==
  /\ tune.pc = "idle" /\ spent < MaxDisturbances
  /\ RecordOf(current) # None
  /\ tune' = [pc |-> "write", gen |-> current, record |-> RecordOf(current)]
  /\ spent' = spent + 1
  /\ UNCHANGED <<current, selection, tier, lock, warm, carry, read, clobbered>>

TuneWrite ==
  /\ tune.pc = "write"
  /\ tier' = [tier EXCEPT ![tune.gen]["record"] = tune.record]
  /\ clobbered' = IF RecordOf(tune.gen) # tune.record
                  THEN clobbered \cup {tune.gen} ELSE clobbered
  /\ tune' = NoTune
  /\ UNCHANGED <<current, selection, lock, warm, carry, read, spent>>

(*-------------------------------- searchers ---------------------------------*)

(* Readers take no lock and do not disturb each other, so one at a time is     *)
(* followed, up to the step that loads the vectors: a searcher keeps them for  *)
(* as long as it is cached, a live tier for as long as it lives.               *)
ReadBegin(kind) ==
  /\ read.pc = "idle"
  /\ read' = [NoRead EXCEPT !.kind = kind, !.gen = current,
                            !.pc = IF kind = "open" THEN "stamp" ELSE "record"]

Go(pc) == read' = [read EXCEPT !.pc = pc]
ReadEnd == read' = NoRead
Opening(pc)  == read.kind = "open" /\ read.pc = pc
Adopting(pc) == read.kind = "adopt" /\ read.pc = pc

(* A searcher that a check turns away answers without vectors.                 *)
OpenStamp ==
  /\ Opening("stamp")
  /\ IF StampFile(read.gen) = StampOf[read.gen] THEN Go("record") ELSE ReadEnd

OpenRecord ==
  /\ Opening("record")
  /\ IF RecordOf(read.gen) = None THEN ReadEnd
     ELSE read' = [read EXCEPT !.pc = "peek", !.record = RecordOf(read.gen)]

OpenPeek ==
  /\ Opening("peek")
  /\ IF ~HeaderMatches(read.gen, read.record) THEN ReadEnd
     ELSE Go(IF read.record.tier = "learned" THEN "weights" ELSE "load")

OpenWeights ==
  /\ Opening("weights")
  /\ IF Weights(read.gen) = read.record.of THEN Go("load") ELSE ReadEnd

(* The second open of ann.bin, after the coherence check.                      *)
OpenLoad == Opening("load") /\ ReadEnd

(*------------------- adoption of the live tier, overlay queries -------------*)

(* Both reconcile a base of the lexical model through ann.files, and load the  *)
(* rows of ann.bin afterwards.                                                 *)
AdoptRecord ==
  /\ Adopting("record")
  /\ RecordOf(read.gen) # None /\ RecordOf(read.gen).tier = "lexical"
  /\ Go("peek")

AdoptPeek ==
  /\ Adopting("peek")
  /\ Bin(read.gen) # None /\ Dim(Bin(read.gen).tier) = Dim("lexical")
  /\ read' = [read EXCEPT !.pc = "files", !.base = Bin(read.gen).stamp]

(* The map that is adopted is the one ann.files holds.                         *)
AdoptFiles ==
  /\ Adopting("files")
  /\ FilesOf(read.gen) = read.base
  /\ read' = [read EXCEPT !.pc = "load", !.base = FilesOf(read.gen)]

AdoptLoad == Adopting("load") /\ ReadEnd

(* A check fails, the churn exceeds the ceiling, or the base is too small.     *)
AdoptDecline ==
  /\ \E pc \in {"record", "peek", "files"} : Adopting(pc)
  /\ ReadEnd

ReadStep ==
  /\ \/ \E kind \in {"open", "adopt"} : ReadBegin(kind)
     \/ OpenStamp \/ OpenRecord \/ OpenPeek \/ OpenWeights \/ OpenLoad
     \/ AdoptRecord \/ AdoptPeek \/ AdoptFiles \/ AdoptLoad \/ AdoptDecline
  /\ UNCHANGED <<current, selection, tier, lock, warm, carry, tune, clobbered, spent>>

(*------------------------------ specification -------------------------------*)

Next ==
  \/ \E w \in Warmers : WarmStep(w) \/ Stop(w)
  \/ \E g \in Gens : CommitBegin(g)
  \/ CommitStep \/ CommitDies
  \/ Flip \/ TuneRead \/ TuneWrite
  \/ ReadStep

Spec == Init /\ [][Next]_vars

(* Whoever needs the tier asks for a warm again, and a commit that does not    *)
(* die goes on.                                                                *)
FairSpec ==
  /\ Spec
  /\ \A w \in Warmers : WF_vars(WarmStep(w))
  /\ WF_vars(CommitStep)

(*-------------------------------- properties --------------------------------*)

\* What a file holds.
Kinds(f) == CASE f = "bin" -> Bins [] f = "record" -> Records [] OTHER -> Stamps

TypeOK ==
  /\ current \in Gens /\ selection \in Tiers
  /\ tier \in [Gens -> [Parts -> Bins \cup Records \cup Stamps \cup {None}]]
  /\ \A g \in Gens, f \in Parts : tier[g][f] \in Kinds(f) \cup {None}
  /\ lock \in [Gens -> Warmers \cup {None}]
  /\ warm \in [Warmers -> [pc : Parts \cup {"idle", "resolve", "check"}, sel : Tiers,
                           gen : Gens \cup {None}, tier : Tiers]]
  /\ carry \in [pc : {"idle", "test", "link", "swap"}, gen : Gens \cup {None},
                prior : Gens \cup {None}, next : 0 .. Len(CarryOrder) + 1, absent : BOOLEAN]
  /\ tune \in [pc : {"idle", "write"}, gen : Gens \cup {None}, record : Records \cup {None}]
  /\ read \in [kind : {"open", "adopt"}, gen : Gens \cup {None}, record : Records \cup {None},
               pc : {"idle", "stamp", "record", "peek", "weights", "files", "load"},
               base : Stamps \cup {None}]
  /\ clobbered \subseteq Gens

(* A searcher never ranks the rows of another graph's vectors: the vectors it  *)
(* loads, by a second open after the check, are those of its own generation.   *)
HandleServesOwnGraph ==
  (Opening("load") /\ read.gen \notin clobbered) =>
     Bin(read.gen) # None /\ Bin(read.gen).stamp = StampOf[read.gen]

(* What an adoption loads is what its map describes, or the generation's own   *)
(* vectors, which a warm put in the place of the base since the map was read.  *)
AdoptedRowsAreMappedOrOwn ==
  (Adopting("load") /\ read.gen \notin clobbered) =>
     Bin(read.gen) # None /\ Bin(read.gen).stamp \in {read.base, StampOf[read.gen]}

(* When a warm is about to commit, every file it wrote is still its own: no    *)
(* other warm, carry or rewrite replaced one, unless it was a writer that      *)
(* acted on an outdated observation (clobbered).                               *)
CommitsItsOwn ==
  \A w \in Warmers :
    (At(w, "stamp") /\ warm[w].gen \notin clobbered) =>
       \A f \in Parts \ {"stamp"} : Written(w, f) \in {None, tier[warm[w].gen][f]}

(* A tier that passes for fresh has the map its adoption needs: ann_is_fresh   *)
(* never looks at ann.files, and a warm that finds the tier fresh writes none. *)
(* (And the files keep their types.)                                           *)
FreshIsAdoptable ==
  TypeOK /\ \A g \in Gens \ clobbered :
    (\E sel \in Tiers : Fresh(g, sel)) => FilesOf(g) = Bin(g).stamp

(* A fresh tier of the current generation stays fresh under its selection; a   *)
(* warm that read the selection before it changed and a writer that acted on   *)
(* an outdated observation alone undo it.                                      *)
FreshStays ==
  [][\A g \in Gens :
       (Fresh(g, selection) /\ selection' = selection) =>
          \/ Fresh(g, selection)'
          \/ g \in clobbered'
          \/ \E w \in Warmers : warm[w].gen = g /\ warm[w].sel # selection]_vars

(* Once the commits, flips, stops and rewrites are over, the current           *)
(* generation gets a fresh tier under the current selection, for good.         *)
TierHeals == <>[]Fresh(current, selection)

(* The rows a searcher loads are of the model it will query with.              *)
HandleOneModel == Opening("load") => Bin(read.gen).tier = read.record.tier

(* The rows an adoption loads are those its map describes.                     *)
AdoptExact == Adopting("load") => Bin(read.gen).stamp = read.base

(* A commit never overwrites a tier its generation already has.                *)
CarryNeverOverwrites == clobbered = {}
===============================================================================
