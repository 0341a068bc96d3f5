---------------------------- MODULE ManifestReplay ----------------------------
(* Which of the earlier extraction products a build replays instead of reading *)
(* the file: build_index_inner of crates/index/src/lib.rs, with the hinted     *)
(* patch, the racy window, the digests, the lanes that carry a generation over *)
(* and the loose products that searches bank beside it.                        *)
(*                                                                             *)
(* One look at a file, at CURRENT or at the bank is one step.                  *)
(*                                                                             *)
(* Abstractions.  Time is counted in grains of the file system's time stamps.  *)
(* Edits keep a file's size, which is the hard case: a stat is a time stamp.  *)
(* A product is the content it was extracted from (its digest, and what the    *)
(* graph makes of it), the stamp it carries and the rules that extracted it.   *)
(* The cutoff and the three composes are one lane, which may bail at any file: *)
(* they differ in what they can carry over, not in what they trust.  CURRENT's *)
(* generation is kept, earlier ones are not found again.                       *)
EXTENDS Integers

CONSTANTS
  Files,
  Contents,     \* what may be in a file
  Builders,
  Window,       \* the racy window: two seconds
  Horizon,      \* bound on the clock
  Modes,        \* the cases, see below
  None

(* A case says what the environment does and how builds are asked for:         *)
(*   hinted    the builder that patches the prior manifest from the watch      *)
(*   verified  builds verify every digest (CacheMode::Verified)                *)
(*   coarse    two edits of a file may carry the same stamp                    *)
(*   slow      a build may outlast the racy window                             *)
(*   kept      an edit may restore the stamp                                   *)
(*   bank      how searches bank products: "none", "read", or "held"           *)
(*   apart     no edit during the builds of a builder that is not hinted       *)
(*   upgrade   the extraction rules change                                     *)
(*   builders, files  the ones that take part                                  *)
ASSUME ReplayAssumption ==
  /\ Window \in Nat \ {0} /\ Horizon \in Nat \ {0}
  /\ Modes \subseteq [hinted : Builders \cup {None}, verified : BOOLEAN, coarse : BOOLEAN,
                      slow : BOOLEAN, kept : BOOLEAN, bank : {"none", "read", "held"},
                      apart : BOOLEAN, upgrade : BOOLEAN,
                      builders : SUBSET Builders, files : SUBSET Files]
  /\ None \notin Builders \cup Files \cup (0..Horizon)
  /\ None \notin [content : Contents, stamp : 0..Horizon, rules : 1..2]

VARIABLES
  mode,
  now,      \* the clock
  file,     \* file[f]: whether it is there, its content and its stamp
  rules,    \* the extraction rules installed
  watch,    \* the changes captured since the hinted builder last took them
  gen,      \* CURRENT: manifest, the time it was written, product pack
  bank,     \* bank[f]: the loose product of f
  search,   \* the search that is about to bank a product
  build     \* build[b]

vars == <<mode, now, file, rules, watch, gen, bank, search, build>>

NoStats == [f \in Files |-> None]
Idle == [pc |-> "idle", since |-> 0, rules |-> 0, stat |-> NoStats, prior |-> None,
         todo |-> {}, listed |-> {}, out |-> NoStats, written |-> 0, moved |-> {}]
NoSearch == [pc |-> "idle", f |-> None, content |-> None, stamp |-> 0, rules |-> 0]

Init ==
  /\ mode \in Modes
  /\ now = 1 /\ rules = 1 /\ watch = {} /\ gen = None
  /\ file = [f \in Files |-> [there |-> FALSE, content |-> None, stamp |-> 0]]
  /\ bank = [f \in Files |-> None] /\ search = NoSearch
  /\ build = [b \in Builders |-> Idle]

Product(c, stamp, r) == [content |-> c, stamp |-> stamp, rules |-> r]

\* The stat of a path.
Seen(f) == IF file[f].there THEN file[f].stamp ELSE None

Running(b) == build[b].pc # "idle"

(*------------------------------- the environment ----------------------------*)

(* A build that is not slow writes its manifest within the window.             *)
Tick ==
  /\ now < Horizon /\ now' = now + 1
  /\ mode.slow \/ \A b \in Builders :
       build[b].pc \in {"idle", "commit"} \/ now + 1 - build[b].since < Window
  /\ UNCHANGED <<mode, file, rules, watch, gen, bank, search, build>>

(* The watch captures every change.                                            *)
Edit(f, entry) ==
  /\ mode.apart => \A b \in Builders : Running(b) => b = mode.hinted
  /\ file' = [file EXCEPT ![f] = entry]
  /\ watch' = IF mode.hinted = None THEN watch ELSE watch \cup {f}
  /\ build' = [b \in Builders |->
                 IF Running(b) THEN [build[b] EXCEPT !.moved = @ \cup {f}] ELSE build[b]]
  /\ UNCHANGED <<mode, now, rules, gen, bank, search>>

Stamped(f) == mode.coarse \/ file[f].stamp # now

Save(f) ==
  /\ Stamped(f)
  /\ \E c \in Contents \ {file[f].content} : Edit(f, [there |-> TRUE, content |-> c, stamp |-> now])

Touch(f) == file[f].there /\ file[f].stamp # now /\ Edit(f, [file[f] EXCEPT !.stamp = now])

Remove(f) == file[f].there /\ Stamped(f) /\ Edit(f, [there |-> FALSE, content |-> None, stamp |-> now])

SaveKeepingStamp(f) ==
  /\ mode.kept /\ file[f].there
  /\ \E c \in Contents \ {file[f].content} : Edit(f, [file[f] EXCEPT !.content = c])

Upgrade ==
  /\ mode.upgrade /\ rules = 1 /\ rules' = 2
  /\ UNCHANGED <<mode, now, file, watch, gen, bank, search, build>>

(*--------------------------- searches that bank -----------------------------*)

Searches(next) ==
  /\ search' = next
  /\ UNCHANGED <<mode, now, file, rules, watch, gen, bank, build>>

(* The search reads and parses the file, ...                                   *)
SearchReads(f) ==
  /\ mode.bank # "none" /\ search.pc = "idle" /\ file[f].there
  /\ Searches([pc |-> "read", f |-> f, content |-> file[f].content, stamp |-> 0, rules |-> rules])

(* ... and when it has matched, looks for an index and takes the file's stamp: *)
(* a product with that stamp is there, or one is extracted, ...                *)
SearchStats ==
  /\ search.pc = "read"
  /\ LET f == search.f IN
     Searches(IF gen = None \/ ~file[f].there \/ (bank[f] # None /\ bank[f].stamp = file[f].stamp)
              THEN NoSearch
              ELSE [search EXCEPT !.pc = "stat", !.stamp = file[f].stamp])

(* Fault: the file is read before its stamp is taken.                          *)
SearchBanksHeld ==
  /\ search.pc = "stat"
  /\ bank' = [bank EXCEPT ![search.f] = Product(search.content, search.stamp, search.rules)]
  /\ search' = NoSearch
  /\ UNCHANGED <<mode, now, file, rules, watch, gen, build>>

(* ... from the parse it holds if the length is that of the stat, or from the  *)
(* file.                                                                       *)
SearchBanks ==
  /\ search.pc = "stat"
  /\ LET f == search.f
         content == IF mode.bank = "held" THEN search.content ELSE file[f].content
     IN bank' = IF mode.bank = "held" \/ file[f].there
                THEN [bank EXCEPT ![f] = Product(content, search.stamp, search.rules)] ELSE bank
  /\ search' = NoSearch
  /\ UNCHANGED <<mode, now, file, rules, watch, gen, build>>

(*-------------------------------- the scan ----------------------------------*)

Builds(b, next) ==
  /\ build' = [build EXCEPT ![b] = next]
  /\ UNCHANGED <<mode, now, file, rules, gen, bank, search>>

Known(manifest) == {f \in Files : manifest[f] # None}

Sweeping(s) == [s EXCEPT !.pc = "stat", !.stat = NoStats, !.todo = mode.files]

(* A hinted build resolves CURRENT a first time, for the manifest to patch.    *)
Begin(b) ==
  LET s == [Idle EXCEPT !.since = IF mode.slow THEN 0 ELSE now, !.rules = rules]
  IN /\ ~Running(b) /\ b \in mode.builders
     /\ watch' = IF b = mode.hinted THEN {} ELSE watch
     /\ Builds(b, IF b = mode.hinted /\ gen # None
                  THEN [s EXCEPT !.pc = "patch", !.stat = gen.manifest, !.todo = watch]
                  ELSE Sweeping(s))

(* Fault: a path the prior manifest never held is taken for noise.             *)
PatchKnownOnly(b, f) ==
  LET s == build[b] IN
  /\ s.pc = "patch" /\ f \in s.todo
  /\ Builds(b, [s EXCEPT !.todo = @ \ {f},
                         !.stat[f] = IF @ # None THEN Seen(f) ELSE None])
  /\ UNCHANGED watch

(* patch_manifest: a path the prior manifest never held makes it a sweep.      *)
Patch(b, f) ==
  LET s == build[b] IN
  /\ s.pc = "patch" /\ f \in s.todo
  /\ Builds(b, IF file[f].there /\ s.stat[f] = None THEN Sweeping(s)
               ELSE [s EXCEPT !.todo = @ \ {f}, !.stat[f] = Seen(f)])
  /\ UNCHANGED watch

(* Manifest::scan                                                              *)
Stat(b, f) ==
  LET s == build[b] IN
  /\ s.pc = "stat" /\ f \in s.todo
  /\ Builds(b, [s EXCEPT !.todo = @ \ {f}, !.stat[f] = Seen(f)])
  /\ UNCHANGED watch

(*----------------------------- what is trusted ------------------------------*)

(* Fault: only files newer than the prior manifest are read again.             *)
RacyAfter(stamp, prior) == prior = None \/ stamp >= prior.written

(* Within the window of the write of the prior manifest.                       *)
Racy(stamp, prior) ==
  LET written == IF prior = None THEN 0 ELSE prior.written
  IN stamp - written < Window /\ written - stamp < Window

Changed(s) == {f \in Files : s.stat[f] # s.prior.manifest[f]}

RacyOf(s, F) == {f \in F : s.stat[f] # None /\ Racy(s.stat[f], s.prior)}

DigestMatches(f, product) == file[f].there /\ product # None /\ product.content = file[f].content

Pipeline(s) == [s EXCEPT !.pc = "list", !.todo = {}, !.out = NoStats]

(* CURRENT is resolved (again): the whole tree may be reused, a lane tried, or *)
(* the pipeline run.  The lanes need the same paths.                           *)
Gated(s) == s.prior # None /\ ~mode.verified /\ s.rules = s.prior.rules

Decide(b) ==
  LET s == [build[b] EXCEPT !.prior = gen] IN
  /\ build[b].pc \in {"stat", "patch"} /\ build[b].todo = {}
  /\ Builds(b, IF ~Gated(s) THEN Pipeline(s)
               ELSE IF Changed(s) = {} THEN [s EXCEPT !.pc = "verify", !.todo = RacyOf(s, Files)]
               ELSE IF Known(s.stat) = Known(gen.manifest)
               THEN [s EXCEPT !.pc = "trust", !.todo = RacyOf(s, Files \ Changed(s))]
               ELSE Pipeline(s))
  /\ UNCHANGED watch

(* A racy file that is to be trusted unread is read after all: by the whole-   *)
(* tree reuse, or by a lane.                                                   *)
VerifyRacy(b, f) ==
  LET s == build[b] IN
  /\ s.pc \in {"verify", "trust"} /\ f \in s.todo
  /\ Builds(b, IF DigestMatches(f, s.prior.pack[f]) THEN [s EXCEPT !.todo = @ \ {f}] ELSE Pipeline(s))
  /\ UNCHANGED watch

Reuse(b) ==
  /\ build[b].pc = "verify" /\ build[b].todo = {}
  /\ Builds(b, [build[b] EXCEPT !.pc = "reused"])
  /\ UNCHANGED watch

(* Any doubt goes to the pipeline.                                             *)
Bail(b) ==
  /\ build[b].pc \in {"verify", "trust", "extract"}
  /\ Builds(b, Pipeline(build[b]))
  /\ UNCHANGED watch

(* The lane carries the pack over, and extracts the changed files again.       *)
Carry(b) ==
  LET s == build[b] IN
  /\ s.pc = "trust" /\ s.todo = {}
  /\ Builds(b, [s EXCEPT !.pc = "extract", !.todo = Changed(s), !.out = s.prior.pack])
  /\ UNCHANGED watch

Extract(b, f) ==
  LET s == build[b] IN
  /\ s.pc = "extract" /\ f \in s.todo
  /\ Builds(b, IF file[f].there /\ s.out[f] # None
               THEN [s EXCEPT !.todo = @ \ {f}, !.out[f] = Product(file[f].content, s.stat[f], s.rules)]
               ELSE Pipeline(s))
  /\ UNCHANGED watch

(*------------------------------- the pipeline -------------------------------*)

(* The pipeline lists the bank before its first file.                          *)
List(b) ==
  LET s == build[b] IN
  /\ s.pc = "list"
  /\ Builds(b, [s EXCEPT !.pc = "apply", !.todo = Known(s.stat),
                         !.listed = {f \in Files : bank[f] # None}])
  /\ UNCHANGED watch

(* digest_must_match                                                           *)
DigestOk(s, f, product) ==
  (mode.verified \/ Racy(s.stat[f], s.prior)) => DigestMatches(f, product)

Replays(s, f, product) ==
  /\ product # None /\ product.stamp = s.stat[f] /\ product.rules = s.rules
  /\ DigestOk(s, f, product)

(* Loose before packed; else the file is read, or skipped if it cannot be.     *)
Apply(b, f) ==
  LET s == build[b]
      packed == IF s.prior = None THEN None ELSE s.prior.pack[f]
      loose  == IF f \in s.listed THEN bank[f] ELSE None
  IN /\ s.pc = "apply" /\ f \in s.todo
     /\ Builds(b, [s EXCEPT !.todo = @ \ {f},
          !.out[f] = IF Replays(s, f, loose) THEN loose
                     ELSE IF Replays(s, f, packed) THEN packed
                     ELSE IF file[f].there THEN Product(file[f].content, s.stat[f], s.rules)
                     ELSE None])
     /\ UNCHANGED watch

(* The products listed at the start are consolidated, and deleted.             *)
Consolidate(b) ==
  LET s == build[b] IN
  /\ s.pc = "apply" /\ s.todo = {}
  /\ bank' = [f \in Files |-> IF f \in s.listed THEN None ELSE bank[f]]
  /\ build' = [build EXCEPT ![b].pc = "save"]
  /\ UNCHANGED <<mode, now, file, rules, watch, gen, search>>

(*--------------------------------- the end ----------------------------------*)

(* The manifest is the last file staged.                                       *)
SaveManifest(b) ==
  LET s == build[b] IN
  /\ s.pc = "save" \/ (s.pc = "extract" /\ s.todo = {})
  /\ Builds(b, [s EXCEPT !.pc = "commit", !.written = now])
  /\ UNCHANGED watch

(* commit_generation: a generation that is there already is used as it is.     *)
Commit(b) ==
  LET s == build[b]
      next == [manifest |-> s.stat, rules |-> s.rules, pack |-> s.out, written |-> s.written]
      same == gen # None /\ [next EXCEPT !.written = 0] = [gen EXCEPT !.written = 0]
  IN /\ s.pc = "commit"
     /\ gen' = IF same THEN gen ELSE next
     /\ build' = [build EXCEPT ![b] = Idle]
     /\ UNCHANGED <<mode, now, file, rules, watch, bank, search>>

Report(b) ==
  /\ build[b].pc = "reused" /\ Builds(b, Idle) /\ UNCHANGED watch

Next ==
  \/ Tick \/ Upgrade \/ SearchStats \/ SearchBanks
  \/ \E f \in mode.files : Save(f) \/ Touch(f) \/ Remove(f) \/ SaveKeepingStamp(f) \/ SearchReads(f)
  \/ \E b \in Builders :
       \/ Begin(b) \/ Decide(b) \/ Reuse(b) \/ Bail(b) \/ List(b) \/ Carry(b) \/ Consolidate(b)
       \/ SaveManifest(b) \/ Commit(b) \/ Report(b)
       \/ \E f \in Files : Patch(b, f) \/ Stat(b, f) \/ VerifyRacy(b, f) \/ Extract(b, f) \/ Apply(b, f)

Spec == Init /\ [][Next]_vars

(*-------------------------------- properties --------------------------------*)

Stamps   == 0..Horizon
Products == [content : Contents, stamp : Stamps, rules : 1..2]
Manifests == [Files -> Stamps \cup {None}]
Packs     == [Files -> Products \cup {None}]
Gens      == [manifest : Manifests, rules : 1..2, written : Stamps, pack : Packs]

(* The shape of the state, and what keeps a generation in one piece: a product *)
(* in its pack carries the stamp of its manifest and the rules of the build.   *)
TypeOK ==
  /\ mode \in Modes /\ now \in Stamps /\ rules \in 1..2 /\ watch \subseteq Files
  /\ \A f \in Files : file[f] \in [there : BOOLEAN, content : Contents \cup {None}, stamp : Stamps]
  /\ bank \in Packs
  /\ gen # None =>
       /\ gen \in Gens
       /\ \A f \in Files : gen.pack[f] # None =>
            gen.pack[f].stamp = gen.manifest[f] /\ gen.pack[f].rules = gen.rules
  /\ \A b \in Builders : build[b].moved \subseteq Files /\ build[b].stat \in Manifests

(* The cases in which the properties hold; outside of each line TLC has a       *)
(* counterexample.  The one hinted builder is alone, or nothing is edited while *)
(* another one builds.  Either every digest is verified, or edits change stamps *)
(* and searches bank what they read after the stat; and if several edits may    *)
(* share a stamp, builds end within the window and nothing is banked.           *)
SoundCase(m) ==
  /\ m.hinted \in m.builders => m.apart \/ m.builders = {m.hinted}
  /\ ~m.verified => /\ ~m.kept /\ m.bank # "held"
                    /\ m.coarse => ~m.slow /\ m.bank = "none"

(* What build b is about to publish, or says is published already.             *)
Result(b) == IF build[b].pc = "reused" THEN build[b].prior.pack ELSE build[b].out

Current(f, product, r) ==
  IF file[f].there
  THEN product # None /\ product.content = file[f].content /\ product.rules = r
  ELSE product = None

(* A replayed product is that of the file as it is: whatever was reused,       *)
(* carried, replayed or read, the result of a build is that of a build from    *)
(* scratch, but for the files edited while it ran.                             *)
ResultIsCurrent ==
  \A b \in Builders :
    build[b].pc \in {"commit", "reused"} =>
      \A f \in mode.files \ build[b].moved : Current(f, Result(b)[f], build[b].rules)

(* A product that is not the file's any more shows: the next sweep sees another*)
(* stamp, or reads the file because it is racy.  The generation is in one      *)
(* piece, as TypeOK says.                                                      *)
StaleShows ==
  TypeOK /\ (gen # None /\ ~mode.verified =>
    \A f \in mode.files :
      \/ Current(f, gen.pack[f], gen.rules)
      \/ gen.manifest[f] # Seen(f)
      \/ gen.manifest[f] # None /\ Racy(gen.manifest[f], gen))

(* "The committed generation is identical either way": the patched manifest is *)
(* what a sweep would have found, also when CURRENT moved between the scan and *)
(* the decision.                                                               *)
HintedLikeSweep ==
  \A b \in Builders :
    build[b].pc \in {"verify", "trust", "extract", "list", "apply", "save", "commit", "reused"} =>
      \A f \in mode.files \ build[b].moved :
        build[b].stat[f] = Seen(f)
===============================================================================
