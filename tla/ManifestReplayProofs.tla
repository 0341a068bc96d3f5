------------------------- MODULE ManifestReplayProofs -------------------------
(***************************************************************************)
(* Why a replayed product is that of the file as it is, for every number   *)
(* of files, contents and builders, any window and any clock: a product is *)
(* of the text its stamp was taken of, or the stamp lies within the window *)
(* of the write of its manifest, where it is not trusted unread.           *)
(***************************************************************************)
EXTENDS ManifestReplay, TLAPS

Pcs == {"idle", "patch", "stat", "verify", "trust", "extract", "list", "apply", "save", "commit", "reused"}

Entries  == [there : BOOLEAN, content : Contents \cup {None}, stamp : Stamps]
SearchRecords == [pc : {"idle", "read", "stat"}, f : Files \cup {None}, content : Contents \cup {None},
              stamp : Stamps, rules : 0..2]
BuildRecords == [pc : Pcs, since : Stamps, rules : 0..2, stat : Manifests, prior : Gens \cup {None},
                 todo : SUBSET Files, listed : SUBSET Files, out : Packs, written : Stamps,
                 moved : SUBSET Files]

Typed ==
  /\ mode \in Modes /\ now \in Stamps /\ rules \in 1..2 /\ watch \subseteq Files
  /\ file \in [Files -> Entries]
  /\ bank \in Packs /\ gen \in Gens \cup {None}
  /\ search \in SearchRecords /\ build \in [Builders -> BuildRecords]
  /\ \A f \in Files : file[f].stamp <= now /\ (file[f].there => file[f].content \in Contents)
  /\ search.pc # "idle" => search.f \in Files /\ search.content \in Contents /\ search.rules \in 1..2
  /\ \A b \in Builders : Running(b) => build[b].rules \in 1..2 /\ b \in mode.builders

\* The product is that of the file, as long as the file has this stamp.
Faithful(f, stamp, p) ==
  Seen(f) = stamp /\ stamp # None => p # None /\ p.content = file[f].content

\* What a generation holds of a file: the product is of the text that has the
\* stamp, or the stamp is racy for whoever replays it.
Sealed(g, f) ==
  /\ g.manifest[f] # None => g.manifest[f] <= file[f].stamp /\ g.manifest[f] <= g.written
  /\ ~mode.verified =>
       \/ Faithful(f, g.manifest[f], g.pack[f])
       \/ mode.coarse /\ g.manifest[f] # None /\ g.written - g.manifest[f] < Window

OnePiece(g) ==
  \A f \in Files : g.pack[f] # None => g.pack[f].stamp = g.manifest[f] /\ g.pack[f].rules = g.rules

GenOk(g) == g.written <= now /\ OnePiece(g) /\ \A f \in mode.files : Sealed(g, f)

\* What a build has settled, and where it holds it.
Held(s) == IF s.pc \in {"verify", "trust", "reused"} THEN s.prior.pack ELSE s.out
Settled(s) ==
  CASE s.pc = "trust" -> Files \ (s.todo \cup Changed(s))
    [] s.pc \in {"verify", "extract", "apply"} -> Files \ s.todo
    [] s.pc \in {"save", "commit", "reused"} -> Files
    [] OTHER -> {}

\* The product of a build is that of the file it looked at, unless that moved.
Kept(s, f, p) ==
  \/ Faithful(f, s.stat[f], p)
  \/ f \in s.moved /\ (mode.verified \/ (mode.coarse /\ s.stat[f] # None /\ s.stat[f] >= s.since))

\* What a build has seen of the files.
Looked(s) ==
  /\ s.since <= now
  /\ \A f \in mode.files :
       /\ s.stat[f] # None => s.stat[f] <= file[f].stamp
       /\ (s.pc \in {"patch", "stat"} => f \notin s.todo) /\ f \notin s.moved => s.stat[f] = Seen(f)

\* Where a build is.
Phase(s) ==
  /\ s.pc \in {"verify", "trust", "reused"} => ~mode.verified /\ s.prior # None /\ s.rules = s.prior.rules
  /\ s.pc \in {"verify", "reused"} => \A f \in Files : s.stat[f] = s.prior.manifest[f]
  /\ s.pc = "trust" => Known(s.stat) = Known(s.prior.manifest)
  /\ s.pc = "list" => \A f \in Files : s.out[f] = None
  /\ s.pc \in {"extract", "apply"} => \A f \in s.todo : s.stat[f] # None
  /\ s.pc # "commit" /\ ~mode.slow => now - s.since < Window
  /\ s.pc = "commit" =>
       /\ s.written <= now /\ (~mode.slow => s.written - s.since < Window)
       /\ \A f \in mode.files : s.stat[f] # None => s.stat[f] <= s.written

ProductsOk(s) ==
  /\ \A f \in Settled(s) : Held(s)[f] # None => Held(s)[f].stamp = s.stat[f] /\ Held(s)[f].rules = s.rules
  /\ \A f \in Settled(s) \cap mode.files : Kept(s, f, Held(s)[f])

BuildOk(s) == s.pc # "idle" => Looked(s) /\ Phase(s) /\ ProductsOk(s)

\* CURRENT, and what the builds took for CURRENT.
GensInv == \A g \in {gen} \cup {build[b].prior : b \in Builders} : g # None => GenOk(g)

BuildsInv == \A b \in Builders : \A s \in {build[b]} : BuildOk(s)

BankInv ==
  /\ mode.bank = "none" => search.pc = "idle" /\ \A f \in Files : bank[f] = None
  /\ search.pc = "stat" => search.stamp <= file[search.f].stamp
  /\ ~mode.verified => \A f \in Files : bank[f] # None =>
       bank[f].stamp <= file[f].stamp /\ Faithful(f, bank[f].stamp, bank[f])

\* CURRENT is what the hinted builder believes, but for the changes captured.
WatchInv ==
  /\ mode.apart => \A b \in Builders : b # mode.hinted => build[b].moved = {}
  /\ mode.hinted \in mode.builders =>
       /\ build[mode.hinted].moved \subseteq watch
       /\ build[mode.hinted].pc \in {"idle", "verify", "reused"} /\ gen # None =>
            \A f \in mode.files : f \in watch \/ gen.manifest[f] = Seen(f)

ReplayInv == Typed /\ SoundCase(mode) /\ GensInv /\ BuildsInv /\ BankInv /\ WatchInv

-------------------------------------------------------------------------------
(* Constants and shapes. *)

LEMMA Apart ==
  /\ Window \in Nat \ {0} /\ Horizon \in Nat \ {0} /\ 0 \in Stamps /\ 1 \in Stamps
  /\ None \notin Builders /\ None \notin Files /\ None \notin Stamps /\ None \notin Products
BY ReplayAssumption DEF Stamps, Products

LEMMA ModeShape ==
  ASSUME Typed
  PROVE  /\ mode.hinted \in Builders \cup {None} /\ mode.builders \subseteq Builders
         /\ mode.files \subseteq Files
         /\ mode.verified \in BOOLEAN /\ mode.coarse \in BOOLEAN /\ mode.slow \in BOOLEAN
         /\ mode.kept \in BOOLEAN /\ mode.apart \in BOOLEAN /\ mode.bank \in {"none", "read", "held"}
<1>1. mode \in [hinted : Builders \cup {None}, verified : BOOLEAN, coarse : BOOLEAN,
                slow : BOOLEAN, kept : BOOLEAN, bank : {"none", "read", "held"},
                apart : BOOLEAN, upgrade : BOOLEAN,
                builders : SUBSET Builders, files : SUBSET Files]
  BY ReplayAssumption DEF Typed
<1> QED
  BY <1>1

\* What is seen of a file is a stamp, if it is there.
LEMMA SeenShape ==
  ASSUME Typed, NEW f \in Files
  PROVE  /\ Seen(f) \in Stamps \cup {None}
         /\ Seen(f) # None <=> file[f].there
         /\ Seen(f) # None => Seen(f) = file[f].stamp /\ file[f].content \in Contents
         /\ file[f].stamp \in Stamps /\ file[f].stamp <= now
BY Apart DEF Typed, Seen, Entries

LEMMA GenShape ==
  ASSUME NEW g \in Gens, NEW f \in Files
  PROVE  /\ g.manifest[f] \in Stamps \cup {None} /\ g.written \in Stamps /\ g.rules \in 1..2
         /\ g.pack[f] \in Products \cup {None}
         /\ g.manifest \in Manifests /\ g.pack \in Packs
BY DEF Gens, Manifests, Packs

LEMMA BuildShape ==
  ASSUME NEW s \in BuildRecords
  PROVE  /\ s.pc \in Pcs /\ s.since \in Stamps /\ s.rules \in 0..2 /\ s.stat \in Manifests
         /\ s.prior \in Gens \cup {None} /\ s.todo \subseteq Files /\ s.listed \subseteq Files
         /\ s.out \in Packs /\ s.written \in Stamps /\ s.moved \subseteq Files
         /\ \A f \in Files : s.stat[f] \in Stamps \cup {None} /\ s.out[f] \in Products \cup {None}
BY DEF BuildRecords, Manifests, Packs

LEMMA ProductShape ==
  ASSUME NEW c \in Contents, NEW stamp \in Stamps, NEW r \in 1..2
  PROVE  /\ Product(c, stamp, r) \in Products
         /\ Product(c, stamp, r).content = c /\ Product(c, stamp, r).stamp = stamp
         /\ Product(c, stamp, r).rules = r
BY DEF Product, Products

\* The builds as a step leaves them.
LEMMA IdleShape ==
  /\ Idle \in BuildRecords /\ Idle.pc = "idle" /\ Idle.moved = {} /\ Idle.prior = None
  /\ NoStats \in Manifests /\ NoStats \in Packs /\ \A f \in Files : NoStats[f] = None
<1>1. NoStats \in Manifests /\ NoStats \in Packs /\ \A f \in Files : NoStats[f] = None
  BY DEF NoStats, Manifests, Packs
<1>2. Idle.pc = "idle" /\ Idle.moved = {} /\ Idle.prior = None
  BY DEF Idle
<1>3. Idle \in BuildRecords
  BY <1>1, Apart DEF Idle, BuildRecords, Pcs
<1> QED
  BY <1>1, <1>2, <1>3

-------------------------------------------------------------------------------
(* Frames: a generation and a build are judged by the clock and the files. *)

LEMMA GenFrame ==
  ASSUME UNCHANGED <<mode, now, file>>, NEW g
  PROVE  GenOk(g) => GenOk(g)'
BY DEF GenOk, OnePiece, Sealed, Faithful, Seen

LEMMA BuildFrame ==
  ASSUME UNCHANGED <<mode, now, file>>, NEW s
  PROVE  BuildOk(s) => BuildOk(s)'
<1>1. UNCHANGED <<Looked(s), Phase(s), ProductsOk(s)>>
  BY DEF Looked, Phase, ProductsOk, Kept, Faithful, Settled, Held, Changed, Known, Seen
<1> QED
  BY <1>1 DEF BuildOk

LEMMA BankFrame ==
  ASSUME UNCHANGED <<mode, file, bank, search>>, BankInv
  PROVE  BankInv'
BY DEF BankInv, Faithful, Seen

\* What a step of a build that is not its commit has to show.
LEMMA BuilderStep ==
  ASSUME ReplayInv, NEW b \in Builders, NEW t \in BuildRecords, build' = [build EXCEPT ![b] = t],
         UNCHANGED <<mode, now, file, rules, gen, search>>, watch' \subseteq Files,
         bank' \in Packs, BankInv',
         t.pc # "idle" => t.rules \in 1..2 /\ b \in mode.builders,
         t.prior \in {None, build[b].prior, gen}, BuildOk(t),
         b # mode.hinted => watch' = watch /\ t.moved \subseteq build[b].moved,
         b = mode.hinted => t.moved \subseteq watch',
         b = mode.hinted /\ t.pc \in {"idle", "verify", "reused"} /\ gen # None =>
           \A f \in mode.files : f \in watch' \/ gen.manifest[f] = Seen(f)
  PROVE  ReplayInv'
<1>1. build'[b] = t /\ \A c \in Builders : c # b => build'[c] = build[c]
  BY DEF ReplayInv, Typed
<1>2. Typed'
  <2>1. build' \in [Builders -> BuildRecords]
    BY DEF ReplayInv, Typed
  <2>2. \A c \in Builders : Running(c)' => build'[c].rules \in 1..2 /\ c \in mode.builders
    BY <1>1 DEF ReplayInv, Typed, Running
  <2> QED
    BY <2>1, <2>2 DEF ReplayInv, Typed, Entries, SearchRecords
<1>3. GensInv'
  <2> SUFFICES ASSUME NEW g \in {gen'} \cup {build'[c].prior : c \in Builders}, g # None
               PROVE  GenOk(g)'
    BY DEF GensInv
  <2>1. g \in {gen} \cup {build[c].prior : c \in Builders}
    BY <1>1
  <2> QED
    BY <2>1, GenFrame DEF ReplayInv, GensInv
<1>4. BuildsInv'
  <2> SUFFICES ASSUME NEW c \in Builders, NEW s \in {build'[c]} PROVE BuildOk(s)'
    BY DEF BuildsInv
  <2>1. BuildOk(s)
    <3>1. CASE c = b
      BY <1>1, <3>1
    <3>2. CASE c # b
      BY <1>1, <3>2 DEF ReplayInv, BuildsInv
    <3> QED
      BY <3>1, <3>2
  <2> QED
    BY <2>1, BuildFrame
<1>5. WatchInv'
  <2>1. mode.apart => \A c \in Builders : c # mode.hinted => build'[c].moved = {}
    BY <1>1 DEF ReplayInv, WatchInv
  <2>2. mode.hinted \in mode.builders => mode.hinted \in Builders
    BY ModeShape DEF ReplayInv
  <2>3. UNCHANGED mode.hinted
    OBVIOUS
  <2>4. CASE b = mode.hinted
    BY <1>1, <2>1, <2>2, <2>4 DEF WatchInv, Seen
  <2>5. CASE b # mode.hinted
    BY <1>1, <2>1, <2>2, <2>5 DEF ReplayInv, WatchInv, Seen
  <2> QED
    BY <2>4, <2>5
<1> QED
  BY <1>2, <1>3, <1>4, <1>5 DEF ReplayInv, SoundCase

\* A build that goes on, with the files it saw moving.
LEMMA RunningStep ==
  ASSUME ReplayInv, NEW b \in Builders, NEW t \in BuildRecords, build' = [build EXCEPT ![b] = t],
         UNCHANGED <<mode, now, file, rules, gen, bank, search>>, watch' = watch,
         Running(b), t.rules = build[b].rules, t.moved = build[b].moved,
         t.prior \in {build[b].prior, gen}, BuildOk(t),
         t.pc \in {"idle", "verify", "reused"} =>
           build[b].pc \in {"verify", "reused"} \/ (t.prior = gen /\ t.pc = "verify")
  PROVE  ReplayInv'
<1>1. b = mode.hinted => t.moved \subseteq watch
  BY DEF ReplayInv, WatchInv, Typed
<1>2. ASSUME b = mode.hinted, t.pc \in {"idle", "verify", "reused"}, gen # None, NEW f \in mode.files
      PROVE  f \in watch \/ gen.manifest[f] = Seen(f)
  <2>1. CASE build[b].pc \in {"verify", "reused"}
    BY <1>2, <2>1 DEF ReplayInv, WatchInv, Typed
  <2>2. CASE t.prior = gen /\ t.pc = "verify"
    <3>1. f \in Files
      BY ModeShape DEF ReplayInv
    <3>2. t.stat[f] = gen.manifest[f] /\ (f \notin t.moved => t.stat[f] = Seen(f))
      BY <2>2, <3>1 DEF BuildOk, Looked, Phase
    <3> QED
      BY <1>1, <1>2, <3>2
  <2> QED
    BY <1>2, <2>1, <2>2
<1>3. watch' \subseteq Files /\ t.rules \in 1..2 /\ b \in mode.builders
  BY DEF ReplayInv, Typed
<1>4. bank' \in Packs /\ BankInv'
  BY BankFrame DEF ReplayInv, Typed
<1> QED
  BY <1>1, <1>2, <1>3, <1>4, BuilderStep

LEMMA BuildAt ==
  ASSUME ReplayInv, NEW b \in Builders, NEW s, s = build[b]
  PROVE  /\ s \in BuildRecords /\ (s.prior # None => s.prior \in Gens /\ GenOk(s.prior))
         /\ s.pc # "idle" => Looked(s) /\ Phase(s) /\ ProductsOk(s) /\ s.rules \in 1..2 /\ b \in mode.builders
<1>1. s \in BuildRecords
  BY DEF ReplayInv, Typed
<1>2. s.prior # None => s.prior \in Gens /\ GenOk(s.prior)
  BY <1>1, BuildShape DEF ReplayInv, GensInv
<1>3. BuildOk(s)
  BY DEF ReplayInv, BuildsInv
<1>4. s.pc # "idle" => s.rules \in 1..2 /\ b \in mode.builders
  BY DEF ReplayInv, Typed, Running
<1> QED
  BY <1>1, <1>2, <1>3, <1>4 DEF BuildOk

-------------------------------------------------------------------------------
(* The scan. *)

\* A file is looked at.
LookedAt(s, f) == [s EXCEPT !.todo = @ \ {f}, !.stat[f] = Seen(f)]

LEMMA LookOk ==
  ASSUME ReplayInv, NEW s \in BuildRecords, Looked(s), Phase(s), s.pc \in {"patch", "stat"},
         NEW f \in Files, NEW t, t = LookedAt(s, f)
  PROVE  t \in BuildRecords /\ BuildOk(t) /\ t.pc = s.pc /\ t.rules = s.rules /\ t.moved = s.moved
         /\ t.prior = s.prior
<1>1. /\ Typed /\ mode.files \subseteq Files /\ Seen(f) \in Stamps \cup {None}
      /\ Seen(f) # None => Seen(f) <= file[f].stamp
  <2>1. Typed /\ mode.files \subseteq Files
    BY ModeShape DEF ReplayInv
  <2> QED
    BY <2>1, SeenShape, Apart DEF Stamps
<1>2. /\ t \in BuildRecords /\ t.pc = s.pc /\ t.since = s.since /\ t.rules = s.rules /\ t.prior = s.prior
      /\ t.todo = s.todo \ {f} /\ t.moved = s.moved /\ t.stat = [s.stat EXCEPT ![f] = Seen(f)]
  BY <1>1, ZenonT(60) DEF LookedAt, BuildRecords, Manifests
<1>3. t.stat[f] = Seen(f) /\ \A g \in Files : g # f => t.stat[g] = s.stat[g]
  BY <1>2, BuildShape DEF Manifests
<1>4. Looked(t)
  <2> SUFFICES ASSUME NEW g \in mode.files
               PROVE  /\ t.stat[g] # None => t.stat[g] <= file[g].stamp
                      /\ g \notin t.todo /\ g \notin t.moved => t.stat[g] = Seen(g)
    BY <1>2 DEF Looked
  <2>1. CASE g = f
    BY <1>1, <1>3, <2>1
  <2>2. CASE g # f
    BY <1>1, <1>2, <1>3, <2>2 DEF Looked
  <2> QED
    BY <2>1, <2>2
<1>5. Phase(t)
  BY <1>2 DEF Phase
<1>6. ProductsOk(t)
  BY <1>2 DEF ProductsOk, Settled
<1> QED
  BY <1>2, <1>4, <1>5, <1>6 DEF BuildOk

\* A sweep begins.
LEMMA SweepOk ==
  ASSUME ReplayInv, NEW s \in BuildRecords, s.since <= now, ~mode.slow => now - s.since < Window,
         NEW t, t = Sweeping(s)
  PROVE  t \in BuildRecords /\ BuildOk(t) /\ t.pc = "stat" /\ t.rules = s.rules /\ t.moved = s.moved
         /\ t.prior = s.prior
<1>1. Typed /\ mode.files \subseteq Files
  BY ModeShape DEF ReplayInv
<1>2. /\ t \in BuildRecords /\ t.pc = "stat" /\ t.since = s.since /\ t.rules = s.rules /\ t.prior = s.prior
      /\ t.todo = mode.files /\ t.moved = s.moved /\ t.stat = NoStats
  <2>1. "stat" \in Pcs /\ NoStats \in Manifests
    BY IdleShape DEF Pcs
  <2> QED
    BY <1>1, <2>1, ZenonT(60) DEF Sweeping, BuildRecords
<1>3. Looked(t) /\ Phase(t) /\ ProductsOk(t)
  BY <1>1, <1>2, IdleShape DEF Looked, Phase, ProductsOk, Settled
<1> QED
  BY <1>2, <1>3 DEF BuildOk

LEMMA StatStep ==
  ASSUME ReplayInv, NEW b \in Builders, NEW f \in Files, Stat(b, f)
  PROVE  ReplayInv'
<1>1. PICK s : s = build[b]
  OBVIOUS
<1>2. PICK t : t = LookedAt(s, f)
  OBVIOUS
<1>3. s.pc = "stat" /\ build' = [build EXCEPT ![b] = t] /\ watch' = watch
      /\ UNCHANGED <<mode, now, file, rules, gen, bank, search>>
  BY <1>1, <1>2 DEF Stat, Builds, LookedAt
<1>4. t \in BuildRecords /\ BuildOk(t) /\ t.pc = s.pc /\ t.rules = s.rules /\ t.moved = s.moved
      /\ t.prior = s.prior
  BY <1>1, <1>2, <1>3, BuildAt, LookOk
<1> QED
  BY <1>1, <1>3, <1>4, RunningStep DEF Running

LEMMA PatchStep ==
  ASSUME ReplayInv, NEW b \in Builders, NEW f \in Files, Patch(b, f)
  PROVE  ReplayInv'
<1>1. PICK s : s = build[b]
  OBVIOUS
<1>2. PICK t : t = IF file[f].there /\ s.stat[f] = None THEN Sweeping(s) ELSE LookedAt(s, f)
  OBVIOUS
<1>3. s.pc = "patch" /\ build' = [build EXCEPT ![b] = t] /\ watch' = watch
      /\ UNCHANGED <<mode, now, file, rules, gen, bank, search>>
  BY <1>1, <1>2 DEF Patch, Builds, LookedAt
<1>4. s \in BuildRecords /\ Looked(s) /\ Phase(s)
  BY <1>1, <1>3, BuildAt
<1>5. s.since <= now /\ (~mode.slow => now - s.since < Window)
  BY <1>3, <1>4 DEF Looked, Phase
<1>6. t \in BuildRecords /\ BuildOk(t) /\ t.pc \in {"stat", "patch"} /\ t.rules = s.rules /\ t.moved = s.moved
      /\ t.prior = s.prior
  BY <1>2, <1>3, <1>4, <1>5, LookOk, SweepOk
<1> QED
  BY <1>1, <1>3, <1>6, RunningStep DEF Running

LEMMA BeginStep ==
  ASSUME ReplayInv, NEW b \in Builders, Begin(b)
  PROVE  ReplayInv'
<1>1. Typed /\ Running(b) = FALSE /\ b \in mode.builders /\ rules \in 1..2 /\ now \in Stamps /\ now >= 0
  BY DEF Begin, ReplayInv, Typed, Running, Stamps
<1>2. bank' \in Packs /\ BankInv'
  BY BankFrame DEF Begin, Builds, ReplayInv, Typed
<1>3. PICK since : since = IF mode.slow THEN 0 ELSE now
  OBVIOUS
<1>4. PICK r : r = rules
  OBVIOUS
<1>5. PICK s : s = [Idle EXCEPT !.since = since, !.rules = r]
  OBVIOUS
<1>6. /\ s \in BuildRecords /\ s.since = since /\ s.rules = r /\ s.moved = {} /\ s.prior = None
      /\ s.since <= now /\ (~mode.slow => now - s.since < Window)
  <2>1. since \in Stamps /\ r \in 0..2 /\ since <= now /\ (~mode.slow => now - since < Window)
    BY <1>1, <1>3, <1>4, Apart DEF Stamps
  <2> QED
    BY <1>5, <2>1, IdleShape, ZenonT(60) DEF BuildRecords
<1>7. CASE b = mode.hinted /\ gen # None
  <2>1. PICK t : t = [s EXCEPT !.pc = "patch", !.stat = gen.manifest, !.todo = watch]
    OBVIOUS
  <2>2. gen \in Gens /\ GenOk(gen)
    BY <1>7 DEF ReplayInv, Typed, GensInv
  <2>3. /\ t \in BuildRecords /\ t.pc = "patch" /\ t.since = s.since /\ t.rules = s.rules /\ t.prior = s.prior
        /\ t.todo = watch /\ t.moved = s.moved /\ t.stat = gen.manifest
    <3>1. "patch" \in Pcs /\ gen.manifest \in Manifests /\ watch \in SUBSET Files
      BY <1>1, <2>2 DEF Pcs, Gens, Typed
    <3> QED
      BY <1>6, <2>1, <3>1, ZenonT(60) DEF BuildRecords
  <2>4. build[b].moved \subseteq watch /\ \A f \in mode.files : f \in watch \/ gen.manifest[f] = Seen(f)
    BY <1>1, <1>7 DEF ReplayInv, WatchInv, Running
  <2>5. Looked(t)
    BY <1>1, <1>6, <2>2, <2>3, <2>4 DEF Looked, GenOk, Sealed
  <2>6. Phase(t) /\ ProductsOk(t)
    BY <1>6, <2>3 DEF Phase, ProductsOk, Settled
  <2>7. build' = [build EXCEPT ![b] = t] /\ watch' = {}
        /\ UNCHANGED <<mode, now, file, rules, gen, bank, search>>
    BY <1>3, <1>4, <1>5, <1>7, <2>1 DEF Begin, Builds
  <2>8. BuildOk(t)
    BY <2>5, <2>6 DEF BuildOk
  <2> QED
    BY <1>1, <1>2, <1>4, <1>6, <1>7, <2>3, <2>7, <2>8, BuilderStep
<1>8. CASE ~(b = mode.hinted /\ gen # None)
  <2>1. PICK t : t = Sweeping(s)
    OBVIOUS
  <2>2. t \in BuildRecords /\ BuildOk(t) /\ t.pc = "stat" /\ t.rules = r /\ t.moved = {} /\ t.prior = None
    BY <1>6, <2>1, SweepOk
  <2>3. build' = [build EXCEPT ![b] = t] /\ watch' = (IF b = mode.hinted THEN {} ELSE watch)
        /\ UNCHANGED <<mode, now, file, rules, gen, bank, search>>
    BY <1>3, <1>4, <1>5, <1>8, <2>1 DEF Begin, Builds
  <2>4. watch' \subseteq Files
    BY <1>1, <2>3 DEF Typed
  <2> QED
    BY <1>1, <1>2, <1>4, <2>2, <2>3, <2>4, BuilderStep
<1> QED
  BY <1>7, <1>8

-------------------------------------------------------------------------------
(* What is trusted. *)

\* A file that is not racy for a generation has the product there, if it has
\* the stamp there.
LEMMA NotRacy ==
  ASSUME ReplayInv, ~mode.verified, NEW g \in Gens, g # None, GenOk(g), NEW f \in mode.files,
         NEW stamp, stamp = g.manifest[f], stamp # None => ~Racy(stamp, g)
  PROVE  Faithful(f, stamp, g.pack[f])
<1>1. f \in Files /\ g.manifest[f] \in Stamps \cup {None} /\ g.written \in Stamps /\ Window \in Nat \ {0}
  BY ModeShape, GenShape, Apart DEF ReplayInv
<1>2. SUFFICES ASSUME stamp # None, g.written - stamp < Window PROVE FALSE
  BY DEF GenOk, Sealed
<1>3. stamp <= g.written
  BY <1>2 DEF GenOk, Sealed
<1> QED
  BY <1>1, <1>2, <1>3 DEF Racy, Stamps

\* What a reused or carried generation has settled of a file, once it is not
\* racy, or its digest matches.
LEMMA Trusted ==
  ASSUME ReplayInv, ~mode.verified, NEW s \in BuildRecords, s.prior # None, GenOk(s.prior),
         s.rules = s.prior.rules, NEW f \in Files, s.stat[f] = s.prior.manifest[f],
         \/ s.stat[f] # None => ~Racy(s.stat[f], s.prior)
         \/ DigestMatches(f, s.prior.pack[f])
  PROVE  /\ s.prior.pack[f] # None =>
              s.prior.pack[f].stamp = s.stat[f] /\ s.prior.pack[f].rules = s.rules
         /\ f \in mode.files => Kept(s, f, s.prior.pack[f])
<1>1. s.prior \in Gens
  BY BuildShape
<1>2. ASSUME f \in mode.files PROVE Faithful(f, s.stat[f], s.prior.pack[f])
  <2>1. CASE s.stat[f] # None => ~Racy(s.stat[f], s.prior)
    BY <1>1, <1>2, <2>1, NotRacy
  <2>2. CASE DigestMatches(f, s.prior.pack[f])
    BY <2>2 DEF DigestMatches, Faithful
  <2> QED
    BY <2>1, <2>2
<1> QED
  BY <1>2 DEF GenOk, OnePiece, Kept

LEMMA PipelineOk ==
  ASSUME ReplayInv, NEW s \in BuildRecords, Looked(s), Phase(s), s.pc \notin {"idle", "commit"},
         s.pc \in {"patch", "stat"} => s.todo = {}, NEW t, t = Pipeline(s)
  PROVE  t \in BuildRecords /\ BuildOk(t) /\ t.pc = "list" /\ t.rules = s.rules /\ t.moved = s.moved
         /\ t.prior = s.prior
<1>1. /\ t \in BuildRecords /\ t.pc = "list" /\ t.since = s.since /\ t.rules = s.rules /\ t.prior = s.prior
      /\ t.todo = {} /\ t.moved = s.moved /\ t.stat = s.stat /\ t.out = NoStats
  <2>1. "list" \in Pcs /\ NoStats \in Packs
    BY IdleShape DEF Pcs
  <2> QED
    BY <2>1, ZenonT(60) DEF Pipeline, BuildRecords
<1>2. Looked(t) /\ Phase(t) /\ ProductsOk(t)
  BY <1>1, IdleShape DEF Looked, Phase, ProductsOk, Settled
<1> QED
  BY <1>1, <1>2 DEF BuildOk

\* A build resolves CURRENT, and turns to reuse it or to a lane.
Resolved(s, pc, F) ==
  LET u == [s EXCEPT !.prior = gen] IN [u EXCEPT !.pc = pc, !.todo = RacyOf(u, F)]

LEMMA ResolvedOk ==
  ASSUME ReplayInv, NEW s \in BuildRecords, Looked(s), Phase(s), s.pc \in {"patch", "stat"}, s.todo = {},
         ~mode.verified, gen # None, s.rules = gen.rules, NEW pc, NEW t,
         \/ /\ pc = "verify" /\ \A f \in Files : s.stat[f] = gen.manifest[f]
            /\ t = Resolved(s, pc, Files)
         \/ /\ pc = "trust" /\ Known(s.stat) = Known(gen.manifest)
            /\ t = Resolved(s, pc, Files \ Changed([s EXCEPT !.prior = gen]))
  PROVE  t \in BuildRecords /\ BuildOk(t) /\ t.pc = pc /\ t.rules = s.rules /\ t.moved = s.moved
         /\ t.prior = gen
<1>1. gen \in Gens /\ GenOk(gen) /\ gen.manifest \in Manifests
  BY GenShape DEF ReplayInv, Typed, GensInv, Gens
<1>2. PICK u : u = [s EXCEPT !.prior = gen]
  OBVIOUS
<1>3. /\ u \in BuildRecords /\ u.since = s.since /\ u.rules = s.rules /\ u.prior = gen
      /\ u.moved = s.moved /\ u.stat = s.stat
  BY <1>1, <1>2, ZenonT(60) DEF BuildRecords
<1>4. t \in {Resolved(s, pc, Files), Resolved(s, pc, Files \ Changed(u))} /\ pc \in Pcs
  BY <1>2 DEF Pcs
<1>5. \A F \in SUBSET Files : RacyOf(u, F) = {f \in F : s.stat[f] # None /\ Racy(s.stat[f], gen)}
  BY <1>3 DEF RacyOf
<1>6. Changed(u) = {f \in Files : s.stat[f] # gen.manifest[f]}
  BY <1>3 DEF Changed
<1>7. \A F \in SUBSET Files :
        LET r == Resolved(s, pc, F) IN
        /\ r \in BuildRecords /\ r.pc = pc /\ r.since = s.since /\ r.rules = s.rules /\ r.prior = gen
        /\ r.todo = RacyOf(u, F) /\ r.moved = s.moved /\ r.stat = s.stat
  <2> TAKE F \in SUBSET Files
  <2>1. PICK todo : todo = RacyOf(u, F)
    OBVIOUS
  <2>2. todo \in SUBSET Files
    BY <1>5, <2>1
  <2>3. PICK r : r = Resolved(s, pc, F)
    OBVIOUS
  <2>4. r = [u EXCEPT !.pc = pc, !.todo = todo]
    BY <1>2, <2>1, <2>3 DEF Resolved
  <2>5. /\ r \in BuildRecords /\ r.pc = pc /\ r.since = s.since /\ r.rules = s.rules /\ r.prior = gen
        /\ r.todo = todo /\ r.moved = s.moved /\ r.stat = s.stat
    BY <1>3, <1>4, <2>2, <2>4, ZenonT(60) DEF BuildRecords
  <2> QED
    BY <2>1, <2>3, <2>5
<1>8. /\ t \in BuildRecords /\ t.pc = pc /\ t.since = s.since /\ t.rules = s.rules /\ t.prior = gen
      /\ t.moved = s.moved /\ t.stat = s.stat
      /\ pc = "verify" => t.todo = RacyOf(u, Files)
      /\ pc = "trust" => t.todo = RacyOf(u, Files \ Changed(u))
  BY <1>2, <1>7, Changed(u) \in SUBSET Files DEF Changed
<1>9. Looked(t) /\ Phase(t)
  BY <1>8 DEF Looked, Phase
<1>10. Settled(t) \subseteq
         {f \in Files : s.stat[f] = gen.manifest[f] /\ (s.stat[f] # None => ~Racy(s.stat[f], gen))}
  <2>1. CASE pc = "verify"
    BY <1>5, <1>8, <2>1 DEF Settled
  <2>2. CASE pc = "trust"
    <3>1. Changed(t) = Changed(u)
      BY <1>6, <1>8 DEF Changed
    <3> QED
      BY <1>5, <1>6, <1>8, <2>2, <3>1 DEF Settled
  <2> QED
    BY <2>1, <2>2
<1>11. ProductsOk(t)
  <2>1. Held(t) = t.prior.pack
    BY <1>8 DEF Held
  <2>2. \A f \in Settled(t) :
          /\ t.prior.pack[f] # None => t.prior.pack[f].stamp = t.stat[f] /\ t.prior.pack[f].rules = t.rules
          /\ f \in mode.files => Kept(t, f, t.prior.pack[f])
    <3> SUFFICES ASSUME NEW f \in Settled(t)
                 PROVE  /\ t.prior.pack[f] # None =>
                             t.prior.pack[f].stamp = t.stat[f] /\ t.prior.pack[f].rules = t.rules
                        /\ f \in mode.files => Kept(t, f, t.prior.pack[f])
      OBVIOUS
    <3>1. /\ f \in Files /\ t.stat[f] = t.prior.manifest[f] /\ t.prior # None /\ GenOk(t.prior)
          /\ t.rules = t.prior.rules /\ (t.stat[f] # None => ~Racy(t.stat[f], t.prior))
      BY <1>1, <1>8, <1>10
    <3> QED
      BY <1>8, <3>1, Trusted
  <2> QED
    BY <2>1, <2>2 DEF ProductsOk
<1> QED
  BY <1>8, <1>9, <1>11 DEF BuildOk

LEMMA DecideStep ==
  ASSUME ReplayInv, NEW b \in Builders, Decide(b)
  PROVE  ReplayInv'
<1>1. PICK s : s = build[b]
  OBVIOUS
<1>2. PICK u : u = [s EXCEPT !.prior = gen]
  OBVIOUS
<1>3. PICK t : build' = [build EXCEPT ![b] = t] /\ t =
        (IF ~Gated(u) THEN Pipeline(u)
         ELSE IF Changed(u) = {} THEN Resolved(s, "verify", Files)
         ELSE IF Known(u.stat) = Known(gen.manifest) THEN Resolved(s, "trust", Files \ Changed(u))
         ELSE Pipeline(u))
  BY <1>1, <1>2 DEF Decide, Builds, Resolved
<1>4. /\ s.pc \in {"patch", "stat"} /\ s.todo = {} /\ watch' = watch
      /\ UNCHANGED <<mode, now, file, rules, gen, bank, search>>
  BY <1>1 DEF Decide, Builds
<1>5. s \in BuildRecords /\ Looked(s) /\ Phase(s) /\ gen \in Gens \cup {None}
  BY <1>1, <1>4, BuildAt DEF ReplayInv, Typed
<1>6. /\ u \in BuildRecords /\ u.pc = s.pc /\ u.since = s.since /\ u.rules = s.rules /\ u.prior = gen
      /\ u.todo = {} /\ u.moved = s.moved /\ u.stat = s.stat
  BY <1>2, <1>4, <1>5, ZenonT(60) DEF BuildRecords
<1>7. CASE t = Pipeline(u)
  <2>1. Looked(u) /\ Phase(u)
    BY <1>4, <1>5, <1>6 DEF Looked, Phase
  <2>2. t \in BuildRecords /\ BuildOk(t) /\ t.pc = "list" /\ t.rules = s.rules
        /\ t.moved = s.moved /\ t.prior = gen
    BY <1>4, <1>6, <1>7, <2>1, PipelineOk
  <2> QED
    BY <1>1, <1>3, <1>4, <2>2, RunningStep DEF Running
<1>8. CASE Gated(u) /\ t # Pipeline(u)
  <2>1. ~mode.verified /\ gen # None /\ s.rules = gen.rules
    BY <1>6, <1>8 DEF Gated
  <2>2. PICK pc : \/ /\ pc = "verify" /\ Changed(u) = {} /\ t = Resolved(s, pc, Files)
                  \/ /\ pc = "trust" /\ Known(s.stat) = Known(gen.manifest)
                     /\ t = Resolved(s, pc, Files \ Changed(u))
    BY <1>3, <1>6, <1>8
  <2>3. Changed(u) = {} => \A f \in Files : s.stat[f] = gen.manifest[f]
    BY <1>6 DEF Changed
  <2>4. t \in BuildRecords /\ BuildOk(t) /\ t.pc = pc /\ t.rules = s.rules /\ t.moved = s.moved
        /\ t.prior = gen
    BY <1>2, <1>4, <1>5, <2>1, <2>2, <2>3, ResolvedOk
  <2> QED
    BY <1>1, <1>3, <1>4, <2>2, <2>4, RunningStep DEF Running
<1> QED
  BY <1>3, <1>7, <1>8

-------------------------------------------------------------------------------
(* The reuse and the lanes. *)

LEMMA VerifyRacyStep ==
  ASSUME ReplayInv, NEW b \in Builders, NEW f \in Files, VerifyRacy(b, f)
  PROVE  ReplayInv'
<1>1. PICK s : s = build[b]
  OBVIOUS
<1>2. PICK t : build' = [build EXCEPT ![b] = t]
               /\ t = IF DigestMatches(f, s.prior.pack[f]) THEN [s EXCEPT !.todo = @ \ {f}] ELSE Pipeline(s)
  BY <1>1 DEF VerifyRacy, Builds
<1>3. /\ s.pc \in {"verify", "trust"} /\ f \in s.todo /\ watch' = watch
      /\ UNCHANGED <<mode, now, file, rules, gen, bank, search>>
  BY <1>1 DEF VerifyRacy, Builds
<1>4. /\ s \in BuildRecords /\ Looked(s) /\ Phase(s) /\ ProductsOk(s)
      /\ s.prior # None => s.prior \in Gens /\ GenOk(s.prior)
  BY <1>1, <1>3, BuildAt
<1>5. CASE ~DigestMatches(f, s.prior.pack[f])
  <2>1. t \in BuildRecords /\ BuildOk(t) /\ t.pc = "list" /\ t.rules = s.rules
        /\ t.moved = s.moved /\ t.prior = s.prior
    BY <1>2, <1>3, <1>4, <1>5, PipelineOk
  <2> QED
    BY <1>1, <1>2, <1>3, <2>1, RunningStep DEF Running
<1>6. CASE DigestMatches(f, s.prior.pack[f])
  <2>1. /\ t \in BuildRecords /\ t.pc = s.pc /\ t.since = s.since /\ t.rules = s.rules /\ t.prior = s.prior
        /\ t.todo = s.todo \ {f} /\ t.moved = s.moved /\ t.stat = s.stat
    BY <1>2, <1>4, <1>6, ZenonT(60) DEF BuildRecords
  <2>2. Looked(t) /\ Phase(t)
    BY <1>3, <1>4, <2>1 DEF Looked, Phase
  <2>3. Settled(t) \subseteq Settled(s) \cup {f} /\ (f \in Settled(t) => t.stat[f] = t.prior.manifest[f])
    BY <1>3, <1>4, <2>1 DEF Settled, Changed, Phase
  <2>4. ~mode.verified /\ t.prior # None /\ GenOk(t.prior) /\ t.rules = t.prior.rules
    BY <1>3, <1>4, <2>1 DEF Phase
  <2>5. ProductsOk(t)
    <3> SUFFICES ASSUME NEW g \in Settled(t)
                 PROVE  /\ t.prior.pack[g] # None =>
                             t.prior.pack[g].stamp = t.stat[g] /\ t.prior.pack[g].rules = t.rules
                        /\ g \in mode.files => Kept(t, g, t.prior.pack[g])
      BY <1>3, <2>1 DEF ProductsOk, Held
    <3>1. CASE g = f
      BY <1>6, <2>1, <2>3, <2>4, <3>1, Trusted
    <3>2. CASE g # f
      <4>1. g \in Settled(s)
        BY <2>3, <3>2
      <4> QED
        BY <1>3, <1>4, <2>1, <4>1 DEF ProductsOk, Held, Kept
    <3> QED
      BY <3>1, <3>2
  <2>6. BuildOk(t)
    BY <2>2, <2>5 DEF BuildOk
  <2> QED
    BY <1>1, <1>2, <1>3, <2>1, <2>6, RunningStep DEF Running
<1> QED
  BY <1>5, <1>6

LEMMA ReuseStep ==
  ASSUME ReplayInv, NEW b \in Builders, Reuse(b)
  PROVE  ReplayInv'
<1>1. PICK s : s = build[b]
  OBVIOUS
<1>2. PICK t : t = [s EXCEPT !.pc = "reused"]
  OBVIOUS
<1>3. /\ s.pc = "verify" /\ s.todo = {} /\ watch' = watch /\ build' = [build EXCEPT ![b] = t]
      /\ UNCHANGED <<mode, now, file, rules, gen, bank, search>>
  BY <1>1, <1>2 DEF Reuse, Builds
<1>4. s \in BuildRecords /\ Looked(s) /\ Phase(s) /\ ProductsOk(s)
  BY <1>1, <1>3, BuildAt
<1>5. /\ t \in BuildRecords /\ t.pc = "reused" /\ t.since = s.since /\ t.rules = s.rules /\ t.prior = s.prior
      /\ t.todo = {} /\ t.moved = s.moved /\ t.stat = s.stat
  BY <1>2, <1>3, <1>4, ZenonT(60) DEF BuildRecords, Pcs
<1>6. Looked(t) /\ Phase(t)
  BY <1>3, <1>4, <1>5 DEF Looked, Phase
<1>7. Held(t) = Held(s) /\ Settled(t) = Settled(s)
  BY <1>3, <1>5 DEF Held, Settled
<1>8. ProductsOk(t)
  BY <1>4, <1>5, <1>7 DEF ProductsOk, Kept
<1>9. BuildOk(t)
  BY <1>6, <1>8 DEF BuildOk
<1> QED
  BY <1>1, <1>3, <1>5, <1>9, RunningStep DEF Running

LEMMA BailStep ==
  ASSUME ReplayInv, NEW b \in Builders, Bail(b)
  PROVE  ReplayInv'
<1>1. PICK s : s = build[b]
  OBVIOUS
<1>2. PICK t : t = Pipeline(s)
  OBVIOUS
<1>3. /\ s.pc \in {"verify", "trust", "extract"} /\ watch' = watch /\ build' = [build EXCEPT ![b] = t]
      /\ UNCHANGED <<mode, now, file, rules, gen, bank, search>>
  BY <1>1, <1>2 DEF Bail, Builds
<1>4. t \in BuildRecords /\ BuildOk(t) /\ t.pc = "list" /\ t.rules = s.rules
      /\ t.moved = s.moved /\ t.prior = s.prior
  BY <1>1, <1>2, <1>3, BuildAt, PipelineOk
<1> QED
  BY <1>1, <1>3, <1>4, RunningStep DEF Running

\* A generation that is carried over brings the products of the files that did
\* not change.
LEMMA CarryStep ==
  ASSUME ReplayInv, NEW b \in Builders, Carry(b)
  PROVE  ReplayInv'
<1>1. PICK s : s = build[b]
  OBVIOUS
<1>2. PICK t : t = [s EXCEPT !.pc = "extract", !.todo = Changed(s), !.out = s.prior.pack]
  OBVIOUS
<1>3. /\ s.pc = "trust" /\ s.todo = {} /\ watch' = watch /\ build' = [build EXCEPT ![b] = t]
      /\ UNCHANGED <<mode, now, file, rules, gen, bank, search>>
  BY <1>1, <1>2 DEF Carry, Builds
<1>4. /\ s \in BuildRecords /\ Looked(s) /\ Phase(s) /\ ProductsOk(s)
      /\ s.prior \in Gens /\ s.prior.pack \in Packs /\ Changed(s) \in SUBSET Files
  <2>1. s.prior \in Gens
    BY <1>1, <1>3, BuildAt DEF Phase
  <2> QED
    BY <1>1, <1>3, <2>1, BuildAt DEF Changed, Gens
<1>5. /\ t \in BuildRecords /\ t.pc = "extract" /\ t.since = s.since /\ t.rules = s.rules /\ t.prior = s.prior
      /\ t.todo = Changed(s) /\ t.moved = s.moved /\ t.stat = s.stat /\ t.out = s.prior.pack
  BY <1>2, <1>4, ZenonT(60) DEF BuildRecords, Pcs
<1>6. \A f \in Changed(s) : s.stat[f] # None
  BY <1>3, <1>4 DEF Phase, Changed, Known
<1>7. Looked(t) /\ Phase(t)
  BY <1>3, <1>4, <1>5, <1>6 DEF Looked, Phase
<1>8. Held(t) = Held(s) /\ Settled(t) = Settled(s)
  BY <1>3, <1>5 DEF Held, Settled
<1>9. ProductsOk(t)
  BY <1>4, <1>5, <1>8 DEF ProductsOk, Kept
<1>10. BuildOk(t)
  BY <1>7, <1>9 DEF BuildOk
<1> QED
  BY <1>1, <1>3, <1>5, <1>10, RunningStep DEF Running

\* A product is put out for a file of the list.
PutOut(s, f, p) == [s EXCEPT !.todo = @ \ {f}, !.out[f] = p]

LEMMA PutOutOk ==
  ASSUME NEW s \in BuildRecords, Looked(s), Phase(s), ProductsOk(s),
         s.pc \in {"extract", "apply"}, NEW f \in s.todo, NEW p \in Products \cup {None},
         p # None => p.stamp = s.stat[f] /\ p.rules = s.rules,
         f \in mode.files => Faithful(f, s.stat[f], p) \/ (p = None /\ Seen(f) = None),
         NEW t, t = PutOut(s, f, p)
  PROVE  t \in BuildRecords /\ BuildOk(t) /\ t.pc = s.pc /\ t.rules = s.rules /\ t.moved = s.moved
         /\ t.prior = s.prior
<1>1. f \in Files /\ s.stat[f] # None
  BY BuildShape DEF Phase
<1>2. /\ t \in BuildRecords /\ t.pc = s.pc /\ t.since = s.since /\ t.rules = s.rules /\ t.prior = s.prior
      /\ t.todo = s.todo \ {f} /\ t.moved = s.moved /\ t.stat = s.stat /\ t.out = [s.out EXCEPT ![f] = p]
  BY <1>1, ZenonT(60) DEF PutOut, BuildRecords, Packs
<1>3. t.out[f] = p /\ \A g \in Files : g # f => t.out[g] = s.out[g]
  BY <1>1, <1>2, BuildShape DEF Packs
<1>4. Looked(t) /\ Phase(t)
  BY <1>2 DEF Looked, Phase
<1>5. Held(s) = s.out /\ Held(t) = t.out /\ Settled(s) = Files \ s.todo /\ Settled(t) = Files \ (s.todo \ {f})
  BY <1>2 DEF Held, Settled
<1>6. f \in mode.files => Kept(t, f, p)
  BY <1>1, <1>2 DEF Kept, Faithful
<1>7. ProductsOk(t)
  <2> SUFFICES ASSUME NEW g \in Files \ (s.todo \ {f})
               PROVE  /\ t.out[g] # None => t.out[g].stamp = t.stat[g] /\ t.out[g].rules = t.rules
                      /\ g \in mode.files => Kept(t, g, t.out[g])
    BY <1>5 DEF ProductsOk
  <2>1. CASE g = f
    BY <1>2, <1>3, <1>6, <2>1
  <2>2. CASE g # f
    <3>1. g \in Settled(s) /\ t.out[g] = s.out[g]
      BY <1>3, <1>5, <2>2
    <3> QED
      BY <1>2, <1>5, <3>1 DEF ProductsOk, Kept
  <2> QED
    BY <2>1, <2>2
<1>8. BuildOk(t)
  BY <1>4, <1>7 DEF BuildOk
<1> QED
  BY <1>2, <1>8

\* A file that is read is the product.
LEMMA ReadOk ==
  ASSUME ReplayInv, NEW s \in BuildRecords, s.rules \in 1..2, NEW f \in Files, s.stat[f] # None,
         file[f].there,
         NEW p, p = Product(file[f].content, s.stat[f], s.rules)
  PROVE  p \in Products /\ p # None /\ p.stamp = s.stat[f] /\ p.rules = s.rules /\ Faithful(f, s.stat[f], p)
<1>1. file[f].content \in Contents /\ s.stat[f] \in Stamps
  BY BuildShape DEF ReplayInv, Typed
<1>2. p \in Products /\ p.content = file[f].content /\ p.stamp = s.stat[f] /\ p.rules = s.rules
  BY <1>1, ProductShape
<1> QED
  BY <1>2, Apart DEF Faithful

LEMMA ExtractStep ==
  ASSUME ReplayInv, NEW b \in Builders, NEW f \in Files, Extract(b, f)
  PROVE  ReplayInv'
<1>1. PICK s : s = build[b]
  OBVIOUS
<1>2. PICK p : p = Product(file[f].content, s.stat[f], s.rules)
  OBVIOUS
<1>3. PICK t : build' = [build EXCEPT ![b] = t]
               /\ t = IF file[f].there /\ s.out[f] # None THEN PutOut(s, f, p) ELSE Pipeline(s)
  BY <1>1, <1>2 DEF Extract, Builds, PutOut
<1>4. /\ s.pc = "extract" /\ f \in s.todo /\ watch' = watch
      /\ UNCHANGED <<mode, now, file, rules, gen, bank, search>>
  BY <1>1 DEF Extract, Builds
<1>5. s \in BuildRecords /\ Looked(s) /\ Phase(s) /\ ProductsOk(s) /\ s.rules \in 1..2 /\ s.stat[f] # None
  BY <1>1, <1>4, BuildAt DEF Phase
<1>6. t \in BuildRecords /\ BuildOk(t) /\ t.pc \in {"extract", "list"} /\ t.rules = s.rules
      /\ t.moved = s.moved /\ t.prior = s.prior
  <2>1. CASE t = Pipeline(s)
    BY <1>4, <1>5, <2>1, PipelineOk
  <2>2. CASE file[f].there /\ t = PutOut(s, f, p)
    <3>1. p \in Products /\ p # None /\ p.stamp = s.stat[f] /\ p.rules = s.rules /\ Faithful(f, s.stat[f], p)
      BY <1>2, <1>5, <2>2, ReadOk
    <3> QED
      BY <1>4, <1>5, <2>2, <3>1, PutOutOk
  <2> QED
    BY <1>3, <2>1, <2>2
<1> QED
  BY <1>1, <1>3, <1>4, <1>6, RunningStep DEF Running

-------------------------------------------------------------------------------
(* The pipeline. *)

LEMMA ListStep ==
  ASSUME ReplayInv, NEW b \in Builders, List(b)
  PROVE  ReplayInv'
<1>1. PICK s : s = build[b]
  OBVIOUS
<1>2. PICK l : l = {f \in Files : bank[f] # None}
  OBVIOUS
<1>3. PICK t : t = [s EXCEPT !.pc = "apply", !.todo = Known(s.stat), !.listed = l]
  OBVIOUS
<1>4. /\ s.pc = "list" /\ watch' = watch /\ build' = [build EXCEPT ![b] = t]
      /\ UNCHANGED <<mode, now, file, rules, gen, bank, search>>
  BY <1>1, <1>2, <1>3 DEF List, Builds
<1>5. s \in BuildRecords /\ Looked(s) /\ Phase(s) /\ l \in SUBSET Files /\ Known(s.stat) \in SUBSET Files
  BY <1>1, <1>2, <1>4, BuildAt DEF Known
<1>6. /\ t \in BuildRecords /\ t.pc = "apply" /\ t.since = s.since /\ t.rules = s.rules /\ t.prior = s.prior
      /\ t.todo = Known(s.stat) /\ t.moved = s.moved /\ t.stat = s.stat /\ t.out = s.out
  BY <1>3, <1>5, ZenonT(60) DEF BuildRecords, Pcs
<1>7. Looked(t) /\ Phase(t)
  BY <1>4, <1>5, <1>6 DEF Looked, Phase, Known
<1>8. ProductsOk(t)
  <2>1. Held(t) = s.out /\ Settled(t) = {f \in Files : s.stat[f] = None} /\ \A f \in Files : s.out[f] = None
    BY <1>4, <1>5, <1>6 DEF Held, Settled, Known, Phase
  <2>2. \A f \in Files : s.stat[f] = None /\ f \in mode.files => Kept(t, f, None)
    <3> SUFFICES ASSUME NEW f \in mode.files, s.stat[f] = None PROVE Kept(t, f, None)
      OBVIOUS
    <3> QED
      BY <1>6 DEF Kept, Faithful
  <2> QED
    BY <1>6, <2>1, <2>2 DEF ProductsOk
<1>9. BuildOk(t)
  BY <1>7, <1>8 DEF BuildOk
<1> QED
  BY <1>1, <1>4, <1>6, <1>9, RunningStep DEF Running

\* What is replayed is the product of the file.
LEMMA ReplayOk ==
  ASSUME ReplayInv, NEW s \in BuildRecords, s.prior # None => GenOk(s.prior), NEW f \in mode.files, NEW p,
         Replays(s, f, p), s.stat[f] # None,
         p = bank[f] \/ (s.prior # None /\ p = s.prior.pack[f])
  PROVE  Faithful(f, s.stat[f], p)
<1>1. f \in Files /\ p # None /\ p.stamp = s.stat[f] /\ p.rules = s.rules
  BY ModeShape DEF ReplayInv, Replays
<1>2. CASE DigestMatches(f, p)
  BY <1>2 DEF DigestMatches, Faithful
<1>3. CASE ~mode.verified /\ ~Racy(s.stat[f], s.prior)
  <2>1. CASE p = bank[f]
    BY <1>1, <1>3, <2>1 DEF ReplayInv, BankInv
  <2>2. CASE s.prior # None /\ p = s.prior.pack[f]
    <3>1. s.prior \in Gens /\ GenOk(s.prior) /\ s.stat[f] = s.prior.manifest[f]
      BY <1>1, <2>2, BuildShape DEF GenOk, OnePiece
    <3> QED
      BY <1>3, <2>2, <3>1, NotRacy
  <2> QED
    BY <2>1, <2>2
<1> QED
  BY <1>2, <1>3 DEF Replays, DigestOk

LEMMA ApplyStep ==
  ASSUME ReplayInv, NEW b \in Builders, NEW f \in Files, Apply(b, f)
  PROVE  ReplayInv'
<1>1. PICK s : s = build[b]
  OBVIOUS
<1>2. PICK packed : packed = IF s.prior = None THEN None ELSE s.prior.pack[f]
  OBVIOUS
<1>3. PICK loose : loose = IF f \in s.listed THEN bank[f] ELSE None
  OBVIOUS
<1>4. PICK p : p = IF Replays(s, f, loose) THEN loose
                   ELSE IF Replays(s, f, packed) THEN packed
                   ELSE IF file[f].there THEN Product(file[f].content, s.stat[f], s.rules)
                   ELSE None
  OBVIOUS
<1>5. PICK t : t = PutOut(s, f, p)
  OBVIOUS
<1>6. /\ s.pc = "apply" /\ f \in s.todo /\ watch' = watch /\ build' = [build EXCEPT ![b] = t]
      /\ UNCHANGED <<mode, now, file, rules, gen, bank, search>>
  BY <1>1, <1>2, <1>3, <1>4, <1>5 DEF Apply, Builds, PutOut
<1>7. /\ s \in BuildRecords /\ Looked(s) /\ Phase(s) /\ ProductsOk(s) /\ s.rules \in 1..2 /\ s.stat[f] # None
      /\ s.prior # None => s.prior \in Gens /\ GenOk(s.prior)
  BY <1>1, <1>6, BuildAt DEF Phase
<1>8. /\ p \in Products \cup {None} /\ (p # None => p.stamp = s.stat[f] /\ p.rules = s.rules)
      /\ f \in mode.files => Faithful(f, s.stat[f], p) \/ (p = None /\ Seen(f) = None)
  <2>1. CASE p = loose /\ Replays(s, f, loose)
    <3>1. p = bank[f] /\ p # None /\ p.stamp = s.stat[f] /\ p.rules = s.rules
      BY <1>3, <2>1 DEF Replays
    <3>2. bank[f] \in Products \cup {None}
      BY DEF ReplayInv, Typed, Packs
    <3> QED
      BY <1>7, <2>1, <3>1, <3>2, ReplayOk
  <2>2. CASE p = packed /\ Replays(s, f, packed)
    <3>1. s.prior # None /\ p = s.prior.pack[f] /\ p # None /\ p.stamp = s.stat[f] /\ p.rules = s.rules
      BY <1>2, <2>2 DEF Replays
    <3>2. s.prior.pack[f] \in Products \cup {None}
      BY <1>7, <3>1, GenShape
    <3> QED
      BY <1>7, <2>2, <3>1, <3>2, ReplayOk
  <2>3. CASE file[f].there /\ p = Product(file[f].content, s.stat[f], s.rules)
    BY <1>7, <2>3, ReadOk
  <2>4. CASE ~file[f].there /\ p = None
    BY <2>4 DEF Seen
  <2> QED
    BY <1>4, <2>1, <2>2, <2>3, <2>4
<1>9. t \in BuildRecords /\ BuildOk(t) /\ t.pc = s.pc /\ t.rules = s.rules /\ t.moved = s.moved
      /\ t.prior = s.prior
  BY <1>5, <1>6, <1>7, <1>8, PutOutOk
<1> QED
  BY <1>1, <1>6, <1>9, RunningStep DEF Running

LEMMA ConsolidateStep ==
  ASSUME ReplayInv, NEW b \in Builders, Consolidate(b)
  PROVE  ReplayInv'
<1>1. PICK s : s = build[b]
  OBVIOUS
<1>2. PICK t : t = [s EXCEPT !.pc = "save"]
  OBVIOUS
<1>3. s.pc = "apply" /\ s.todo = {} /\ UNCHANGED <<mode, now, file, rules, watch, gen, search>>
  BY <1>1 DEF Consolidate
<1>4. /\ s \in BuildRecords /\ Looked(s) /\ Phase(s) /\ ProductsOk(s)
      /\ s.rules \in 1..2 /\ b \in mode.builders
  BY <1>1, <1>3, BuildAt
<1>5. /\ t \in BuildRecords /\ t.pc = "save" /\ t.since = s.since /\ t.rules = s.rules /\ t.prior = s.prior
      /\ t.moved = s.moved /\ t.stat = s.stat /\ t.out = s.out
  BY <1>2, <1>4, ZenonT(60) DEF BuildRecords, Pcs
<1>6. build' = [build EXCEPT ![b] = t]
  BY <1>1, <1>2 DEF Consolidate
<1>7. Looked(t) /\ Phase(t)
  BY <1>3, <1>4, <1>5 DEF Looked, Phase
<1>8. Held(t) = Held(s) /\ Settled(t) = Settled(s)
  BY <1>3, <1>5 DEF Held, Settled
<1>9. BuildOk(t)
  BY <1>4, <1>5, <1>7, <1>8 DEF BuildOk, ProductsOk, Kept
<1>10. bank \in Packs /\ bank' = [f \in Files |-> IF f \in s.listed THEN None ELSE bank[f]]
  BY <1>1 DEF Consolidate, ReplayInv, Typed
<1>11. \A f \in Files : bank'[f] \in {None, bank[f]}
  BY <1>10
<1>12. bank' \in Packs
  BY <1>10 DEF Packs
<1>13. BankInv'
  BY <1>3, <1>11 DEF ReplayInv, BankInv, Faithful, Seen
<1>14. watch \subseteq Files /\ (b = mode.hinted => s.moved \subseteq watch)
  BY <1>1, <1>4 DEF ReplayInv, Typed, WatchInv
<1> QED
  BY <1>1, <1>3, <1>4, <1>5, <1>6, <1>9, <1>12, <1>13, <1>14, BuilderStep

LEMMA SaveManifestStep ==
  ASSUME ReplayInv, NEW b \in Builders, SaveManifest(b)
  PROVE  ReplayInv'
<1>1. PICK s : s = build[b]
  OBVIOUS
<1>2. PICK time : time = now
  OBVIOUS
<1>3. PICK t : t = [s EXCEPT !.pc = "commit", !.written = time]
  OBVIOUS
<1>4. /\ s.pc = "save" \/ (s.pc = "extract" /\ s.todo = {})
      /\ watch' = watch /\ build' = [build EXCEPT ![b] = t]
      /\ UNCHANGED <<mode, now, file, rules, gen, bank, search>>
  BY <1>1, <1>2, <1>3 DEF SaveManifest, Builds
<1>5. s \in BuildRecords /\ Looked(s) /\ Phase(s) /\ ProductsOk(s)
  BY <1>1, <1>4, BuildAt
<1>6. time \in Stamps
      /\ \A f \in mode.files : f \in Files /\ file[f].stamp \in Stamps /\ file[f].stamp <= time
  BY <1>2, SeenShape, ModeShape DEF ReplayInv, Typed
<1>7. /\ t \in BuildRecords /\ t.pc = "commit" /\ t.since = s.since /\ t.rules = s.rules /\ t.prior = s.prior
      /\ t.moved = s.moved /\ t.stat = s.stat /\ t.out = s.out /\ t.written = time
  BY <1>3, <1>5, <1>6, ZenonT(60) DEF BuildRecords, Pcs
<1>8. Looked(t)
  BY <1>4, <1>5, <1>7 DEF Looked
<1>9. Phase(t)
  <2>1. \A f \in mode.files : t.stat[f] # None => t.stat[f] <= t.written
    <3> SUFFICES ASSUME NEW f \in mode.files, s.stat[f] # None PROVE s.stat[f] <= time
      BY <1>7
    <3>1. s.stat[f] \in Stamps /\ s.stat[f] <= file[f].stamp
      BY <1>5, <1>6, BuildShape DEF Looked
    <3> QED
      BY <1>6, <3>1 DEF Stamps
  <2>2. time <= now /\ (~mode.slow => time - s.since < Window)
    BY <1>2, <1>4, <1>5, <1>6 DEF Phase, Stamps
  <2> QED
    BY <1>7, <2>1, <2>2 DEF Phase
<1>10. Held(t) = Held(s) /\ Settled(t) = Settled(s)
  BY <1>4, <1>7 DEF Held, Settled
<1>11. BuildOk(t)
  BY <1>5, <1>7, <1>8, <1>9, <1>10 DEF BuildOk, ProductsOk, Kept
<1> QED
  BY <1>1, <1>4, <1>7, <1>11, RunningStep DEF Running

LEMMA ReportStep ==
  ASSUME ReplayInv, NEW b \in Builders, Report(b)
  PROVE  ReplayInv'
<1>1. PICK t : t = Idle
  OBVIOUS
<1>2. /\ build[b].pc = "reused" /\ watch' = watch /\ build' = [build EXCEPT ![b] = t]
      /\ UNCHANGED <<mode, now, file, rules, gen, bank, search>>
  BY <1>1 DEF Report, Builds
<1>3. t \in BuildRecords /\ t.pc = "idle" /\ t.moved = {} /\ t.prior = None
  BY <1>1, IdleShape
<1>4. BuildOk(t)
  BY <1>3 DEF BuildOk
<1>5. watch \subseteq Files /\ bank' \in Packs /\ BankInv'
  BY <1>2, BankFrame DEF ReplayInv, Typed
<1>6. b = mode.hinted /\ gen # None => \A f \in mode.files : f \in watch \/ gen.manifest[f] = Seen(f)
  BY <1>2 DEF ReplayInv, WatchInv, Typed, Running
<1> QED
  BY <1>2, <1>3, <1>4, <1>5, <1>6, BuilderStep

-------------------------------------------------------------------------------
(* The commit. *)

\* What is committed is a generation that later builds may take for CURRENT:
\* a stamp that more edits may share is within the window.
LEMMA CommitOk ==
  ASSUME ReplayInv, NEW s \in BuildRecords, s.pc = "commit", Looked(s), Phase(s), ProductsOk(s),
         s.rules \in 1..2,
         NEW g, g = [manifest |-> s.stat, rules |-> s.rules, pack |-> s.out, written |-> s.written]
  PROVE  g \in Gens /\ GenOk(g)
<1>1. g.manifest = s.stat /\ g.rules = s.rules /\ g.pack = s.out /\ g.written = s.written
  OBVIOUS
<1>2. g \in Gens
  BY BuildShape DEF Gens
<1>3. Held(s) = s.out /\ Settled(s) = Files
  BY DEF Held, Settled
<1>4. OnePiece(g) /\ g.written <= now
  BY <1>1, <1>3 DEF OnePiece, ProductsOk, Phase
<1>5. ASSUME NEW f \in mode.files PROVE Sealed(g, f)
  <2>1. f \in Files /\ s.stat[f] \in Stamps \cup {None} /\ s.since \in Stamps
        /\ s.written \in Stamps /\ Window \in Nat
    BY <1>5, BuildShape, ModeShape, Apart DEF ReplayInv
  <2>2. s.stat[f] # None => s.stat[f] <= file[f].stamp /\ s.stat[f] <= s.written
    BY <1>5 DEF Looked, Phase
  <2>3. ~mode.verified =>
          \/ Faithful(f, s.stat[f], s.out[f])
          \/ mode.coarse /\ s.stat[f] # None /\ s.written - s.stat[f] < Window
    <3> SUFFICES ASSUME ~mode.verified, ~Faithful(f, s.stat[f], s.out[f])
                 PROVE  mode.coarse /\ s.stat[f] # None /\ s.written - s.stat[f] < Window
      OBVIOUS
    <3>1. Kept(s, f, s.out[f])
      BY <1>3, <1>5, <2>1 DEF ProductsOk
    <3>2. mode.coarse /\ s.stat[f] # None /\ s.stat[f] >= s.since
      BY <3>1 DEF Kept
    <3>3. s.written - s.since < Window
      BY <3>2 DEF Phase, ReplayInv, SoundCase
    <3> QED
      BY <2>1, <3>2, <3>3 DEF Stamps
  <2> QED
    BY <1>1, <2>2, <2>3 DEF Sealed
<1> QED
  BY <1>2, <1>4, <1>5 DEF GenOk

LEMMA CommitStep ==
  ASSUME ReplayInv, NEW b \in Builders, Commit(b)
  PROVE  ReplayInv'
<1>1. PICK s : s = build[b]
  OBVIOUS
<1>2. PICK next : next = [manifest |-> s.stat, rules |-> s.rules, pack |-> s.out, written |-> s.written]
  OBVIOUS
<1>3. /\ s.pc = "commit" /\ gen' \in {gen, next} /\ build' = [build EXCEPT ![b] = Idle]
      /\ UNCHANGED <<mode, now, file, rules, watch, bank, search>>
  BY <1>1, <1>2 DEF Commit
<1>4. /\ s \in BuildRecords /\ Looked(s) /\ Phase(s) /\ ProductsOk(s) /\ s.rules \in 1..2
      /\ b \in mode.builders
  BY <1>1, <1>3, BuildAt
<1>5. next \in Gens /\ GenOk(next) /\ next.manifest = s.stat
  BY <1>2, <1>3, <1>4, CommitOk
<1>6. gen' # None => gen'.manifest = s.stat
  BY <1>1, <1>2, <1>3 DEF Commit
<1>7. build'[b] = Idle /\ \A c \in Builders : c # b => build'[c] = build[c]
  BY <1>3 DEF ReplayInv, Typed
<1>8. Typed'
  <2>1. build' \in [Builders -> BuildRecords]
    BY <1>3, IdleShape DEF ReplayInv, Typed
  <2>2. \A c \in Builders : Running(c)' => build'[c].rules \in 1..2 /\ c \in mode.builders
    BY <1>7, IdleShape DEF ReplayInv, Typed, Running
  <2>3. gen' \in Gens \cup {None}
    BY <1>3, <1>5 DEF ReplayInv, Typed
  <2> QED
    BY <1>3, <2>1, <2>2, <2>3 DEF ReplayInv, Typed, Entries, SearchRecords
<1>9. GensInv'
  <2> SUFFICES ASSUME NEW g \in {gen'} \cup {build'[c].prior : c \in Builders}, g # None
               PROVE  GenOk(g)'
    BY DEF GensInv
  <2>1. g \in {gen, next} \cup {build[c].prior : c \in Builders}
    BY <1>3, <1>7, IdleShape
  <2>2. GenOk(g)
    BY <1>5, <2>1 DEF ReplayInv, GensInv
  <2> QED
    BY <1>3, <2>2, GenFrame
<1>10. BuildsInv'
  <2> SUFFICES ASSUME NEW c \in Builders, NEW u \in {build'[c]} PROVE BuildOk(u)'
    BY DEF BuildsInv
  <2>1. BuildOk(u)
    BY <1>7, IdleShape DEF BuildOk, ReplayInv, BuildsInv
  <2> QED
    BY <1>3, <2>1, BuildFrame
<1>11. BankInv'
  BY <1>3, BankFrame DEF ReplayInv
<1>12. WatchInv'
  <2>1. mode.apart => \A c \in Builders : c # mode.hinted => build'[c].moved = {}
    BY <1>7, IdleShape DEF ReplayInv, WatchInv
  <2>2. ASSUME mode.hinted \in mode.builders PROVE build'[mode.hinted].moved \subseteq watch
    BY <1>7, <2>2, IdleShape, ModeShape DEF ReplayInv, WatchInv
  <2>3. ASSUME mode.hinted \in mode.builders, NEW f \in mode.files PROVE f \in watch \/ s.stat[f] = Seen(f)
    <3>1. s.moved \subseteq watch
      BY <1>1, <1>4, <2>3 DEF ReplayInv, WatchInv, SoundCase
    <3> QED
      BY <1>3, <1>4, <2>3, <3>1 DEF Looked
  <2> QED
    BY <1>3, <1>6, <2>1, <2>2, <2>3 DEF WatchInv, Seen
<1> QED
  BY <1>3, <1>8, <1>9, <1>10, <1>11, <1>12 DEF ReplayInv, SoundCase

-------------------------------------------------------------------------------
(* The environment. *)

\* A step that leaves the files and the builds alone.
LEMMA QuietStep ==
  ASSUME ReplayInv, UNCHANGED <<mode, now, file, watch, gen, build>>,
         rules' \in 1..2, bank' \in Packs, search' \in SearchRecords,
         search'.pc # "idle" => search'.f \in Files /\ search'.content \in Contents /\ search'.rules \in 1..2,
         BankInv'
  PROVE  ReplayInv'
<1>1. Typed'
  BY DEF ReplayInv, Typed, Running
<1>2. GensInv'
  BY GenFrame DEF ReplayInv, GensInv
<1>3. BuildsInv'
  BY BuildFrame DEF ReplayInv, BuildsInv
<1>4. WatchInv'
  BY DEF ReplayInv, WatchInv, Seen
<1> QED
  BY <1>1, <1>2, <1>3, <1>4 DEF ReplayInv, SoundCase

LEMMA UpgradeStep ==
  ASSUME ReplayInv, Upgrade
  PROVE  ReplayInv'
<1>1. bank' \in Packs /\ search' \in SearchRecords /\ BankInv'
  BY BankFrame DEF Upgrade, ReplayInv, Typed
<1>2. search'.pc # "idle" => search'.f \in Files /\ search'.content \in Contents /\ search'.rules \in 1..2
  BY DEF Upgrade, ReplayInv, Typed
<1> QED
  BY <1>1, <1>2, QuietStep DEF Upgrade

LEMMA SearchReadsStep ==
  ASSUME ReplayInv, NEW f \in mode.files, SearchReads(f)
  PROVE  ReplayInv'
<1>1. PICK r : r = [pc |-> "read", f |-> f, content |-> file[f].content, stamp |-> 0, rules |-> rules]
  OBVIOUS
<1>2. search' = r /\ mode.bank # "none" /\ UNCHANGED <<mode, now, file, rules, watch, gen, bank, build>>
  BY <1>1 DEF SearchReads, Searches
<1>3. f \in Files /\ file[f].content \in Contents /\ rules \in 1..2 /\ bank \in Packs
  BY ModeShape DEF ReplayInv, Typed, SearchReads
<1>4. r \in SearchRecords /\ r.pc = "read" /\ r.f = f /\ r.content \in Contents /\ r.rules \in 1..2
  BY <1>1, <1>3, Apart DEF SearchRecords
<1>5. BankInv'
  BY <1>2, <1>4 DEF ReplayInv, BankInv, Faithful, Seen
<1> QED
  BY <1>2, <1>3, <1>4, <1>5, QuietStep

LEMMA SearchStatsStep ==
  ASSUME ReplayInv, SearchStats
  PROVE  ReplayInv'
<1>1. PICK q : q = search
  OBVIOUS
<1>2. PICK stamp : stamp = file[q.f].stamp
  OBVIOUS
<1>3. q.pc = "read" /\ search' \in {NoSearch, [q EXCEPT !.pc = "stat", !.stamp = stamp]}
      /\ UNCHANGED <<mode, now, file, rules, watch, gen, bank, build>>
  BY <1>1, <1>2 DEF SearchStats, Searches
<1>4. q \in SearchRecords /\ q.f \in Files /\ q.content \in Contents /\ q.rules \in 1..2
  BY <1>1, <1>3 DEF ReplayInv, Typed
<1>5. stamp \in Stamps
  BY <1>2, <1>4, SeenShape DEF ReplayInv
<1>6. PICK r : r = [q EXCEPT !.pc = "stat", !.stamp = stamp]
  OBVIOUS
<1>7. r \in SearchRecords /\ r.pc = "stat" /\ r.f = q.f /\ r.content = q.content /\ r.rules = q.rules
      /\ r.stamp = stamp
  BY <1>4, <1>5, <1>6, ZenonT(60) DEF SearchRecords
<1>8. NoSearch \in SearchRecords /\ NoSearch.pc = "idle"
  BY Apart DEF NoSearch, SearchRecords
<1>9. mode.bank # "none" /\ rules \in 1..2 /\ bank \in Packs
  BY <1>1, <1>3 DEF ReplayInv, Typed, BankInv
<1>10. search'.pc = "stat" => search'.stamp <= file'[search'.f].stamp
  <2>1. stamp <= file[q.f].stamp
    BY <1>2, <1>5 DEF Stamps
  <2> QED
    BY <1>3, <1>6, <1>7, <1>8, <2>1
<1>11. BankInv'
  BY <1>3, <1>9, <1>10 DEF ReplayInv, BankInv, Faithful, Seen
<1> QED
  BY <1>3, <1>4, <1>6, <1>7, <1>8, <1>9, <1>11, QuietStep

\* What a search banks is the product of the file it took the stamp of.
LEMMA SearchBanksStep ==
  ASSUME ReplayInv, SearchBanks
  PROVE  ReplayInv'
<1>1. PICK f : f = search.f
  OBVIOUS
<1>2. PICK p : p = Product(IF mode.bank = "held" THEN search.content ELSE file[f].content,
                           search.stamp, search.rules)
  OBVIOUS
<1>3. /\ search.pc = "stat" /\ search' = NoSearch
      /\ bank' = IF mode.bank = "held" \/ file[f].there THEN [bank EXCEPT ![f] = p] ELSE bank
      /\ UNCHANGED <<mode, now, file, rules, watch, gen, build>>
  BY <1>1, <1>2 DEF SearchBanks
<1>4. /\ f \in Files /\ search.content \in Contents /\ search.rules \in 1..2 /\ search.stamp \in Stamps
      /\ bank \in Packs /\ rules \in 1..2 /\ mode.bank # "none" /\ search.stamp <= file[f].stamp
  BY <1>1, <1>3 DEF ReplayInv, Typed, SearchRecords, BankInv
<1>5. ASSUME mode.bank = "held" \/ file[f].there
      PROVE  /\ p \in Products /\ p.stamp = search.stamp
             /\ ~mode.verified => p.content = file[f].content
  <2>1. file[f].there => file[f].content \in Contents
    BY <1>4 DEF ReplayInv, Typed
  <2>2. ~mode.verified => mode.bank # "held"
    BY DEF ReplayInv, SoundCase
  <2> QED
    BY <1>2, <1>4, <1>5, <2>1, <2>2, ProductShape
<1>6. \A h \in Files :
        \/ bank'[h] = bank[h]
        \/ h = f /\ bank'[h] = p /\ (mode.bank = "held" \/ file[f].there)
  BY <1>3, <1>4 DEF Packs
<1>7. bank' \in Packs
  BY <1>3, <1>4, <1>5 DEF Packs
<1>8. NoSearch \in SearchRecords /\ NoSearch.pc = "idle"
  BY Apart DEF NoSearch, SearchRecords
<1>9. ASSUME ~mode.verified, NEW h \in Files, bank'[h] # None
      PROVE  bank'[h].stamp <= file[h].stamp /\ Faithful(h, bank'[h].stamp, bank'[h])
  <2>1. CASE bank'[h] = bank[h]
    BY <1>9, <2>1 DEF ReplayInv, BankInv
  <2>2. CASE h = f /\ bank'[h] = p /\ (mode.bank = "held" \/ file[f].there)
    BY <1>4, <1>5, <1>9, <2>2 DEF Faithful
  <2> QED
    BY <1>6, <2>1, <2>2
<1>10. BankInv'
  BY <1>3, <1>4, <1>8, <1>9 DEF BankInv, Faithful, Seen
<1> QED
  BY <1>3, <1>4, <1>7, <1>8, <1>10, QuietStep

LEMMA TickStep ==
  ASSUME ReplayInv, Tick
  PROVE  ReplayInv'
<1>1. now \in Nat /\ now' = now + 1 /\ now' \in Stamps
      /\ UNCHANGED <<mode, file, rules, watch, gen, bank, search, build>>
  BY Apart DEF Tick, ReplayInv, Typed, Stamps
<1>2. Typed'
  BY <1>1 DEF ReplayInv, Typed, Entries, Stamps, Running
<1>3. GensInv'
  <2> SUFFICES ASSUME NEW g \in {gen'} \cup {build'[c].prior : c \in Builders}, g # None
               PROVE  GenOk(g)'
    BY DEF GensInv
  <2>1. GenOk(g) /\ g \in Gens
    BY <1>1, BuildShape DEF ReplayInv, GensInv, Typed
  <2>2. g.written <= now'
    BY <1>1, <2>1 DEF GenOk, Gens, Stamps
  <2> QED
    BY <1>1, <2>1, <2>2 DEF GenOk, OnePiece, Sealed, Faithful, Seen
<1>4. BuildsInv'
  <2> SUFFICES ASSUME NEW c \in Builders, NEW s \in {build'[c]}, s.pc # "idle" PROVE BuildOk(s)'
    BY DEF BuildsInv, BuildOk
  <2>1. s = build[c] /\ s \in BuildRecords /\ s.since \in Stamps /\ s.written \in Stamps
    BY <1>1, BuildShape DEF ReplayInv, Typed
  <2>2. Looked(s) /\ Phase(s) /\ ProductsOk(s)
    BY <2>1, BuildAt
  <2>3. s.since <= now' /\ s.written <= Horizon /\ (s.pc = "commit" => s.written <= now')
        /\ (~mode.slow /\ s.pc # "commit" => now' - s.since < Window)
    BY <1>1, <2>1, <2>2 DEF Looked, Phase, Tick, Stamps
  <2>4. Looked(s)'
    BY <1>1, <2>2, <2>3 DEF Looked, Seen
  <2>5. Phase(s)'
    BY <1>1, <2>2, <2>3 DEF Phase, Known
  <2>6. ProductsOk(s)'
    BY <1>1, <2>2 DEF ProductsOk, Kept, Faithful, Settled, Held, Changed, Seen
  <2> QED
    BY <2>4, <2>5, <2>6 DEF BuildOk
<1>5. BankInv' /\ WatchInv'
  BY <1>1, BankFrame DEF ReplayInv, WatchInv, Seen
<1> QED
  BY <1>1, <1>2, <1>3, <1>4, <1>5 DEF ReplayInv, SoundCase

-------------------------------------------------------------------------------
(* Edits. *)

\* An edit shows: the file has the stamp of the moment, and another one than
\* before unless stamps are coarse.  Only verified builds face one that does not.
Shows(f, entry) ==
  \/ entry.stamp = now /\ (mode.coarse \/ file[f].stamp # now)
  \/ mode.verified /\ entry.stamp = file[f].stamp

\* What an edit does to a stamp that was there before, and to what was faithful.
LEMMA EditSeen ==
  ASSUME ReplayInv, NEW f \in mode.files, NEW entry \in Entries, Shows(f, entry), entry.stamp <= now,
         file' = [file EXCEPT ![f] = entry], UNCHANGED <<mode, now>>, NEW h \in Files
  PROVE  /\ file[h].stamp <= file'[h].stamp
         /\ h # f => file'[h] = file[h] /\ Seen(h)' = Seen(h)
         /\ \A stamp \in Stamps : \A p :
              stamp <= file[h].stamp /\ Faithful(h, stamp, p) /\ ~mode.verified =>
                Faithful(h, stamp, p)' \/ (h = f /\ mode.coarse /\ stamp = now)
<1>1. f \in Files /\ file[h].stamp \in Stamps /\ file[f].stamp \in Stamps
      /\ file[f].stamp <= now /\ now \in Stamps
      /\ entry.stamp \in Stamps
  BY ModeShape, SeenShape DEF ReplayInv, Typed, Entries
<1>2. file'[f] = entry /\ \A g \in Files : g # f => file'[g] = file[g]
  BY <1>1 DEF ReplayInv, Typed
<1>3. h # f => file'[h] = file[h] /\ Seen(h)' = Seen(h)
  BY <1>2 DEF Seen
<1>4. file[h].stamp <= file'[h].stamp
  <2>1. CASE h = f
    BY <1>1, <1>2, <2>1 DEF Shows, Stamps
  <2>2. CASE h # f
    BY <1>1, <1>2, <2>2 DEF Stamps
  <2> QED
    BY <2>1, <2>2
<1>5. ASSUME NEW stamp \in Stamps, NEW p, stamp <= file[h].stamp, Faithful(h, stamp, p), ~mode.verified,
             ~(h = f /\ mode.coarse /\ stamp = now)
      PROVE  Faithful(h, stamp, p)'
  <2>1. CASE h = f
    <3>1. entry.stamp = now /\ (mode.coarse \/ file[f].stamp # now)
      BY <1>5 DEF Shows
    <3>2. stamp # now
      BY <1>1, <1>5, <2>1, <3>1 DEF Stamps
    <3>3. Seen(h)' \in {None, now}
      BY <1>2, <2>1, <3>1 DEF Seen
    <3> QED
      BY <1>5, <3>2, <3>3, Apart DEF Faithful
  <2>2. CASE h # f
    BY <1>3, <1>5, <2>2 DEF Faithful
  <2> QED
    BY <2>1, <2>2
<1> QED
  BY <1>3, <1>4, <1>5

LEMMA EditGen ==
  ASSUME ReplayInv, NEW f \in mode.files, NEW entry \in Entries, Shows(f, entry), entry.stamp <= now,
         file' = [file EXCEPT ![f] = entry], UNCHANGED <<mode, now>>, NEW g \in Gens, GenOk(g)
  PROVE  GenOk(g)'
<1>1. ASSUME NEW h \in mode.files PROVE Sealed(g, h)'
  <2>1. /\ h \in Files /\ g.manifest[h] \in Stamps \cup {None} /\ g.written \in Stamps /\ now \in Stamps
        /\ file[h].stamp \in Stamps /\ file'[h].stamp \in Nat /\ Window \in Nat \ {0} /\ g.written <= now
    <3>1. h \in Files /\ f \in Files
      BY ModeShape DEF ReplayInv
    <3>2. file'[h].stamp \in {file[h].stamp, entry.stamp} /\ entry.stamp \in Stamps
      BY <3>1 DEF ReplayInv, Typed, Entries
    <3> QED
      BY <3>1, <3>2, GenShape, SeenShape, Apart DEF ReplayInv, Typed, GenOk, Stamps
  <2>2. /\ g.manifest[h] # None => g.manifest[h] <= file[h].stamp /\ g.manifest[h] <= g.written
        /\ Sealed(g, h)
    BY DEF GenOk, Sealed
  <2>3. g.manifest[h] # None => g.manifest[h] <= file'[h].stamp
    <3>1. file[h].stamp <= file'[h].stamp
      BY <2>1, EditSeen
    <3> QED
      BY <2>1, <2>2, <3>1 DEF Stamps
  <2>4. ASSUME ~mode.verified
        PROVE  \/ Faithful(h, g.manifest[h], g.pack[h])'
               \/ mode.coarse /\ g.manifest[h] # None /\ g.written - g.manifest[h] < Window
    <3>1. CASE g.manifest[h] = None
      BY <3>1 DEF Faithful
    <3>2. CASE g.manifest[h] # None /\ Faithful(h, g.manifest[h], g.pack[h])
      <4>1. Faithful(h, g.manifest[h], g.pack[h])' \/ (mode.coarse /\ g.manifest[h] = now)
        BY <2>1, <2>2, <2>4, <3>2, EditSeen
      <4> QED
        BY <2>1, <2>2, <3>2, <4>1 DEF Stamps
    <3>3. CASE ~Faithful(h, g.manifest[h], g.pack[h])
      BY <2>2, <2>4, <3>3 DEF Sealed
    <3> QED
      BY <3>1, <3>2, <3>3
  <2> QED
    BY <2>2, <2>3, <2>4 DEF Sealed
<1> QED
  BY <1>1 DEF GenOk, OnePiece

\* What a build that runs has seen moves with the edit.
LEMMA EditBuild ==
  ASSUME ReplayInv, NEW f \in mode.files, NEW entry \in Entries, Shows(f, entry), entry.stamp <= now,
         file' = [file EXCEPT ![f] = entry], UNCHANGED <<mode, now>>,
         NEW s \in BuildRecords, s.pc # "idle", BuildOk(s), NEW t, t = [s EXCEPT !.moved = @ \cup {f}]
  PROVE  /\ t \in BuildRecords /\ t.pc = s.pc /\ t.rules = s.rules /\ t.prior = s.prior
         /\ t.moved = s.moved \cup {f} /\ BuildOk(t)'
<1>1. f \in Files /\ mode.files \subseteq Files /\ now \in Stamps /\ Window \in Nat \ {0}
  BY ModeShape, Apart DEF ReplayInv, Typed
<1>2. /\ t \in BuildRecords /\ t.pc = s.pc /\ t.since = s.since /\ t.rules = s.rules /\ t.stat = s.stat
      /\ t.prior = s.prior /\ t.todo = s.todo /\ t.out = s.out /\ t.written = s.written
      /\ t.moved = s.moved \cup {f}
  BY <1>1, ZenonT(60) DEF BuildRecords
<1>3. Looked(s) /\ Phase(s) /\ ProductsOk(s)
  BY DEF BuildOk
<1>4. ASSUME NEW h \in mode.files
      PROVE  /\ file[h].stamp \in Stamps /\ file'[h].stamp \in Nat /\ file[h].stamp <= file'[h].stamp
             /\ s.stat[h] \in Stamps \cup {None} /\ s.since \in Stamps
             /\ s.stat[h] # None => s.stat[h] <= file[h].stamp /\ s.stat[h] <= file'[h].stamp
  <2>1. h \in Files /\ file'[h].stamp \in {file[h].stamp, entry.stamp} /\ entry.stamp \in Stamps
    BY <1>1, <1>4 DEF ReplayInv, Typed, Entries
  <2>2. file[h].stamp \in Stamps /\ s.stat[h] \in Stamps \cup {None} /\ s.since \in Stamps
    BY <2>1, SeenShape, BuildShape DEF ReplayInv
  <2>3. file[h].stamp <= file'[h].stamp
    BY <2>1, EditSeen
  <2>4. s.stat[h] # None => s.stat[h] <= file[h].stamp
    BY <1>3, <1>4 DEF Looked
  <2> QED
    BY <2>1, <2>2, <2>3, <2>4 DEF Stamps
<1>5. Looked(t)'
  <2>1. \A h \in mode.files : h # f => Seen(h)' = Seen(h)
    BY <1>1, EditSeen
  <2> QED
    BY <1>2, <1>3, <1>4, <2>1 DEF Looked
<1>6. Phase(t)'
  BY <1>2, <1>3 DEF Phase, Known
<1>7. Held(t)' = Held(s) /\ Settled(t)' = Settled(s)
  BY <1>2 DEF Held, Settled, Changed
<1>8. ASSUME NEW h \in Settled(s) \cap mode.files, NEW p, Kept(s, h, p)
      PROVE  Kept(t, h, p)'
  <2>1. CASE s.stat[h] = None
    BY <1>2, <2>1 DEF Kept, Faithful
  <2>2. CASE mode.verified /\ h \in t.moved
    BY <2>2 DEF Kept
  <2>3. CASE ~mode.verified /\ s.stat[h] # None /\ Faithful(h, s.stat[h], p)
    <3>1. s.stat[h] \in Stamps /\ s.stat[h] <= file[h].stamp /\ s.since <= now
          /\ s.since \in Stamps /\ h \in Files
      BY <1>1, <1>3, <1>4, <1>8, <2>3 DEF Looked
    <3>2. Faithful(h, s.stat[h], p)' \/ (h = f /\ mode.coarse /\ s.stat[h] = now)
      BY <2>3, <3>1, EditSeen
    <3> QED
      BY <1>1, <1>2, <2>3, <3>1, <3>2 DEF Kept, Stamps
  <2>4. CASE mode.verified /\ h \notin t.moved
    <3>1. h # f /\ h \in Files /\ Faithful(h, s.stat[h], p)
      BY <1>1, <1>2, <1>8, <2>4 DEF Kept
    <3>2. file'[h] = file[h] /\ Seen(h)' = Seen(h)
      BY <3>1, EditSeen
    <3> QED
      BY <1>2, <3>1, <3>2 DEF Kept, Faithful
  <2>5. CASE ~Faithful(h, s.stat[h], p)
    BY <1>2, <1>8, <2>5 DEF Kept
  <2> QED
    BY <2>1, <2>2, <2>3, <2>4, <2>5
<1>9. ProductsOk(t)'
  <2>1. \A h \in Settled(s) : Held(s)[h] # None => Held(s)[h].stamp = t.stat[h] /\ Held(s)[h].rules = t.rules
    BY <1>2, <1>3 DEF ProductsOk
  <2>2. \A h \in Settled(s) \cap mode.files : Kept(t, h, Held(s)[h])'
    BY <1>3, <1>8 DEF ProductsOk
  <2> QED
    BY <1>7, <2>1, <2>2 DEF ProductsOk
<1> QED
  BY <1>2, <1>5, <1>6, <1>9 DEF BuildOk

LEMMA EditStep ==
  ASSUME ReplayInv, NEW f \in mode.files, NEW entry \in Entries, Shows(f, entry), entry.stamp <= now,
         entry.there => entry.content \in Contents, Edit(f, entry)
  PROVE  ReplayInv'
<1>1. /\ file' = [file EXCEPT ![f] = entry] /\ UNCHANGED <<mode, now, rules, gen, bank, search>>
      /\ f \in Files /\ Typed /\ watch' \subseteq Files
      /\ mode.hinted \in mode.builders => watch' = watch \cup {f}
      /\ watch \subseteq watch'
  <2>1. f \in Files /\ Typed /\ mode.builders \subseteq Builders
    BY ModeShape DEF ReplayInv
  <2> QED
    BY <2>1, Apart DEF Edit, Typed
<1>2. \A c \in Builders : ~Running(c) => build'[c] = build[c]
  BY DEF Edit
<1>3. \A c \in Builders : Running(c) => build'[c] = [build[c] EXCEPT !.moved = @ \cup {f}]
  BY DEF Edit
<1>4. ASSUME NEW c \in Builders
      PROVE  /\ build'[c] \in BuildRecords /\ build'[c].pc = build[c].pc /\ build'[c].rules = build[c].rules
             /\ build'[c].prior = build[c].prior /\ build'[c].moved \subseteq build[c].moved \cup {f}
             /\ ~Running(c) => build'[c].moved = build[c].moved
             /\ \A u \in {build'[c]} : BuildOk(u)'
  <2>1. PICK s : s = build[c]
    OBVIOUS
  <2>2. s \in BuildRecords /\ BuildOk(s)
    BY <2>1 DEF ReplayInv, BuildsInv, Typed
  <2>3. CASE Running(c)
    <3>1. PICK t : t = [s EXCEPT !.moved = @ \cup {f}]
      OBVIOUS
    <3>2. build'[c] = t /\ s.pc # "idle"
      BY <1>3, <2>1, <2>3, <3>1 DEF Running
    <3>3. /\ t \in BuildRecords /\ t.pc = s.pc /\ t.rules = s.rules /\ t.prior = s.prior
          /\ t.moved = s.moved \cup {f} /\ BuildOk(t)'
      BY <1>1, <2>2, <3>1, <3>2, EditBuild
    <3> QED
      BY <2>1, <2>3, <3>2, <3>3
  <2>4. CASE ~Running(c)
    <3>1. build'[c] = s /\ s.pc = "idle"
      BY <1>2, <2>1, <2>4 DEF Running
    <3>2. BuildOk(s)'
      BY <3>1 DEF BuildOk
    <3> QED
      BY <2>1, <2>2, <2>4, <3>1, <3>2
  <2> QED
    BY <2>3, <2>4
<1>5. Typed'
  <2>1. file' \in [Files -> Entries]
    BY <1>1 DEF Typed
  <2>2. \A h \in Files : file'[h].stamp <= now /\ (file'[h].there => file'[h].content \in Contents)
    <3>1. \A h \in Files : file'[h] = IF h = f THEN entry ELSE file[h]
      BY <1>1 DEF Typed
    <3> QED
      BY <1>1, <3>1 DEF Typed
  <2>3. build' \in [Builders -> BuildRecords]
    <3>1. build' = [c \in Builders |-> build'[c]]
      BY DEF Edit
    <3> QED
      BY <1>4, <3>1
  <2>4. \A c \in Builders : Running(c)' => build'[c].rules \in 1..2 /\ c \in mode.builders
    BY <1>1, <1>4 DEF Typed, Running
  <2> QED
    BY <1>1, <2>1, <2>2, <2>3, <2>4 DEF Typed
<1>6. GensInv'
  <2> SUFFICES ASSUME NEW g \in {gen'} \cup {build'[c].prior : c \in Builders}, g # None
               PROVE  GenOk(g)'
    BY DEF GensInv
  <2>1. g \in {gen} \cup {build[c].prior : c \in Builders}
    BY <1>1, <1>4
  <2>2. GenOk(g) /\ g \in Gens
    BY <1>1, <2>1, BuildShape DEF ReplayInv, GensInv, Typed
  <2> QED
    BY <1>1, <2>2, EditGen
<1>7. BuildsInv'
  BY <1>4 DEF BuildsInv
<1>8. BankInv'
  <2>1. search.pc = "stat" => search.stamp <= file'[search.f].stamp
    <3> SUFFICES ASSUME search.pc = "stat" PROVE search.stamp <= file'[search.f].stamp
      OBVIOUS
    <3>1. search.f \in Files /\ search.stamp \in Stamps /\ search.stamp <= file[search.f].stamp
      BY DEF ReplayInv, Typed, SearchRecords, BankInv
    <3>2. file[search.f].stamp <= file'[search.f].stamp
      BY <1>1, <3>1, EditSeen
    <3>3. file[search.f].stamp \in Stamps /\ file'[search.f].stamp \in Stamps
      BY <1>1, <1>5, <3>1 DEF Typed, Entries
    <3> QED
      BY <3>1, <3>2, <3>3 DEF Stamps
  <2>2. ASSUME ~mode.verified, NEW h \in Files, bank[h] # None
        PROVE  bank[h].stamp <= file'[h].stamp /\ Faithful(h, bank[h].stamp, bank[h])'
    <3>1. bank[h].stamp \in Stamps /\ bank[h].stamp <= file[h].stamp /\ Faithful(h, bank[h].stamp, bank[h])
      BY <1>1, <2>2 DEF ReplayInv, BankInv, Typed, Packs, Products
    <3>2. ~mode.coarse
      BY <2>2 DEF ReplayInv, SoundCase, BankInv
    <3>3. file[h].stamp <= file'[h].stamp
      BY <1>1, EditSeen
    <3>4. file[h].stamp \in Stamps /\ file'[h].stamp \in Stamps
      BY <1>1, <1>5 DEF Typed, Entries
    <3>5. Faithful(h, bank[h].stamp, bank[h])'
      <4>1. PICK p : p = bank[h]
        OBVIOUS
      <4>2. PICK stamp : stamp = bank[h].stamp
        OBVIOUS
      <4>3. Faithful(h, stamp, p)'
        BY <1>1, <2>2, <3>1, <3>2, <4>1, <4>2, EditSeen
      <4> QED
        BY <1>1, <4>1, <4>2, <4>3 DEF Faithful
    <3> QED
      BY <3>1, <3>3, <3>4, <3>5 DEF Stamps
  <2> QED
    BY <1>1, <2>1, <2>2 DEF ReplayInv, BankInv
<1>9. WatchInv'
  <2>1. ASSUME mode.apart, NEW c \in Builders, c # mode.hinted PROVE build'[c].moved = {}
    BY <1>4, <2>1 DEF Edit, ReplayInv, WatchInv
  <2>2. ASSUME mode.hinted \in mode.builders
        PROVE  /\ build'[mode.hinted].moved \subseteq watch'
               /\ build'[mode.hinted].pc = build[mode.hinted].pc
    <3>1. mode.hinted \in Builders
      BY <1>1, <2>2, ModeShape
    <3> QED
      BY <1>1, <1>4, <2>2, <3>1 DEF ReplayInv, WatchInv
  <2>3. ASSUME NEW h \in mode.files, h # f PROVE Seen(h)' = Seen(h)
    BY <1>1, <2>3, ModeShape, EditSeen
  <2> QED
    BY <1>1, <2>1, <2>2, <2>3 DEF ReplayInv, WatchInv
<1> QED
  BY <1>1, <1>5, <1>6, <1>7, <1>8, <1>9 DEF ReplayInv, SoundCase

\* The edits of the model are such steps.
LEMMA EditsStep ==
  ASSUME ReplayInv, NEW f \in mode.files, Save(f) \/ Touch(f) \/ Remove(f) \/ SaveKeepingStamp(f)
  PROVE  ReplayInv'
<1>1. f \in Files /\ now \in Stamps /\ now <= now /\ file[f] \in Entries /\ file[f].stamp <= now
      /\ (file[f].there => file[f].content \in Contents)
  BY ModeShape, Apart DEF ReplayInv, Typed, Stamps
<1>2. CASE Save(f)
  <2>1. PICK c \in Contents : Edit(f, [there |-> TRUE, content |-> c, stamp |-> now])
    BY <1>2 DEF Save
  <2>2. PICK e : e = [there |-> TRUE, content |-> c, stamp |-> now]
    OBVIOUS
  <2>3. e \in Entries /\ e.stamp = now /\ e.content \in Contents
    BY <1>1, <2>2 DEF Entries
  <2>4. Shows(f, e)
    BY <1>2, <2>3 DEF Save, Stamped, Shows
  <2> QED
    BY <1>1, <2>1, <2>2, <2>3, <2>4, EditStep
<1>3. CASE Touch(f)
  <2>1. PICK e : e = [file[f] EXCEPT !.stamp = now]
    OBVIOUS
  <2>2. e \in Entries /\ e.stamp = now /\ e.content = file[f].content /\ e.there = file[f].there
    BY <1>1, <2>1 DEF Entries
  <2>3. Shows(f, e) /\ Edit(f, e)
    BY <1>3, <2>1, <2>2 DEF Touch, Shows
  <2> QED
    BY <1>1, <2>2, <2>3, EditStep
<1>4. CASE Remove(f)
  <2>1. PICK e : e = [there |-> FALSE, content |-> None, stamp |-> now]
    OBVIOUS
  <2>2. e \in Entries /\ e.stamp = now /\ e.there = FALSE
    BY <1>1, <2>1 DEF Entries
  <2>3. Shows(f, e) /\ Edit(f, e)
    BY <1>4, <2>1, <2>2 DEF Remove, Stamped, Shows
  <2> QED
    BY <1>1, <2>2, <2>3, EditStep
<1>5. CASE SaveKeepingStamp(f)
  <2>1. PICK c \in Contents : Edit(f, [file[f] EXCEPT !.content = c])
    BY <1>5 DEF SaveKeepingStamp
  <2>2. PICK e : e = [file[f] EXCEPT !.content = c]
    OBVIOUS
  <2>3. e \in Entries /\ e.stamp = file[f].stamp /\ e.content = c
    BY <1>1, <2>2 DEF Entries
  <2>4. Shows(f, e)
    BY <1>5, <2>3 DEF SaveKeepingStamp, Shows, ReplayInv, SoundCase
  <2> QED
    BY <1>1, <2>1, <2>2, <2>3, <2>4, EditStep
<1> QED
  BY <1>2, <1>3, <1>4, <1>5

-------------------------------------------------------------------------------
(* The invariant, and what it says. *)

LEMMA ReplayInit ==
  ASSUME Init, \A m \in Modes : SoundCase(m)
  PROVE  ReplayInv
<1>1. Typed
  <2>1. file \in [Files -> Entries] /\ \A f \in Files : file[f].there = FALSE /\ file[f].stamp = 0
    BY Apart DEF Init, Entries
  <2>2. build \in [Builders -> BuildRecords] /\ \A b \in Builders : ~Running(b)
    BY IdleShape DEF Init, Running
  <2>3. search \in SearchRecords /\ search.pc = "idle"
    BY Apart DEF Init, NoSearch, SearchRecords
  <2>4. bank \in Packs
    BY DEF Init, Packs
  <2>5. now = 1 /\ now \in Stamps /\ gen = None /\ rules = 1 /\ watch = {} /\ mode \in Modes
    BY Apart DEF Init
  <2> QED
    BY <2>1, <2>2, <2>3, <2>4, <2>5 DEF Typed
<1>2. \A b \in Builders : build[b] = Idle
  BY DEF Init
<1>3. GensInv /\ BuildsInv
  BY <1>2, IdleShape DEF Init, GensInv, BuildsInv, BuildOk
<1>4. BankInv
  BY DEF Init, BankInv, NoSearch
<1>5. WatchInv
  BY <1>1, <1>2, ModeShape, IdleShape DEF Init, WatchInv
<1> QED
  BY <1>1, <1>3, <1>4, <1>5 DEF Init, ReplayInv

LEMMA ReplayStep ==
  ASSUME ReplayInv, [Next]_vars
  PROVE  ReplayInv'
<1>1. CASE UNCHANGED vars
  <2>1. UNCHANGED <<mode, now, file, rules, watch, gen, bank, search, build>>
    BY <1>1 DEF vars
  <2>2. BankInv'
    BY <2>1, BankFrame DEF ReplayInv
  <2> QED
    BY <2>1, <2>2, QuietStep DEF ReplayInv, Typed
<1>2. CASE Tick \/ Upgrade \/ SearchStats \/ SearchBanks
  BY <1>2, TickStep, UpgradeStep, SearchStatsStep, SearchBanksStep
<1>3. ASSUME NEW f \in mode.files, Save(f) \/ Touch(f) \/ Remove(f) \/ SaveKeepingStamp(f) \/ SearchReads(f)
      PROVE  ReplayInv'
  BY <1>3, EditsStep, SearchReadsStep
<1>4. ASSUME NEW b \in Builders,
             \/ Begin(b) \/ Decide(b) \/ Reuse(b) \/ Bail(b) \/ List(b) \/ Carry(b) \/ Consolidate(b)
             \/ SaveManifest(b) \/ Commit(b) \/ Report(b)
      PROVE  ReplayInv'
  BY <1>4, BeginStep, DecideStep, ReuseStep, BailStep, ListStep, CarryStep, ConsolidateStep,
     SaveManifestStep, CommitStep, ReportStep
<1>5. ASSUME NEW b \in Builders, NEW f \in Files,
             Patch(b, f) \/ Stat(b, f) \/ VerifyRacy(b, f) \/ Extract(b, f) \/ Apply(b, f)
      PROVE  ReplayInv'
  BY <1>5, PatchStep, StatStep, VerifyRacyStep, ExtractStep, ApplyStep
<1> QED
  BY <1>1, <1>2, <1>3, <1>4, <1>5 DEF Next

\* The invariant that the three properties rest on: every product of a
\* generation, of the bank and of a running build is that of the text its stamp
\* was taken of, or the stamp is one that is not trusted unread.
THEOREM ReplayInvariant ==
  ASSUME \A m \in Modes : SoundCase(m)
  PROVE  Spec => []ReplayInv
<1>1. Init => ReplayInv
  BY ReplayInit
<1>2. ReplayInv /\ [Next]_vars => ReplayInv'
  BY ReplayStep
<1> QED
  BY <1>1, <1>2, PTL DEF Spec

LEMMA CurrentOf ==
  ASSUME Typed, NEW f \in Files, NEW p \in Products \cup {None}, NEW r,
         p # None => p.stamp = Seen(f) /\ p.rules = r, Faithful(f, Seen(f), p)
  PROVE  Current(f, p, r)
<1>1. CASE file[f].there
  BY <1>1, SeenShape DEF Current, Faithful
<1>2. CASE ~file[f].there
  <2>1. Seen(f) = None
    BY <1>2 DEF Seen
  <2>2. p = None
    BY <2>1, Apart DEF Products
  <2> QED
    BY <1>2, <2>2 DEF Current
<1> QED
  BY <1>1, <1>2

\* A replayed product is that of the file as it is: whatever build_index_inner
\* reused, carried over, replayed or read, what it is about to publish, or says
\* is published already, is the result of a build from scratch, but for the
\* files edited while it ran.
THEOREM ReplaysCurrent ==
  ASSUME \A m \in Modes : SoundCase(m)
  PROVE  Spec => []ResultIsCurrent
<1>1. ReplayInv => ResultIsCurrent
  <2> SUFFICES ASSUME ReplayInv, NEW b \in Builders, build[b].pc \in {"commit", "reused"},
                      NEW f \in mode.files \ build[b].moved
               PROVE  Current(f, Result(b)[f], build[b].rules)
    BY DEF ResultIsCurrent
  <2>1. PICK s : s = build[b]
    OBVIOUS
  <2>2. /\ s \in BuildRecords /\ s.pc \in {"commit", "reused"} /\ Looked(s) /\ Phase(s) /\ ProductsOk(s)
        /\ f \in Files /\ f \in mode.files /\ f \notin s.moved
        /\ s.prior # None => s.prior \in Gens
    BY <2>1, BuildAt, ModeShape DEF ReplayInv
  <2>3. Settled(s) = Files /\ Held(s) = Result(b)
    BY <2>1, <2>2 DEF Settled, Held, Result
  <2>4. s.stat[f] = Seen(f)
    BY <2>2 DEF Looked
  <2>5. Held(s)[f] \in Products \cup {None}
    BY <2>2, BuildShape, GenShape DEF Held, Phase
  <2>6. /\ Held(s)[f] # None => Held(s)[f].stamp = Seen(f) /\ Held(s)[f].rules = s.rules
        /\ Faithful(f, Seen(f), Held(s)[f])
    BY <2>2, <2>3, <2>4 DEF ProductsOk, Kept
  <2> QED
    BY <2>1, <2>2, <2>3, <2>5, <2>6, CurrentOf DEF ReplayInv
<1> QED
  BY <1>1, ReplayInvariant, PTL

\* A product in CURRENT that is not the file's any more shows: the next sweep
\* sees another stamp, or the stamp is within the racy window of the manifest and
\* the file is read.
THEOREM StaleProductShows ==
  ASSUME \A m \in Modes : SoundCase(m)
  PROVE  Spec => []StaleShows
<1>1. ReplayInv => TypeOK
  <2> SUFFICES ASSUME ReplayInv PROVE TypeOK
    OBVIOUS
  <2>1. gen # None => gen \in Gens /\ OnePiece(gen)
    BY DEF ReplayInv, Typed, GensInv, GenOk
  <2>2. \A b \in Builders : build[b].moved \subseteq Files /\ build[b].stat \in Manifests
    BY BuildShape DEF ReplayInv, Typed
  <2> QED
    BY <2>1, <2>2 DEF TypeOK, ReplayInv, Typed, Entries, OnePiece
<1>2. ASSUME ReplayInv, gen # None, ~mode.verified, NEW f \in mode.files
      PROVE  \/ Current(f, gen.pack[f], gen.rules)
             \/ gen.manifest[f] # Seen(f)
             \/ gen.manifest[f] # None /\ Racy(gen.manifest[f], gen)
  <2> SUFFICES ASSUME gen.manifest[f] = Seen(f), ~(gen.manifest[f] # None /\ Racy(gen.manifest[f], gen))
               PROVE  Current(f, gen.pack[f], gen.rules)
    OBVIOUS
  <2>1. gen \in Gens /\ GenOk(gen) /\ f \in Files /\ Typed
    BY <1>2, ModeShape DEF ReplayInv, Typed, GensInv
  <2>2. Faithful(f, Seen(f), gen.pack[f])
    BY <1>2, <2>1, NotRacy
  <2>3. /\ gen.pack[f] \in Products \cup {None}
        /\ gen.pack[f] # None => gen.pack[f].stamp = Seen(f) /\ gen.pack[f].rules = gen.rules
    BY <2>1, GenShape DEF GenOk, OnePiece
  <2> QED
    BY <2>1, <2>2, <2>3, CurrentOf
<1>3. ReplayInv => StaleShows
  BY <1>1, <1>2 DEF StaleShows
<1> QED
  BY <1>3, ReplayInvariant, PTL

\* The manifest patched from the watch's changes is what a sweep would have found,
\* but for the files edited since the build began.
THEOREM HintedBuildIsSweep ==
  ASSUME \A m \in Modes : SoundCase(m)
  PROVE  Spec => []HintedLikeSweep
<1>1. ReplayInv => HintedLikeSweep
  BY BuildAt DEF HintedLikeSweep, Looked
<1> QED
  BY <1>1, ReplayInvariant, PTL
===============================================================================
