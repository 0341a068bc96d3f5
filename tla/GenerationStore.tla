---------------------------- MODULE GenerationStore ----------------------------
(***************************************************************************)
(* The index root of crates/index/src/lib.rs: builds that stage a          *)
(* generation and commit it (build_index_inner, commit_generation), and    *)
(* the readers that resolve CURRENT and open what it names                 *)
(* (resolve_index_dir and Kg::load of crates/kg/src/kg.rs).                *)
(*                                                                         *)
(*   gen/.staging-*   a staging directory per build    (a slot)            *)
(*   gen/<id>         committed generations, named by content              *)
(*   CURRENT          the pointer; CURRENT.tmp becomes it by rename        *)
(*                                                                         *)
(* One file-system operation on shared state is one step.  A build that    *)
(* fails or dies leaves its files where they are.                          *)
(*                                                                         *)
(* Abstractions.  A directory is the set of its parts: the product pack    *)
(* with the sidecars, the graph slabs, and the manifest; the ANN tier is   *)
(* VectorTier's.  The content of the artifacts is a function of the source *)
(* tree scanned, so an id is a tree and the parts hashed.  CURRENT and     *)
(* CURRENT.tmp are names of inodes, because a writer keeps its handle      *)
(* across a rename.  A directory is recent for two minutes after an entry  *)
(* of it changed; Age is those minutes.                                    *)
(* Legacy flat roots are left out: Root is an index root without CURRENT.  *)
(***************************************************************************)
EXTENDS Integers, FiniteSets

CONSTANTS Trees,        \* contents of the source tree
          Builders,     \* the builds that may run at the same time
          Slots,        \* names of staging directories
          Inodes,       \* inodes for CURRENT and CURRENT.tmp
          Readers,      \* the readers
          RereadsRoot,  \* whether readers resolve the root again for sidecars
          Modes,        \* the cases: which builders run over which trees, whether two
                        \* minutes may pass between two steps of a build, the builds
                        \* that may die (a bound), and the readers beside them
          Root,         \* the index root itself: no generation resolved
          None,         \* no directory, no slot, no inode
          Torn          \* the content of a truncated pointer file

Parts == {"pack", "graph", "manifest"}
Ids == Trees \X SUBSET Parts
Complete == {<<t, Parts>> : t \in Trees}
Names == Slots \union Ids

ASSUME StoreAssumption ==
  /\ RereadsRoot \in BOOLEAN
  /\ Modes \subseteq [builders : SUBSET Builders, trees : SUBSET Trees, slow : BOOLEAN,
                      crashes : Nat, readers : SUBSET Readers]
  /\ {Root, None, Torn} \intersect (Names \union Inodes) = {}
  /\ Slots \intersect Ids = {}
  /\ \A d \in SUBSET Parts : d # None
  /\ IsFiniteSet(Builders) /\ IsFiniteSet(Inodes)
  /\ Cardinality(Builders) < Cardinality(Inodes)

VARIABLES mode,     \* the case
          tree,     \* the source tree
          dir,      \* dir[n]: the parts of directory n, or None
          recent,   \* directories changed during the last two minutes
          current,  \* the inode named CURRENT, or None
          tmp,      \* the inode named CURRENT.tmp, or None
          content,  \* content[i]: what inode i holds
          build,    \* build[b]: the build b is running
          reader,   \* reader[r]: what reader r is doing
          crashes

pointer == <<current, tmp, content>>
vars == <<mode, tree, dir, recent, pointer, build, reader, crashes>>

Idle == [pc |-> "idle", tree |-> None, prior |-> None, slot |-> None, id |-> None,
         handle |-> None, todo |-> {}, victim |-> None]
NotReading == [pc |-> "idle", graph |-> None, side |-> None, behind |-> 0]

Init ==
  /\ mode \in Modes
  /\ tree \in mode.trees
  /\ dir = [n \in Names |-> None]
  /\ recent = {}
  /\ current = None
  /\ tmp = None
  /\ content = [i \in Inodes |-> Torn]
  /\ build = [b \in Builders |-> Idle]
  /\ reader = [r \in Readers |-> NotReading]
  /\ crashes = 0

Exists(n) == dir[n] # None

\* resolve_index_dir: the directory CURRENT names when there is one, else the root.
Resolved ==
  IF current # None /\ content[current] \in Ids /\ Exists(content[current])
  THEN content[current]
  ELSE Root

Goto(b, pc) == build' = [build EXCEPT ![b].pc = pc]

\* An error, or the end of the build: what is on disk stays.
End(b) == build' = [build EXCEPT ![b] = Idle]

-------------------------------------------------------------------------------
(* The environment *)

Edit ==
  /\ tree' \in mode.trees \ {tree}
  /\ UNCHANGED <<mode, dir, recent, pointer, build, reader, crashes>>

\* The directory a build has just written and has not published.
Fresh(b) ==
  IF build[b].pc \in {"create", "write", "swap"} THEN build[b].id ELSE build[b].slot

\* Two minutes pass without a change in directory n: unless builds are slow,
\* neither while a build is about to use it nor during a garbage collection.
Age(n) ==
  /\ n \in recent
  /\ mode.slow \/ \A b \in Builders : n # Fresh(b) /\ build[b].pc \notin {"list", "sweep"}
  /\ recent' = recent \ {n}
  /\ UNCHANGED <<mode, tree, dir, pointer, build, reader, crashes>>

-------------------------------------------------------------------------------
(* A build up to its commit *)

Scan(b) ==
  /\ build[b].pc = "idle" /\ b \in mode.builders
  /\ build' = [build EXCEPT ![b].pc = "scanned", ![b].tree = tree]
  /\ UNCHANGED <<mode, tree, dir, recent, pointer, reader, crashes>>

ResolvePrior(b) ==
  /\ build[b].pc = "scanned"
  /\ build' = [build EXCEPT ![b].pc = "decide", ![b].prior = Resolved]
  /\ UNCHANGED <<mode, tree, dir, recent, pointer, reader, crashes>>

\* Nothing changed since the prior generation: answer from it, commit nothing.
Reuse(b) ==
  /\ build[b].pc = "decide"
  /\ build[b].prior # Root
  /\ build[b].prior[1] = build[b].tree
  /\ Exists(build[b].prior) /\ {"graph", "manifest"} \subseteq dir[build[b].prior]
  /\ End(b)
  /\ UNCHANGED <<mode, tree, dir, recent, pointer, reader, crashes>>

\* Names are unique per process and build: only a forgotten one is used again.
FreeSlots ==
  {s \in Slots : ~Exists(s) /\ \A b \in Builders :
                   s \notin {build[b].slot, build[b].victim} \union build[b].todo}

CreateStaging(b) ==
  /\ build[b].pc = "decide"
  /\ FreeSlots # {}
  /\ LET s == CHOOSE s \in FreeSlots : TRUE
     IN  /\ dir' = [dir EXCEPT ![s] = {}]
         /\ recent' = recent \union {s}
         /\ build' = [build EXCEPT ![b].pc = "pack", ![b].slot = s]
  /\ UNCHANGED <<mode, tree, pointer, reader, crashes>>

\* Write part p into the staging directory and go on at pc.
Write(b, p, pc) ==
  /\ dir' = [dir EXCEPT ![build[b].slot] = {p} \union (IF @ = None THEN {} ELSE @)]
  /\ recent' = recent \union {build[b].slot}
  /\ Goto(b, pc)
  /\ UNCHANGED <<mode, tree, pointer, reader, crashes>>

\* The pack is published from its spool in the staging directory.
WritePack(b) ==
  /\ build[b].pc = "pack"
  /\ Exists(build[b].slot)
  /\ Write(b, "pack", "graph")

\* The slab families create their directories, the staging directory with them.
WriteGraph(b) ==
  /\ build[b].pc = "graph"
  /\ Write(b, "graph", "manifest")

\* The manifest is last.
WriteManifest(b) ==
  /\ build[b].pc = "manifest"
  /\ Exists(build[b].slot)
  /\ Write(b, "manifest", "identify")

-------------------------------------------------------------------------------
(* commit_generation *)

Identify(b) ==
  /\ build[b].pc = "identify"
  /\ Exists(build[b].slot)
  /\ build' = [build EXCEPT ![b].pc = "dedup",
                            ![b].id = <<build[b].tree, dir[build[b].slot]>>]
  /\ UNCHANGED <<mode, tree, dir, recent, pointer, reader, crashes>>

\* Fault: an existing directory is trusted without looking inside.
DedupByName(b) ==
  /\ build[b].pc = "dedup"
  /\ Goto(b, IF Exists(build[b].id) THEN "drop" ELSE "rename")
  /\ UNCHANGED <<mode, tree, dir, recent, pointer, reader, crashes>>

\* A committed generation of the same id is used if it has every part staged.
Dedup(b) ==
  /\ build[b].pc = "dedup"
  /\ LET staged == IF Exists(build[b].slot) THEN dir[build[b].slot] ELSE {}
     IN  Goto(b, IF ~Exists(build[b].id) THEN "rename"
                 ELSE IF staged \subseteq dir[build[b].id] THEN "drop"
                 ELSE "replace")
  /\ UNCHANGED <<mode, tree, dir, recent, pointer, reader, crashes>>

DropStaging(b) ==
  /\ build[b].pc = "drop"
  /\ Exists(build[b].slot)
  /\ dir' = [dir EXCEPT ![build[b].slot] = None]
  /\ recent' = recent \ {build[b].slot}
  /\ build' = [build EXCEPT ![b].pc = "create", ![b].slot = None]
  /\ UNCHANGED <<mode, tree, pointer, reader, crashes>>

RemoveBroken(b) ==
  /\ build[b].pc = "replace"
  /\ Exists(build[b].id)
  /\ dir' = [dir EXCEPT ![build[b].id] = None]
  /\ recent' = recent \ {build[b].id}
  /\ Goto(b, "rename")
  /\ UNCHANGED <<mode, tree, pointer, reader, crashes>>

CanRename(b) == Exists(build[b].slot) /\ dir[build[b].id] \in {None, {}}

RenameStaging(b) ==
  /\ build[b].pc = "rename"
  /\ CanRename(b)
  /\ dir' = [dir EXCEPT ![build[b].id] = dir[build[b].slot], ![build[b].slot] = None]
  /\ recent' = IF build[b].slot \in recent
               THEN (recent \ {build[b].slot}) \union {build[b].id}
               ELSE recent \ {build[b].id}
  /\ build' = [build EXCEPT ![b].pc = "create", ![b].slot = None]
  /\ UNCHANGED <<mode, tree, pointer, reader, crashes>>

UnusedInodes ==
  {i \in Inodes : i \notin {current, tmp} /\ \A b \in Builders : build[b].handle # i}

\* File::create opens the CURRENT.tmp that is there, truncated, or a new one.
CreatePointer(b) ==
  /\ build[b].pc = "create"
  /\ LET i == IF tmp # None THEN tmp ELSE CHOOSE j \in UnusedInodes : TRUE
     IN  /\ tmp' = i
         /\ content' = [content EXCEPT ![i] = Torn]
         /\ build' = [build EXCEPT ![b].pc = "write", ![b].handle = i]
  /\ UNCHANGED <<mode, tree, dir, recent, current, reader, crashes>>

WritePointer(b) ==
  /\ build[b].pc = "write"
  /\ content' = [content EXCEPT ![build[b].handle] = build[b].id]
  /\ build' = [build EXCEPT ![b].pc = "swap", ![b].handle = None]
  /\ UNCHANGED <<mode, tree, dir, recent, current, tmp, reader, crashes>>

Overtake ==
  reader' = [r \in Readers |->
               IF reader[r].pc \in {"graph", "side"} /\ reader[r].behind < 2
               THEN [reader[r] EXCEPT !.behind = @ + 1]
               ELSE reader[r]]

\* The commit: whatever CURRENT.tmp is now becomes CURRENT.
SwapPointer(b) ==
  /\ build[b].pc = "swap"
  /\ tmp # None
  /\ current' = tmp
  /\ tmp' = None
  /\ Goto(b, "list")
  /\ Overtake
  /\ UNCHANGED <<mode, tree, dir, recent, content, crashes>>

-------------------------------------------------------------------------------
(* Garbage collection, the tail of commit_generation *)

\* Fault: only the new generation is kept.
ListKeepNew(b) ==
  /\ build[b].pc = "list"
  /\ build' = [build EXCEPT ![b].pc = "sweep",
                            ![b].todo = {n \in Names : Exists(n)} \ {build[b].id}]
  /\ UNCHANGED <<mode, tree, dir, recent, pointer, reader, crashes>>

\* Fault: staging directories are not looked at.
ListIds(b) ==
  /\ build[b].pc = "list"
  /\ build' = [build EXCEPT ![b].pc = "sweep",
                            ![b].todo = {n \in Ids : Exists(n)}
                                          \ {build[b].id, build[b].prior}]
  /\ UNCHANGED <<mode, tree, dir, recent, pointer, reader, crashes>>

\* Everything under gen/ but the new generation and the one CURRENT named when
\* this build began.
ListGenerations(b) ==
  /\ build[b].pc = "list"
  /\ build' = [build EXCEPT ![b].pc = "sweep",
                            ![b].todo = {n \in Names : Exists(n)}
                                          \ {build[b].id, build[b].prior}]
  /\ UNCHANGED <<mode, tree, dir, recent, pointer, reader, crashes>>

\* Fault: the age of a directory is not looked at.
SweepAnyAge(b) ==
  /\ build[b].pc = "sweep" /\ build[b].victim = None
  /\ \E n \in build[b].todo :
       build' = [build EXCEPT ![b].todo = @ \ {n},
                              ![b].victim = IF Exists(n) THEN n ELSE None]
  /\ UNCHANGED <<mode, tree, dir, recent, pointer, reader, crashes>>

\* A listed directory is left alone when it is recent or already gone.
Sweep(b) ==
  /\ build[b].pc = "sweep" /\ build[b].victim = None
  /\ \E n \in build[b].todo :
       build' = [build EXCEPT ![b].todo = @ \ {n},
                              ![b].victim = IF Exists(n) /\ n \notin recent
                                            THEN n ELSE None]
  /\ UNCHANGED <<mode, tree, dir, recent, pointer, reader, crashes>>

\* remove_dir_all, one entry at a time.
Unlink(b) ==
  LET n == build[b].victim
  IN  /\ n # None
      /\ IF Exists(n) /\ dir[n] # {}
         THEN /\ \E p \in dir[n] : dir' = [dir EXCEPT ![n] = @ \ {p}]
              /\ recent' = recent \union {n}
              /\ UNCHANGED build
         ELSE /\ dir' = [dir EXCEPT ![n] = None]
              /\ recent' = recent \ {n}
              /\ build' = [build EXCEPT ![b].victim = None]
      /\ UNCHANGED <<mode, tree, pointer, reader, crashes>>

FinishCommit(b) ==
  /\ build[b].pc = "sweep" /\ build[b].victim = None
  /\ build[b].todo = {}
  /\ End(b)
  /\ UNCHANGED <<mode, tree, dir, recent, pointer, reader, crashes>>

-------------------------------------------------------------------------------
(* Builds that do not finish *)

\* A directory or file of this build is gone, or one is in its way.
Fail(b) ==
  /\ \/ build[b].pc \in {"pack", "manifest", "identify", "drop"} /\ ~Exists(build[b].slot)
     \/ build[b].pc = "replace" /\ ~Exists(build[b].id)
     \/ build[b].pc = "rename" /\ ~CanRename(b)
     \/ build[b].pc = "swap" /\ tmp = None
  /\ End(b)
  /\ UNCHANGED <<mode, tree, dir, recent, pointer, reader, crashes>>

Crash(b) ==
  /\ build[b].pc # "idle"
  /\ crashes < mode.crashes
  /\ crashes' = crashes + 1
  /\ End(b)
  /\ UNCHANGED <<mode, tree, dir, recent, pointer, reader>>

\* Every step of a build that has begun.
Proceed(b) ==
  \/ ResolvePrior(b) \/ Reuse(b) \/ CreateStaging(b)
  \/ WritePack(b) \/ WriteGraph(b) \/ WriteManifest(b)
  \/ Identify(b) \/ Dedup(b) \/ DropStaging(b) \/ RemoveBroken(b) \/ RenameStaging(b)
  \/ CreatePointer(b) \/ WritePointer(b) \/ SwapPointer(b)
  \/ ListGenerations(b) \/ Sweep(b) \/ Unlink(b) \/ FinishCommit(b)
  \/ Fail(b)

-------------------------------------------------------------------------------
(* Readers *)

ReadPointer(r) ==
  /\ reader[r].pc = "idle" /\ r \in mode.readers
  /\ reader' = [reader EXCEPT ![r] = [NotReading EXCEPT !.pc = "graph", !.graph = Resolved]]
  /\ UNCHANGED <<mode, tree, dir, recent, pointer, build, crashes>>

Readable(d, p) == d # Root /\ Exists(d) /\ p \in dir[d]

OpenGraph(r) ==
  /\ reader[r].pc = "graph"
  /\ Readable(reader[r].graph, "graph")
  /\ reader' = [reader EXCEPT ![r].pc = "side",
                              ![r].side = IF RereadsRoot THEN None ELSE reader[r].graph]
  /\ UNCHANGED <<mode, tree, dir, recent, pointer, build, crashes>>

\* Fault: the sidecars are looked for under the root, whatever graph is open.
OpenCurrentSide(r) ==
  /\ reader[r].pc = "side"
  /\ Readable(Resolved, "pack")
  /\ reader' = [reader EXCEPT ![r].pc = "loaded", ![r].side = Resolved, ![r].behind = 0]
  /\ UNCHANGED <<mode, tree, dir, recent, pointer, build, crashes>>

\* Library handles open the sidecars of the generation they resolved; the
\* command line resolves the root a second time.
SideOf(r) == IF RereadsRoot THEN Resolved ELSE reader[r].side

OpenSide(r) ==
  /\ reader[r].pc = "side"
  /\ Readable(SideOf(r), "pack")
  /\ reader' = [reader EXCEPT ![r].pc = "loaded", ![r].side = SideOf(r), ![r].behind = 0]
  /\ UNCHANGED <<mode, tree, dir, recent, pointer, build, crashes>>

TurnAway(r) ==
  /\ \/ reader[r].pc = "graph" /\ ~Readable(reader[r].graph, "graph")
     \/ reader[r].pc = "side" /\ ~Readable(SideOf(r), "pack")
  /\ reader' = [reader EXCEPT ![r] = NotReading]
  /\ UNCHANGED <<mode, tree, dir, recent, pointer, build, crashes>>

Close(r) ==
  /\ reader[r].pc = "loaded"
  /\ reader' = [reader EXCEPT ![r] = NotReading]
  /\ UNCHANGED <<mode, tree, dir, recent, pointer, build, crashes>>

Next ==
  \/ Edit \/ \E n \in Names : Age(n)
  \/ \E b \in Builders : Scan(b) \/ Proceed(b) \/ Crash(b)
  \/ \E r \in Readers : \/ ReadPointer(r) \/ OpenGraph(r) \/ OpenSide(r)
                        \/ TurnAway(r) \/ Close(r)

Spec == Init /\ [][Next]_vars

\* A build that has begun goes on, and time passes.
FairSpec ==
  /\ Spec
  /\ \A b \in Builders : WF_vars(Proceed(b))
  /\ \A s \in Slots : WF_vars(Age(s))

-------------------------------------------------------------------------------
(* Properties *)

\* The steps at which a build relies on its staging directory.
Staging(b) == build[b].pc \in {"pack", "graph", "manifest", "identify", "dedup", "drop",
                               "replace", "rename"}

\* Every variable keeps its type, recent directories exist, and no inode is
\* CURRENT and CURRENT.tmp at once.
TypeOK ==
  /\ mode \in Modes /\ tree \in mode.trees
  /\ dir \in [Names -> (SUBSET Parts) \union {None}]
  /\ recent \subseteq {n \in Names : Exists(n)}
  /\ current \in Inodes \union {None}
  /\ tmp \in Inodes \union {None}
  /\ current # None => current # tmp
  /\ content \in [Inodes -> Ids \union {Torn}]
  /\ build \in [Builders ->
       [pc : {"idle", "scanned", "decide", "pack", "graph", "manifest", "identify", "dedup",
              "drop", "replace", "rename", "create", "write", "swap", "list",
              "sweep"},
        tree : Trees \union {None}, prior : Ids \union {Root, None},
        slot : Slots \union {None}, id : Ids \union {None},
        handle : Inodes \union {None}, todo : SUBSET Names, victim : Names \union {None}]]
  /\ reader \in [Readers -> [pc : {"idle", "graph", "side", "loaded"},
                             graph : Ids \union {Root, None}, side : Ids \union {Root, None},
                             behind : 0..2]]
  /\ crashes \in 0..mode.crashes

\* One builder at a time, as where a lock serialises the builds of a root.
Alone == Cardinality(mode.builders) = 1

\* "They see the old pointer or the new one, never a torn write".
PointerWhole == current # None => content[current] # Torn

\* Where builds do not overlap, a generation CURRENT names is there with every
\* part a build writes, whatever builds died before, between or after its files,
\* and CURRENT is never torn; in every case the variables keep their types.
NamedIsComplete ==
  /\ TypeOK
  /\ (Alone /\ current # None) =>
       /\ PointerWhole /\ content[current] \in Complete
       /\ Exists(content[current]) /\ Parts \subseteq dir[content[current]]

\* "A concurrent reader sees the complete old index or the complete new one,
\* never a mixture".
NeverAMixture == \A r \in Readers : reader[r].pc = "loaded" => reader[r].side = reader[r].graph

\* "A concurrent build's staging must not be swept mid-flight".
StagingSurvives ==
  \A b \in Builders :
    Staging(b) => /\ Exists(build[b].slot)
                  /\ \A c \in Builders : build[c].victim # build[b].slot

\* A reader as the contract sees it.
Seen(r) ==
  [pc |-> IF reader[r].pc \in {"graph", "side"} THEN "open" ELSE reader[r].pc,
   gen |-> IF reader[r].pc = "idle" THEN Root ELSE reader[r].graph,
   behind |-> reader[r].behind]

\* What a reader gets is one generation, published as a whole; the contract is
\* stated for builds that do not overlap, and shows its first state otherwise.
Store == INSTANCE GenerationContract
           WITH Generations <- Complete, None <- Root,
                published <- IF Alone THEN Resolved ELSE Root,
                reading <- [r \in Readers |-> Seen(r)]

ImplementsContract == Store!Spec

Orphan(s) == Exists(s) /\ \A b \in Builders : build[b].slot # s

\* The staging directory of a build that died is collected, provided builds
\* keep committing: "a crashed run's staging is swept by the next commit's GC".
OrphansCollected ==
  ([]<>(\E b \in Builders : build[b].pc = "sweep"))
    => \A s \in Slots : (Alone /\ Orphan(s)) ~> ~Orphan(s)
===============================================================================
