------------------------- MODULE GenerationStoreProofs -------------------------
(***************************************************************************)
(* The index root, for any trees, builds, readers and cases.  Three        *)
(* arguments share one invariant.                                          *)
(*                                                                         *)
(* Overlapping builds: staging directories have one owner each (OwnSlots)  *)
(* and, while no build is interrupted for two minutes, one in use is       *)
(* recent, so that no garbage collection picks it (Guarded).               *)
(*                                                                         *)
(* One build at a time: what it has staged is known from its pc, the id it *)
(* publishes is complete on disk before CURRENT.tmp names it, and the      *)
(* collection spares that id and the one CURRENT named when the build      *)
(* began (Advances); so CURRENT names a complete generation (Named).       *)
(*                                                                         *)
(* Readers: one that no commit overtook has the generation CURRENT names,  *)
(* and one that a single commit overtook has a generation that is complete *)
(* and spared by the collection under way (Follows).                       *)
(***************************************************************************)
EXTENDS GenerationStore, FiniteSetTheorems, TLAPS

\* The records of builds and of readers.
Builds ==
  [pc : {"idle", "scanned", "decide", "pack", "graph", "manifest", "identify", "dedup",
         "drop", "replace", "rename", "create", "write", "swap", "list", "sweep"},
   tree : Trees \union {None}, prior : Ids \union {Root, None},
   slot : Slots \union {None}, id : Ids \union {None},
   handle : Inodes \union {None}, todo : SUBSET Names, victim : Names \union {None}]
Readings ==
  [pc : {"idle", "graph", "side", "loaded"}, graph : Ids \union {Root, None},
   side : Ids \union {Root, None}, behind : 0..2]

\* The steps from the id on.
Committing == {"dedup", "drop", "replace", "rename", "create", "write", "swap", "list", "sweep"}

\* A build's fields are set at the steps that use them.
Placed(b) ==
  /\ build[b].pc # "idle" => b \in mode.builders /\ build[b].tree \in Trees
  /\ build[b].slot # None <=> Staging(b)
  /\ build[b].pc \in Committing => build[b].id \in Ids
  /\ build[b].handle # None <=> build[b].pc = "write"
  /\ build[b].victim # None => build[b].pc = "sweep"
Typed == TypeOK /\ \A b \in Builders : Placed(b)

\* No two builds have the same staging directory.
OwnSlots == \A b, c \in Builders : b # c /\ build[b].slot # None => build[b].slot # build[c].slot

\* A staging directory in use is there, is recent unless builds are slow, and is
\* nobody's victim.
Guarded(b) ==
  (Staging(b) /\ (Alone \/ ~mode.slow)) =>
    /\ Exists(build[b].slot)
    /\ mode.slow \/ build[b].slot \in recent
    /\ \A c \in Builders : build[c].victim # build[b].slot

\* What is in a staging directory at each step.
Written(pc) ==
  CASE pc = "pack" -> {} [] pc = "graph" -> {"pack"} [] pc = "manifest" -> {"pack", "graph"}
    [] OTHER -> Parts

\* What CURRENT says, a complete directory, and that CURRENT names one.
Target == IF current = None THEN Root ELSE content[current]

Has(n) == Exists(n) /\ Parts \subseteq dir[n]
Named == current # None => content[current] \in Complete /\ Has(content[current])

\* A build on its own.
Advances(b) ==
  LET s == build[b]
  IN
  /\ Staging(b) => dir[s.slot] = Written(s.pc)
  /\ s.pc \notin {"idle", "scanned", "list", "sweep"} => s.prior = Target
  /\ s.pc \in Committing => s.id \in Complete
  /\ s.pc \in {"drop", "create", "write", "swap"} => Has(s.id)
  /\ s.pc = "replace" => ~Has(s.id)
  /\ s.pc = "rename" => ~Exists(s.id)
  /\ s.pc = "write" => s.handle = tmp
  /\ s.pc = "swap" => tmp # None /\ content[tmp] = s.id
  /\ s.pc \in {"list", "sweep"} => current # None /\ content[current] = s.id
  /\ s.pc = "sweep" => s.id \notin s.todo /\ s.prior \notin s.todo
  /\ s.victim # None => s.victim # s.id /\ s.victim # s.prior

\* A reader that has resolved the root and not loaded yet.
Open(r) == reader[r].pc \in {"graph", "side"}

\* A reader's own fields.
Reads(r) ==
  /\ reader[r].pc \in {"idle", "loaded"} => reader[r].behind = 0
  /\ reader[r].pc # "idle" => r \in mode.readers
  /\ ~RereadsRoot /\ reader[r].pc \in {"side", "loaded"} => reader[r].side = reader[r].graph

\* A reader beside one build at a time.
Follows(r) ==
  LET s == reader[r]
  IN
  /\ s.pc # "idle" => s.graph \in Complete \union {Root}
  /\ s.pc \in {"side", "loaded"} => s.graph \in Complete
  /\ (Open(r) /\ s.graph # Root) =>
       /\ current # None
       /\ s.behind = 0 => s.graph = content[current]
       /\ s.behind = 1 => Has(s.graph)
       /\ s.behind < 2 => \A b \in Builders :
                            build[b].pc \in {"list", "sweep"} => s.graph \in {build[b].id, build[b].prior}

\* The inductive invariant.
StoreInv ==
  /\ Typed /\ OwnSlots
  /\ \A b \in Builders : Guarded(b)
  /\ \A r \in Readers : Reads(r)
  /\ Alone => /\ Named
              /\ \A b \in Builders : Advances(b)
              /\ \A r \in Readers : Follows(r)

\* The steps of a build and of a reader.
BuilderStep(b) == Scan(b) \/ Proceed(b) \/ Crash(b)
ReaderStep(r) == ReadPointer(r) \/ OpenGraph(r) \/ OpenSide(r) \/ TurnAway(r) \/ Close(r)

USE DEF Exists, BuilderStep

\* What the assumption says of names, one fact at a time.
LEMMA Apart ==
  /\ None \notin Names /\ None \notin Inodes /\ Root \notin Names /\ Torn \notin Ids
  /\ \A n \in Slots : n \notin Ids
  /\ Names = Slots \union Ids
  /\ \A d \in SUBSET Parts : d # None
BY StoreAssumption DEF Names

\* The parts of a case.
LEMMA ModeParts ==
  ASSUME NEW m \in Modes
  PROVE  /\ m.builders \subseteq Builders /\ m.trees \subseteq Trees /\ m.slow \in BOOLEAN
         /\ m.crashes \in Nat /\ m.readers \subseteq Readers
BY StoreAssumption

\* An inode is left for a build that opens the pointer file: every other build
\* has a handle at most, and CURRENT names one inode.
LEMMA InodeLeft ==
  ASSUME Typed, NEW b \in Builders, build[b].pc = "create", tmp = None
  PROVE  UnusedInodes # {}
<1> DEFINE Others == Builders \ {b}
<1> DEFINE Held == {build[c].handle : c \in Others}
<1>1. IsFiniteSet(Others) /\ Cardinality(Others) = Cardinality(Builders) - 1
  BY FS_RemoveElement, StoreAssumption
<1>2. IsFiniteSet(Held) /\ Cardinality(Held) <= Cardinality(Others)
  <2> DEFINE f == [c \in Others |-> build[c].handle]
  <2>1. f \in Surjection(Others, Held)
    BY DEF Surjection
  <2> HIDE DEF f, Held
  <2>2. QED
    BY <1>1, <2>1, FS_Surjection
<1>3. IsFiniteSet(Held \union {current}) /\ Cardinality(Held \union {current}) <= Cardinality(Held) + 1
  <2> HIDE DEF Held
  <2>1. Cardinality(Held) \in Nat
    BY <1>2, FS_CardinalityType
  <2>2. Cardinality(Held \union {current}) = IF current \in Held THEN Cardinality(Held) ELSE Cardinality(Held) + 1
    BY <1>2, FS_AddElement
  <2> QED
    BY <1>2, <2>1, <2>2, FS_AddElement
<1>4. Cardinality(Held \union {current}) <= Cardinality(Builders)
  <2>1. Cardinality(Others) \in Nat /\ Cardinality(Builders) \in Nat /\ Cardinality(Held) \in Nat
           /\ Cardinality(Held \union {current}) \in Nat
    BY <1>1, <1>2, <1>3, FS_CardinalityType, StoreAssumption
  <2> HIDE DEF Held, Others
  <2> QED
    BY <1>1, <1>2, <1>3, <2>1
<1>5. ASSUME Inodes \subseteq Held \union {current} PROVE FALSE
  <2>1. Cardinality(Inodes) <= Cardinality(Held \union {current})
    BY <1>3, <1>5, FS_Subset
  <2> HIDE DEF Held
  <2>2. Cardinality(Inodes) \in Nat /\ Cardinality(Builders) \in Nat /\ Cardinality(Held \union {current}) \in Nat
    BY <1>3, FS_CardinalityType, StoreAssumption
  <2> QED
    BY <1>4, <2>1, <2>2, StoreAssumption
<1>6. PICK i \in Inodes : i \notin Held \union {current}
  BY <1>5
<1>7. build[b].handle # i
  BY Apart DEF Typed, Placed
<1>8. i \in UnusedInodes
  BY <1>6, <1>7, Apart DEF UnusedInodes
<1> QED
  BY <1>8

\* A resolution is a generation or the root.
LEMMA ResolvedIn ==
  ASSUME TypeOK
  PROVE  Resolved \in Ids \union {Root}
BY DEF Resolved

\* A staging name is free when one is taken.
LEMMA FreeSlotChosen ==
  ASSUME FreeSlots # {}
  PROVE  (CHOOSE s \in FreeSlots : TRUE) \in FreeSlots
OBVIOUS

\* An inode is unused when one is taken.
LEMMA FreeInodeChosen ==
  ASSUME UnusedInodes # {}
  PROVE  (CHOOSE i \in UnusedInodes : TRUE) \in UnusedInodes
OBVIOUS

\* CreateStaging takes a free name.
LEMMA SlotTaken ==
  ASSUME NEW b \in Builders, CreateStaging(b)
  PROVE  \E s \in FreeSlots :
           /\ dir' = [dir EXCEPT ![s] = {}] /\ recent' = recent \union {s}
           /\ build' = [build EXCEPT ![b].pc = "pack", ![b].slot = s]
BY FreeSlotChosen DEF CreateStaging

\* CreatePointer truncates CURRENT.tmp or takes a new inode, never that of CURRENT.
LEMMA InodeTaken ==
  ASSUME Typed, NEW b \in Builders, CreatePointer(b)
  PROVE  \E i \in Inodes :
           /\ i # current /\ tmp' = i /\ content' = [content EXCEPT ![i] = Torn]
           /\ build' = [build EXCEPT ![b].pc = "write", ![b].handle = i]
<1>1. PICK i : i = IF tmp # None THEN tmp ELSE CHOOSE j \in UnusedInodes : TRUE
  OBVIOUS
<1>2. i \in Inodes /\ i # current
  <2>1. CASE tmp # None
    BY <1>1, <2>1 DEF Typed, TypeOK
  <2>2. CASE tmp = None
    <3>1. i \in UnusedInodes
      BY <1>1, <2>2, InodeLeft, FreeInodeChosen DEF CreatePointer
    <3> QED
      BY <3>1 DEF UnusedInodes
  <2> QED
    BY <2>1, <2>2
<1> QED
  BY <1>1, <1>2 DEF CreatePointer

\* Identify gives an id.
LEMMA IdGiven ==
  ASSUME Typed, NEW b \in Builders, Identify(b)
  PROVE  \E id \in Ids :
           /\ id = <<build[b].tree, dir[build[b].slot]>>
           /\ build' = [build EXCEPT ![b].pc = "dedup", ![b].id = id]
<1>1. build[b].tree \in Trees /\ build[b].slot \in Slots
  BY DEF Typed, TypeOK, Placed, Staging, Identify
<1>2. dir[build[b].slot] \in SUBSET Parts
  BY <1>1, Apart DEF Typed, TypeOK, Identify
<1> QED
  BY <1>1, <1>2 DEF Identify, Ids

\* Records of a collecting build stay such records.
LEMMA BuildsWith ==
  ASSUME NEW s \in Builds, NEW d \in SUBSET Names, NEW v \in Names \union {None}
  PROVE  /\ [s EXCEPT !.pc = "sweep", !.todo = d] \in Builds
         /\ [s EXCEPT !.todo = d, !.victim = v] \in Builds
<1> DEFINE P == {"idle", "scanned", "decide", "pack", "graph", "manifest", "identify", "dedup",
         "drop", "replace", "rename", "create", "write", "swap", "list", "sweep"}
<1> DEFINE T == SUBSET Names
<1>1. Builds = [pc : P, tree : Trees \union {None}, prior : Ids \union {Root, None},
   slot : Slots \union {None}, id : Ids \union {None},
   handle : Inodes \union {None}, todo : T, victim : Names \union {None}]
  BY DEF Builds
<1>2. "sweep" \in P /\ d \in T
  OBVIOUS
<1> HIDE DEF P, T
<1> QED
  BY <1>1, <1>2

\* A step of a build keeps the types.
LEMMA TypesStep ==
  ASSUME Typed, NEW b \in Builders, BuilderStep(b)
  PROVE  TypeOK'
<1> USE Apart DEF pointer
<1>a. /\ build \in [Builders -> Builds] /\ dir \in [Names -> (SUBSET Parts) \union {None}]
      /\ build[b] \in Builds /\ tree \in Trees
      /\ recent \subseteq {n \in Names : dir[n] # None}
      /\ build[b].pc # "idle" => build[b].tree \in Trees
      /\ Staging(b) => build[b].slot \in Slots
  BY ModeParts DEF Typed, TypeOK, Builds, Placed
<1>b. SUFFICES /\ build' \in [Builders -> Builds]
                /\ mode' \in Modes /\ tree' \in mode'.trees
                /\ dir' \in [Names -> (SUBSET Parts) \union {None}]
                /\ recent' \subseteq {n \in Names : dir'[n] # None}
                /\ current' \in Inodes \union {None} /\ tmp' \in Inodes \union {None}
                /\ (current' # None => current' # tmp')
                /\ content' \in [Inodes -> Ids \union {Torn}]
                /\ reader' \in [Readers -> Readings]
                /\ crashes' \in 0..mode'.crashes
  BY <1>b DEF TypeOK, Builds, Readings
<1>c. ASSUME NEW t \in Builds, build' = [build EXCEPT ![b] = t]
      PROVE  build' \in [Builders -> Builds]
  BY <1>a, <1>c
<1>d. ASSUME NEW p \in Parts, NEW pc \in {"graph", "manifest", "identify"}, Write(b, p, pc), Staging(b)
      PROVE  /\ dir' \in [Names -> (SUBSET Parts) \union {None}]
             /\ recent' \subseteq {n \in Names : dir'[n] # None}
  <2>1. ({p} \union (IF dir[build[b].slot] = None THEN {} ELSE dir[build[b].slot])) \in SUBSET Parts
    BY <1>a, <1>d
  <2>2. PICK d \in SUBSET Parts : dir' = [dir EXCEPT ![build[b].slot] = d]
    BY <1>d, <2>1 DEF Write
  <2> QED
    BY <1>a, <1>d, <2>2 DEF Write
<1>1. CASE Scan(b)
  <2>1. build' \in [Builders -> Builds]
    <3>1. [build[b] EXCEPT !.pc = "scanned", !.tree = tree] \in Builds
      BY <1>a, <1>1, ZenonT(90) DEF TypeOK, Typed, Staging, Builds, Scan
    <3> QED
      BY <1>c, <3>1, <1>1 DEF Scan
  <2>2. dir' \in [Names -> (SUBSET Parts) \union {None}] /\ recent' \subseteq {n \in Names : dir'[n] # None}
    BY <1>a, <1>1 DEF Typed, TypeOK, Placed, Staging, Builds, Readings, Scan
  <2>3. /\ current' \in Inodes \union {None} /\ tmp' \in Inodes \union {None}
        /\ (current' # None => current' # tmp')
        /\ content' \in [Inodes -> Ids \union {Torn}]
    BY <1>a, <1>1 DEF Typed, TypeOK, Placed, Staging, Builds, Readings, Scan
  <2>4. /\ mode' \in Modes /\ tree' \in mode'.trees /\ crashes' \in 0..mode'.crashes
    BY <1>a, <1>1, ModeParts DEF Typed, TypeOK, Scan
  <2>5. /\ reader' \in [Readers -> Readings]
    BY <1>1 DEF Typed, TypeOK, Readings, Scan
  <2> QED
    BY <2>1, <2>2, <2>3, <2>4, <2>5
<1>2. CASE ResolvePrior(b)
  <2>1. build' \in [Builders -> Builds]
    <3>1. PICK d \in Ids \union {Root} : d = Resolved
      BY ResolvedIn DEF Typed
    <3>2. build' = [build EXCEPT ![b].pc = "decide", ![b].prior = d]
      BY <1>2, <3>1 DEF ResolvePrior
    <3>3. [build[b] EXCEPT !.pc = "decide", !.prior = d] \in Builds
      BY <1>a, ZenonT(90) DEF Builds
    <3> QED
      BY <1>c, <3>2, <3>3
  <2>2. dir' \in [Names -> (SUBSET Parts) \union {None}] /\ recent' \subseteq {n \in Names : dir'[n] # None}
    BY <1>a, <1>2 DEF Typed, TypeOK, Placed, Staging, Builds, Readings, ResolvePrior, Resolved
  <2>3. /\ current' \in Inodes \union {None} /\ tmp' \in Inodes \union {None}
        /\ (current' # None => current' # tmp')
        /\ content' \in [Inodes -> Ids \union {Torn}]
    BY <1>a, <1>2 DEF Typed, TypeOK, Placed, Staging, Builds, Readings, ResolvePrior, Resolved
  <2>4. /\ mode' \in Modes /\ tree' \in mode'.trees /\ crashes' \in 0..mode'.crashes
    BY <1>a, <1>2, ModeParts DEF Typed, TypeOK, ResolvePrior, Resolved
  <2>5. /\ reader' \in [Readers -> Readings]
    BY <1>2 DEF Typed, TypeOK, Readings, ResolvePrior, Resolved
  <2> QED
    BY <2>1, <2>2, <2>3, <2>4, <2>5
<1>3. CASE Reuse(b)
  <2>1. build' \in [Builders -> Builds]
    BY <1>a, <1>3 DEF Typed, TypeOK, Placed, Staging, Builds, Readings, Reuse, End, Idle
  <2>2. dir' \in [Names -> (SUBSET Parts) \union {None}] /\ recent' \subseteq {n \in Names : dir'[n] # None}
    BY <1>a, <1>3 DEF Typed, TypeOK, Placed, Staging, Builds, Readings, Reuse, End, Idle
  <2>3. /\ current' \in Inodes \union {None} /\ tmp' \in Inodes \union {None}
        /\ (current' # None => current' # tmp')
        /\ content' \in [Inodes -> Ids \union {Torn}]
    BY <1>a, <1>3 DEF Typed, TypeOK, Placed, Staging, Builds, Readings, Reuse, End, Idle
  <2>4. /\ mode' \in Modes /\ tree' \in mode'.trees /\ crashes' \in 0..mode'.crashes
    BY <1>a, <1>3, ModeParts DEF Typed, TypeOK, Reuse, End, Idle
  <2>5. /\ reader' \in [Readers -> Readings]
    BY <1>3 DEF Typed, TypeOK, Readings, Reuse, End, Idle
  <2> QED
    BY <2>1, <2>2, <2>3, <2>4, <2>5
<1>4. CASE CreateStaging(b)
  <2>1. build' \in [Builders -> Builds]
    <3>1. [build[b] EXCEPT !.pc = "pack", !.slot = CHOOSE s \in FreeSlots : TRUE] \in Builds
      BY <1>a, <1>4, FreeSlotChosen, ZenonT(90) DEF TypeOK, Typed, Staging, Builds, CreateStaging, FreeSlots
    <3> QED
      BY <1>c, <3>1, <1>4 DEF CreateStaging
  <2>2. dir' \in [Names -> (SUBSET Parts) \union {None}] /\ recent' \subseteq {n \in Names : dir'[n] # None}
    BY <1>a, <1>4 DEF Typed, TypeOK, Placed, Staging, Builds, Readings, CreateStaging, FreeSlots
  <2>3. /\ current' \in Inodes \union {None} /\ tmp' \in Inodes \union {None}
        /\ (current' # None => current' # tmp')
        /\ content' \in [Inodes -> Ids \union {Torn}]
    BY <1>a, <1>4 DEF Typed, TypeOK, Placed, Staging, Builds, Readings, CreateStaging, FreeSlots
  <2>4. /\ mode' \in Modes /\ tree' \in mode'.trees /\ crashes' \in 0..mode'.crashes
    BY <1>a, <1>4, ModeParts DEF Typed, TypeOK, CreateStaging, FreeSlots
  <2>5. /\ reader' \in [Readers -> Readings]
    BY <1>4 DEF Typed, TypeOK, Readings, CreateStaging, FreeSlots
  <2> QED
    BY <2>1, <2>2, <2>3, <2>4, <2>5
<1>5. CASE WritePack(b)
  <2>1. build' \in [Builders -> Builds]
    BY <1>a, <1>5, SMTT(60) DEF Typed, TypeOK, Placed, Staging, Builds, Readings, WritePack, Write, Goto
  <2>2. dir' \in [Names -> (SUBSET Parts) \union {None}] /\ recent' \subseteq {n \in Names : dir'[n] # None}
    BY <1>d, <1>5 DEF WritePack, Staging, Parts
  <2>3. /\ current' \in Inodes \union {None} /\ tmp' \in Inodes \union {None}
        /\ (current' # None => current' # tmp')
        /\ content' \in [Inodes -> Ids \union {Torn}]
    BY <1>a, <1>5 DEF Typed, TypeOK, Placed, Staging, Builds, Readings, WritePack, Write, Goto
  <2>4. /\ mode' \in Modes /\ tree' \in mode'.trees /\ crashes' \in 0..mode'.crashes
    BY <1>a, <1>5, ModeParts DEF Typed, TypeOK, WritePack, Write, Goto
  <2>5. /\ reader' \in [Readers -> Readings]
    BY <1>5 DEF Typed, TypeOK, Readings, WritePack, Write, Goto
  <2> QED
    BY <2>1, <2>2, <2>3, <2>4, <2>5
<1>6. CASE WriteGraph(b)
  <2>1. build' \in [Builders -> Builds]
    BY <1>a, <1>6, ZenonT(90) DEF Typed, TypeOK, Placed, Staging, Builds, Readings, WriteGraph, Write, Goto
  <2>2. dir' \in [Names -> (SUBSET Parts) \union {None}] /\ recent' \subseteq {n \in Names : dir'[n] # None}
    BY <1>d, <1>6 DEF WriteGraph, Staging, Parts
  <2>3. /\ current' \in Inodes \union {None} /\ tmp' \in Inodes \union {None}
        /\ (current' # None => current' # tmp')
        /\ content' \in [Inodes -> Ids \union {Torn}]
    BY <1>a, <1>6 DEF Typed, TypeOK, Placed, Staging, Builds, Readings, WriteGraph, Write, Goto
  <2>4. /\ mode' \in Modes /\ tree' \in mode'.trees /\ crashes' \in 0..mode'.crashes
    BY <1>a, <1>6, ModeParts DEF Typed, TypeOK, WriteGraph, Write, Goto
  <2>5. /\ reader' \in [Readers -> Readings]
    BY <1>6 DEF Typed, TypeOK, Readings, WriteGraph, Write, Goto
  <2> QED
    BY <2>1, <2>2, <2>3, <2>4, <2>5
<1>7. CASE WriteManifest(b)
  <2>1. build' \in [Builders -> Builds]
    BY <1>a, <1>7, SMTT(60) DEF Typed, TypeOK, Placed, Staging, Builds, Readings, WriteManifest, Write, Goto
  <2>2. dir' \in [Names -> (SUBSET Parts) \union {None}] /\ recent' \subseteq {n \in Names : dir'[n] # None}
    BY <1>d, <1>7 DEF WriteManifest, Staging, Parts
  <2>3. /\ current' \in Inodes \union {None} /\ tmp' \in Inodes \union {None}
        /\ (current' # None => current' # tmp')
        /\ content' \in [Inodes -> Ids \union {Torn}]
    BY <1>a, <1>7 DEF Typed, TypeOK, Placed, Staging, Builds, Readings, WriteManifest, Write, Goto
  <2>4. /\ mode' \in Modes /\ tree' \in mode'.trees /\ crashes' \in 0..mode'.crashes
    BY <1>a, <1>7, ModeParts DEF Typed, TypeOK, WriteManifest, Write, Goto
  <2>5. /\ reader' \in [Readers -> Readings]
    BY <1>7 DEF Typed, TypeOK, Readings, WriteManifest, Write, Goto
  <2> QED
    BY <2>1, <2>2, <2>3, <2>4, <2>5
<1>8. CASE Identify(b)
  <2>1. build' \in [Builders -> Builds]
    <3>1. PICK id \in Ids : build' = [build EXCEPT ![b].pc = "dedup", ![b].id = id]
      BY <1>8, IdGiven
    <3>2. [build[b] EXCEPT !.pc = "dedup", !.id = id] \in Builds
      BY <1>a, ZenonT(90) DEF Builds
    <3> QED
      BY <1>c, <3>1, <3>2
  <2>2. dir' \in [Names -> (SUBSET Parts) \union {None}] /\ recent' \subseteq {n \in Names : dir'[n] # None}
    BY <1>a, <1>8 DEF Typed, TypeOK, Placed, Staging, Builds, Readings, Identify
  <2>3. /\ current' \in Inodes \union {None} /\ tmp' \in Inodes \union {None}
        /\ (current' # None => current' # tmp')
        /\ content' \in [Inodes -> Ids \union {Torn}]
    BY <1>a, <1>8 DEF Typed, TypeOK, Placed, Staging, Builds, Readings, Identify
  <2>4. /\ mode' \in Modes /\ tree' \in mode'.trees /\ crashes' \in 0..mode'.crashes
    BY <1>a, <1>8, ModeParts DEF Typed, TypeOK, Identify
  <2>5. /\ reader' \in [Readers -> Readings]
    BY <1>8 DEF Typed, TypeOK, Readings, Identify
  <2> QED
    BY <2>1, <2>2, <2>3, <2>4, <2>5
<1>9. CASE Dedup(b)
  <2>1. build' \in [Builders -> Builds]
    <3>1. \E pc \in {"rename", "drop", "replace"} : build' = [build EXCEPT ![b].pc = pc]
      BY <1>9 DEF Dedup, Goto
    <3> QED
      BY <1>a, <3>1 DEF Builds
  <2>2. dir' \in [Names -> (SUBSET Parts) \union {None}] /\ recent' \subseteq {n \in Names : dir'[n] # None}
    BY <1>a, <1>9 DEF Typed, TypeOK, Placed, Staging, Builds, Readings, Dedup, Goto
  <2>3. /\ current' \in Inodes \union {None} /\ tmp' \in Inodes \union {None}
        /\ (current' # None => current' # tmp')
        /\ content' \in [Inodes -> Ids \union {Torn}]
    BY <1>a, <1>9 DEF Typed, TypeOK, Placed, Staging, Builds, Readings, Dedup, Goto
  <2>4. /\ mode' \in Modes /\ tree' \in mode'.trees /\ crashes' \in 0..mode'.crashes
    BY <1>a, <1>9, ModeParts DEF Typed, TypeOK, Dedup, Goto
  <2>5. /\ reader' \in [Readers -> Readings]
    BY <1>9 DEF Typed, TypeOK, Readings, Dedup, Goto
  <2> QED
    BY <2>1, <2>2, <2>3, <2>4, <2>5
<1>10. CASE DropStaging(b)
  <2>1. build' \in [Builders -> Builds]
    BY <1>a, <1>10 DEF Typed, TypeOK, Placed, Staging, Builds, Readings, DropStaging
  <2>2. dir' \in [Names -> (SUBSET Parts) \union {None}] /\ recent' \subseteq {n \in Names : dir'[n] # None}
    BY <1>a, <1>10 DEF Typed, TypeOK, Placed, Staging, Builds, Readings, DropStaging
  <2>3. /\ current' \in Inodes \union {None} /\ tmp' \in Inodes \union {None}
        /\ (current' # None => current' # tmp')
        /\ content' \in [Inodes -> Ids \union {Torn}]
    BY <1>a, <1>10 DEF Typed, TypeOK, Placed, Staging, Builds, Readings, DropStaging
  <2>4. /\ mode' \in Modes /\ tree' \in mode'.trees /\ crashes' \in 0..mode'.crashes
    BY <1>a, <1>10, ModeParts DEF Typed, TypeOK, DropStaging
  <2>5. /\ reader' \in [Readers -> Readings]
    BY <1>10 DEF Typed, TypeOK, Readings, DropStaging
  <2> QED
    BY <2>1, <2>2, <2>3, <2>4, <2>5
<1>11. CASE RemoveBroken(b)
  <2>1. build' \in [Builders -> Builds]
    BY <1>a, <1>11, SMTT(60) DEF Typed, TypeOK, Placed, Staging, Builds, Readings, RemoveBroken, Goto
  <2>2. dir' \in [Names -> (SUBSET Parts) \union {None}] /\ recent' \subseteq {n \in Names : dir'[n] # None}
    BY <1>a, <1>11 DEF Typed, TypeOK, Placed, Staging, Builds, Readings, RemoveBroken, Goto
  <2>3. /\ current' \in Inodes \union {None} /\ tmp' \in Inodes \union {None}
        /\ (current' # None => current' # tmp')
        /\ content' \in [Inodes -> Ids \union {Torn}]
    BY <1>a, <1>11 DEF Typed, TypeOK, Placed, Staging, Builds, Readings, RemoveBroken, Goto
  <2>4. /\ mode' \in Modes /\ tree' \in mode'.trees /\ crashes' \in 0..mode'.crashes
    BY <1>a, <1>11, ModeParts DEF Typed, TypeOK, RemoveBroken, Goto
  <2>5. /\ reader' \in [Readers -> Readings]
    BY <1>11 DEF Typed, TypeOK, Readings, RemoveBroken, Goto
  <2> QED
    BY <2>1, <2>2, <2>3, <2>4, <2>5
<1>12. CASE RenameStaging(b)
  <2>1. build' \in [Builders -> Builds]
    BY <1>a, <1>12 DEF Typed, TypeOK, Placed, Staging, Builds, Readings, RenameStaging, CanRename
  <2>2. dir' \in [Names -> (SUBSET Parts) \union {None}] /\ recent' \subseteq {n \in Names : dir'[n] # None}
    BY <1>a, <1>12 DEF Typed, TypeOK, Placed, Staging, Builds, Readings, RenameStaging, CanRename
  <2>3. /\ current' \in Inodes \union {None} /\ tmp' \in Inodes \union {None}
        /\ (current' # None => current' # tmp')
        /\ content' \in [Inodes -> Ids \union {Torn}]
    BY <1>a, <1>12 DEF Typed, TypeOK, Placed, Staging, Builds, Readings, RenameStaging, CanRename
  <2>4. /\ mode' \in Modes /\ tree' \in mode'.trees /\ crashes' \in 0..mode'.crashes
    BY <1>a, <1>12, ModeParts DEF Typed, TypeOK, RenameStaging, CanRename
  <2>5. /\ reader' \in [Readers -> Readings]
    BY <1>12 DEF Typed, TypeOK, Readings, RenameStaging, CanRename
  <2> QED
    BY <2>1, <2>2, <2>3, <2>4, <2>5
<1>13. CASE CreatePointer(b)
  <2>0. PICK i \in Inodes :
           /\ i # current /\ tmp' = i /\ content' = [content EXCEPT ![i] = Torn]
           /\ build' = [build EXCEPT ![b].pc = "write", ![b].handle = i]
    BY <1>13, InodeTaken
  <2>1. build' \in [Builders -> Builds]
    <3>1. [build[b] EXCEPT !.pc = "write", !.handle = i] \in Builds
      BY <1>a, ZenonT(90) DEF Builds
    <3> QED
      BY <1>c, <2>0, <3>1
  <2>2. dir' \in [Names -> (SUBSET Parts) \union {None}] /\ recent' \subseteq {n \in Names : dir'[n] # None}
    BY <1>a, <1>13 DEF Typed, TypeOK, Placed, Staging, Builds, Readings, CreatePointer, UnusedInodes
  <2>3. /\ current' \in Inodes \union {None} /\ tmp' \in Inodes \union {None}
        /\ (current' # None => current' # tmp')
        /\ content' \in [Inodes -> Ids \union {Torn}]
    BY <1>13, <2>0, ZenonT(90) DEF Typed, TypeOK, CreatePointer
  <2>4. /\ mode' \in Modes /\ tree' \in mode'.trees /\ crashes' \in 0..mode'.crashes
    BY <1>a, <1>13, ModeParts DEF Typed, TypeOK, CreatePointer, UnusedInodes
  <2>5. /\ reader' \in [Readers -> Readings]
    BY <1>13 DEF Typed, TypeOK, Readings, CreatePointer, UnusedInodes
  <2> QED
    BY <2>1, <2>2, <2>3, <2>4, <2>5
<1>14. CASE WritePointer(b)
  <2>1. build' \in [Builders -> Builds]
    BY <1>a, <1>14 DEF Typed, TypeOK, Placed, Staging, Builds, Readings, WritePointer
  <2>2. dir' \in [Names -> (SUBSET Parts) \union {None}] /\ recent' \subseteq {n \in Names : dir'[n] # None}
    BY <1>a, <1>14 DEF Typed, TypeOK, Placed, Staging, Builds, Readings, WritePointer
  <2>3. /\ current' \in Inodes \union {None} /\ tmp' \in Inodes \union {None}
        /\ (current' # None => current' # tmp')
        /\ content' \in [Inodes -> Ids \union {Torn}]
    BY <1>a, <1>14 DEF Typed, TypeOK, Placed, Staging, Builds, Readings, WritePointer
  <2>4. /\ mode' \in Modes /\ tree' \in mode'.trees /\ crashes' \in 0..mode'.crashes
    BY <1>a, <1>14, ModeParts DEF Typed, TypeOK, WritePointer
  <2>5. /\ reader' \in [Readers -> Readings]
    BY <1>14 DEF Typed, TypeOK, Readings, WritePointer
  <2> QED
    BY <2>1, <2>2, <2>3, <2>4, <2>5
<1>15. CASE SwapPointer(b)
  <2>1. build' \in [Builders -> Builds]
    BY <1>a, <1>15, SMTT(60) DEF Typed, TypeOK, Placed, Staging, Builds, Readings, SwapPointer, Goto, Overtake
  <2>2. dir' \in [Names -> (SUBSET Parts) \union {None}] /\ recent' \subseteq {n \in Names : dir'[n] # None}
    BY <1>a, <1>15 DEF Typed, TypeOK, Placed, Staging, Builds, Readings, SwapPointer, Goto, Overtake
  <2>3. /\ current' \in Inodes \union {None} /\ tmp' \in Inodes \union {None}
        /\ (current' # None => current' # tmp')
        /\ content' \in [Inodes -> Ids \union {Torn}]
    BY <1>a, <1>15 DEF Typed, TypeOK, Placed, Staging, Builds, Readings, SwapPointer, Goto, Overtake
  <2>4. /\ mode' \in Modes /\ tree' \in mode'.trees /\ crashes' \in 0..mode'.crashes
    BY <1>a, <1>15, ModeParts DEF Typed, TypeOK, SwapPointer, Goto, Overtake
  <2>5. /\ reader' \in [Readers -> Readings]
    <3>1. ASSUME NEW r \in Readers PROVE reader[r] \in Readings
      BY DEF Typed, TypeOK, Readings
    <3>2. ASSUME NEW r \in Readers, reader[r].behind < 2 PROVE [reader[r] EXCEPT !.behind = @ + 1] \in Readings
      BY <3>2 DEF Typed, TypeOK, Readings
    <3> QED
      BY <1>15, <3>1, <3>2 DEF SwapPointer, Overtake
  <2> QED
    BY <2>1, <2>2, <2>3, <2>4, <2>5
<1>16. CASE ListGenerations(b)
  <2>1. build' \in [Builders -> Builds]
    <3>1. PICK d \in SUBSET Names : d = {n \in Names : Exists(n)} \ {build[b].id, build[b].prior}
      OBVIOUS
    <3>2. build' = [build EXCEPT ![b].pc = "sweep", ![b].todo = d]
      BY <1>16, <3>1, SMTT(60) DEF ListGenerations
    <3>3. [build[b] EXCEPT !.pc = "sweep", !.todo = d] \in Builds
      BY <1>a, BuildsWith
    <3> QED
      BY <1>c, <3>2, <3>3
  <2>2. dir' \in [Names -> (SUBSET Parts) \union {None}] /\ recent' \subseteq {n \in Names : dir'[n] # None}
    BY <1>a, <1>16 DEF Typed, TypeOK, Placed, Staging, Builds, Readings, ListGenerations
  <2>3. /\ current' \in Inodes \union {None} /\ tmp' \in Inodes \union {None}
        /\ (current' # None => current' # tmp')
        /\ content' \in [Inodes -> Ids \union {Torn}]
    BY <1>a, <1>16 DEF Typed, TypeOK, Placed, Staging, Builds, Readings, ListGenerations
  <2>4. /\ mode' \in Modes /\ tree' \in mode'.trees /\ crashes' \in 0..mode'.crashes
    BY <1>a, <1>16, ModeParts DEF Typed, TypeOK, ListGenerations
  <2>5. /\ reader' \in [Readers -> Readings]
    BY <1>16 DEF Typed, TypeOK, Readings, ListGenerations
  <2> QED
    BY <2>1, <2>2, <2>3, <2>4, <2>5
<1>17. CASE Sweep(b)
  <2>1. build' \in [Builders -> Builds]
    <3>0. PICK n \in build[b].todo :
             \E v \in {n, None} : build' = [build EXCEPT ![b].todo = @ \ {n}, ![b].victim = v]
      BY <1>17 DEF Sweep
    <3>1. PICK v \in {n, None} : build' = [build EXCEPT ![b].todo = @ \ {n}, ![b].victim = v]
      BY <3>0
    <3>2. n \in Names
      BY <1>a DEF Builds
    <3>3. [build[b] EXCEPT !.todo = @ \ {n}, !.victim = v] \in Builds
      <4>1. (build[b].todo \ {n}) \in SUBSET Names
        BY <1>a DEF Builds
      <4> QED
        BY <1>a, <3>2, <4>1, BuildsWith
    <3> QED
      BY <1>c, <3>1, <3>3
  <2>2. dir' \in [Names -> (SUBSET Parts) \union {None}] /\ recent' \subseteq {n \in Names : dir'[n] # None}
    BY <1>a, <1>17 DEF Typed, TypeOK, Placed, Staging, Builds, Readings, Sweep
  <2>3. /\ current' \in Inodes \union {None} /\ tmp' \in Inodes \union {None}
        /\ (current' # None => current' # tmp')
        /\ content' \in [Inodes -> Ids \union {Torn}]
    BY <1>a, <1>17 DEF Typed, TypeOK, Placed, Staging, Builds, Readings, Sweep
  <2>4. /\ mode' \in Modes /\ tree' \in mode'.trees /\ crashes' \in 0..mode'.crashes
    BY <1>a, <1>17, ModeParts DEF Typed, TypeOK, Sweep
  <2>5. /\ reader' \in [Readers -> Readings]
    BY <1>17 DEF Typed, TypeOK, Readings, Sweep
  <2> QED
    BY <2>1, <2>2, <2>3, <2>4, <2>5
<1>18. CASE Unlink(b)
  <2>0. PICK n \in Names : n = build[b].victim /\ n # None
    BY <1>a, <1>18 DEF Unlink, Builds
  <2>a. \/ \E p \in dir[n] : 
               /\ dir[n] # None /\ dir' = [dir EXCEPT ![n] = dir[n] \ {p}]
               /\ recent' = recent \union {n} /\ UNCHANGED build
        \/ dir' = [dir EXCEPT ![n] = None] /\ recent' = recent \ {n} /\ build' = [build EXCEPT ![b].victim = None]
    BY <1>18, <2>0 DEF Unlink
  <2>1. build' \in [Builders -> Builds]
    <3>1. [build[b] EXCEPT !.victim = None] \in Builds
      BY <1>a DEF Builds
    <3> QED
      BY <1>a, <2>a, <3>1
  <2>2. dir' \in [Names -> (SUBSET Parts) \union {None}] /\ recent' \subseteq {m \in Names : dir'[m] # None}
    BY <1>a, <2>0, <2>a
  <2>3. /\ current' \in Inodes \union {None} /\ tmp' \in Inodes \union {None}
        /\ (current' # None => current' # tmp')
        /\ content' \in [Inodes -> Ids \union {Torn}]
    BY <1>a, <1>18 DEF Typed, TypeOK, Placed, Staging, Builds, Readings, Unlink
  <2>4. /\ mode' \in Modes /\ tree' \in mode'.trees /\ crashes' \in 0..mode'.crashes
    BY <1>a, <1>18, ModeParts DEF Typed, TypeOK, Unlink
  <2>5. /\ reader' \in [Readers -> Readings]
    BY <1>18 DEF Typed, TypeOK, Readings, Unlink
  <2> QED
    BY <2>1, <2>2, <2>3, <2>4, <2>5
<1>19. CASE FinishCommit(b)
  <2>1. build' \in [Builders -> Builds]
    BY <1>a, <1>19 DEF Typed, TypeOK, Placed, Staging, Builds, Readings, FinishCommit, End, Idle
  <2>2. dir' \in [Names -> (SUBSET Parts) \union {None}] /\ recent' \subseteq {n \in Names : dir'[n] # None}
    BY <1>a, <1>19 DEF Typed, TypeOK, Placed, Staging, Builds, Readings, FinishCommit, End, Idle
  <2>3. /\ current' \in Inodes \union {None} /\ tmp' \in Inodes \union {None}
        /\ (current' # None => current' # tmp')
        /\ content' \in [Inodes -> Ids \union {Torn}]
    BY <1>a, <1>19 DEF Typed, TypeOK, Placed, Staging, Builds, Readings, FinishCommit, End, Idle
  <2>4. /\ mode' \in Modes /\ tree' \in mode'.trees /\ crashes' \in 0..mode'.crashes
    BY <1>a, <1>19, ModeParts DEF Typed, TypeOK, FinishCommit, End, Idle
  <2>5. /\ reader' \in [Readers -> Readings]
    BY <1>19 DEF Typed, TypeOK, Readings, FinishCommit, End, Idle
  <2> QED
    BY <2>1, <2>2, <2>3, <2>4, <2>5
<1>20. CASE Fail(b)
  <2>1. build' \in [Builders -> Builds]
    BY <1>a, <1>20 DEF Typed, TypeOK, Placed, Staging, Builds, Readings, Fail, End, Idle
  <2>2. dir' \in [Names -> (SUBSET Parts) \union {None}] /\ recent' \subseteq {n \in Names : dir'[n] # None}
    BY <1>a, <1>20 DEF Typed, TypeOK, Placed, Staging, Builds, Readings, Fail, End, Idle
  <2>3. /\ current' \in Inodes \union {None} /\ tmp' \in Inodes \union {None}
        /\ (current' # None => current' # tmp')
        /\ content' \in [Inodes -> Ids \union {Torn}]
    BY <1>a, <1>20 DEF Typed, TypeOK, Placed, Staging, Builds, Readings, Fail, End, Idle
  <2>4. /\ mode' \in Modes /\ tree' \in mode'.trees /\ crashes' \in 0..mode'.crashes
    BY <1>a, <1>20, ModeParts DEF Typed, TypeOK, Fail, End, Idle
  <2>5. /\ reader' \in [Readers -> Readings]
    BY <1>20 DEF Typed, TypeOK, Readings, Fail, End, Idle
  <2> QED
    BY <2>1, <2>2, <2>3, <2>4, <2>5
<1>21. CASE Crash(b)
  <2>1. build' \in [Builders -> Builds]
    BY <1>a, <1>21 DEF Typed, TypeOK, Placed, Staging, Builds, Readings, Crash, End, Idle
  <2>2. dir' \in [Names -> (SUBSET Parts) \union {None}] /\ recent' \subseteq {n \in Names : dir'[n] # None}
    BY <1>a, <1>21 DEF Typed, TypeOK, Placed, Staging, Builds, Readings, Crash, End, Idle
  <2>3. /\ current' \in Inodes \union {None} /\ tmp' \in Inodes \union {None}
        /\ (current' # None => current' # tmp')
        /\ content' \in [Inodes -> Ids \union {Torn}]
    BY <1>a, <1>21 DEF Typed, TypeOK, Placed, Staging, Builds, Readings, Crash, End, Idle
  <2>4. /\ mode' \in Modes /\ tree' \in mode'.trees /\ crashes' \in 0..mode'.crashes
    BY <1>a, <1>21, ModeParts DEF Typed, TypeOK, Crash, End, Idle
  <2>5. /\ reader' \in [Readers -> Readings]
    BY <1>21 DEF Typed, TypeOK, Readings, Crash, End, Idle
  <2> QED
    BY <2>1, <2>2, <2>3, <2>4, <2>5
<1> QED
  BY <1>1, <1>2, <1>3, <1>4, <1>5, <1>6, <1>7, <1>8, <1>9, <1>10, <1>11, <1>12, <1>13, <1>14,
     <1>15, <1>16, <1>17, <1>18, <1>19, <1>20, <1>21 DEF Proceed

\* A step of a build keeps every build's fields in step with its pc.
LEMMA PlacedStep ==
  ASSUME Typed, NEW b \in Builders, BuilderStep(b)
  PROVE  \A c \in Builders : Placed(c)'
<1> USE Apart DEF pointer
<1>a. /\ build \in [Builders -> Builds]
      /\ build[b] \in Builds /\ tree \in Trees
      /\ Placed(b)
  BY ModeParts, SMTT(60) DEF Typed, TypeOK, Builds, Placed
<1>b. ASSUME NEW c \in Builders, c # b PROVE mode' = mode /\ build'[c] = build[c]
  BY <1>b, <1>a DEF Proceed, CanRename, Crash, CreatePointer, CreateStaging, Dedup, DropStaging,
     End, Fail, FinishCommit, FreeSlots, Goto, Identify, Idle, ListGenerations, Overtake,
     RemoveBroken, RenameStaging, ResolvePrior, Resolved, Reuse, Scan, SwapPointer, Sweep,
     Unlink, UnusedInodes, Write, WriteGraph, WriteManifest, WritePack, WritePointer
<1>c. SUFFICES Placed(b)'
  BY <1>b, <1>c DEF Typed, Placed, Staging
<1>1. CASE Scan(b)
  BY <1>a, <1>1 DEF Builds, Placed, Staging, Committing, Scan
<1>2. CASE ResolvePrior(b)
  BY <1>a, <1>2 DEF Builds, Placed, Staging, Committing, ResolvePrior, Resolved
<1>3. CASE Reuse(b)
  BY <1>a, <1>3 DEF Builds, Placed, Staging, Committing, Reuse, End, Idle
<1>4. CASE CreateStaging(b)
  BY <1>a, <1>4 DEF Builds, Placed, Staging, Committing, CreateStaging, FreeSlots
<1>5. CASE WritePack(b)
  BY <1>a, <1>5 DEF Builds, Placed, Staging, Committing, WritePack, Write, Goto
<1>6. CASE WriteGraph(b)
  BY <1>a, <1>6 DEF Builds, Placed, Staging, Committing, WriteGraph, Write, Goto
<1>7. CASE WriteManifest(b)
  BY <1>a, <1>7 DEF Builds, Placed, Staging, Committing, WriteManifest, Write, Goto
<1>8. CASE Identify(b)
  <2>1. PICK id \in Ids : build' = [build EXCEPT ![b].pc = "dedup", ![b].id = id]
    BY <1>8, IdGiven
  <2> QED
    BY <1>a, <1>8, <2>1 DEF Builds, Placed, Staging, Committing, Identify
<1>9. CASE Dedup(b)
  BY <1>a, <1>9 DEF Builds, Placed, Staging, Committing, Dedup, Goto
<1>10. CASE DropStaging(b)
  BY <1>a, <1>10 DEF Builds, Placed, Staging, Committing, DropStaging
<1>11. CASE RemoveBroken(b)
  BY <1>a, <1>11 DEF Builds, Placed, Staging, Committing, RemoveBroken, Goto
<1>12. CASE RenameStaging(b)
  BY <1>a, <1>12 DEF Builds, Placed, Staging, Committing, RenameStaging, CanRename
<1>13. CASE CreatePointer(b)
  <2>1. PICK i \in Inodes : build' = [build EXCEPT ![b].pc = "write", ![b].handle = i]
    BY <1>13, InodeTaken
  <2> QED
    BY <1>a, <1>13, <2>1 DEF Builds, Placed, Staging, Committing, CreatePointer
<1>14. CASE WritePointer(b)
  BY <1>a, <1>14 DEF Builds, Placed, Staging, Committing, WritePointer
<1>15. CASE SwapPointer(b)
  BY <1>a, <1>15 DEF Builds, Placed, Staging, Committing, SwapPointer, Goto, Overtake
<1>16. CASE ListGenerations(b)
  BY <1>a, <1>16 DEF Builds, Placed, Staging, Committing, ListGenerations
<1>17. CASE Sweep(b)
  BY <1>a, <1>17 DEF Builds, Placed, Staging, Committing, Sweep
<1>18. CASE Unlink(b)
  BY <1>a, <1>18 DEF Builds, Placed, Staging, Committing, Unlink
<1>19. CASE FinishCommit(b)
  BY <1>a, <1>19 DEF Builds, Placed, Staging, Committing, FinishCommit, End, Idle
<1>20. CASE Fail(b)
  BY <1>a, <1>20 DEF Builds, Placed, Staging, Committing, Fail, End, Idle
<1>21. CASE Crash(b)
  BY <1>a, <1>21 DEF Builds, Placed, Staging, Committing, Crash, End, Idle
<1> QED
  BY <1>1, <1>2, <1>3, <1>4, <1>5, <1>6, <1>7, <1>8, <1>9, <1>10, <1>11, <1>12, <1>13, <1>14,
     <1>15, <1>16, <1>17, <1>18, <1>19, <1>20, <1>21 DEF Proceed

\* Writing a part into a staging directory leaves a directory of parts.
LEMMA WrittenTo ==
  ASSUME Typed, NEW b \in Builders, Staging(b),
         NEW p \in Parts, NEW pc, Write(b, p, pc)
  PROVE  \E d \in SUBSET Parts :
           /\ d = {p} \union (IF dir[build[b].slot] = None THEN {} ELSE dir[build[b].slot])
           /\ dir' = [dir EXCEPT ![build[b].slot] = d]
<1>1. dir[build[b].slot] \in (SUBSET Parts) \union {None}
  BY Apart DEF Typed, TypeOK, Placed
<1> QED
  BY <1>1 DEF Write

\* One builder: two of them are the same.
LEMMA AloneMeansOne ==
  ASSUME NEW m \in Modes, Cardinality(m.builders) = 1
  PROVE  \A b, c \in m.builders : b = c
<1>1. IsFiniteSet(m.builders)
  BY ModeParts, FS_Subset, StoreAssumption
<1> QED
  BY <1>1, FS_Singleton

\* A step of a build leaves the other builds, the case and the tree alone.
LEMMA OthersStay ==
  ASSUME Typed, NEW b \in Builders, BuilderStep(b)
  PROVE  /\ mode' = mode /\ tree' = tree
         /\ \A c \in Builders : c # b => build'[c] = build[c]
         /\ b \in mode.builders /\ mode \in Modes
<1>1. mode' = mode /\ tree' = tree
  BY ZenonT(90) DEF Proceed, CanRename, Crash, CreatePointer, CreateStaging, Dedup, DropStaging, End, Fail,
     FinishCommit, FreeSlots, Goto, Identify, Idle, ListGenerations, Overtake, RemoveBroken,
     RenameStaging, ResolvePrior, Resolved, Reuse, Scan, SwapPointer, Sweep, Unlink,
     UnusedInodes, Write, WriteGraph, WriteManifest, WritePack, WritePointer
<1>2. ASSUME NEW c \in Builders, c # b PROVE build'[c] = build[c]
  BY <1>2, ZenonT(90) DEF Proceed, Typed, TypeOK, CanRename, Crash, CreatePointer, CreateStaging, Dedup,
     DropStaging, End, Fail, FinishCommit, FreeSlots, Goto, Identify, Idle, ListGenerations,
     Overtake, RemoveBroken, RenameStaging, ResolvePrior, Resolved, Reuse, Scan, SwapPointer,
     Sweep, Unlink, UnusedInodes, Write, WriteGraph, WriteManifest, WritePack, WritePointer
<1>3. b \in mode.builders /\ mode \in Modes
  BY DEF Proceed, Typed, TypeOK, Placed, CanRename, Crash, CreatePointer, CreateStaging, Dedup,
     DropStaging, End, Fail, FinishCommit, FreeSlots, Goto, Identify, Idle, ListGenerations,
     Overtake, RemoveBroken, RenameStaging, ResolvePrior, Resolved, Reuse, Scan, SwapPointer,
     Sweep, Unlink, UnusedInodes, Write, WriteGraph, WriteManifest, WritePack, WritePointer
<1> QED
  BY <1>1, <1>2, <1>3

\* A step of a build gives no two builds one staging directory.
LEMMA OwnSlotsStep ==
  ASSUME Typed, OwnSlots, NEW b \in Builders, BuilderStep(b)
  PROVE  OwnSlots'
<1>1. CASE CreateStaging(b)
  <2>1. PICK s \in FreeSlots : build' = [build EXCEPT ![b].pc = "pack", ![b].slot = s]
    BY <1>1, SlotTaken
  <2>2. s \in Slots /\ \A c \in Builders : s # build[c].slot
    BY <2>1 DEF FreeSlots
  <2>3. build'[b].slot = s /\ \A c \in Builders : c # b => build'[c] = build[c]
    BY <2>1 DEF Typed, TypeOK
  <2> QED
    BY <2>2, <2>3 DEF OwnSlots
<1>2. CASE ~CreateStaging(b)
  <2>1. build'[b].slot \in {build[b].slot, None}
    <3>a. build[b] \in Builds /\ build \in [Builders -> Builds]
      BY DEF Typed, TypeOK, Builds
    <3>1. CASE Scan(b)
      BY <3>a, <3>1 DEF Builds, Scan
    <3>2. CASE ResolvePrior(b)
      BY <3>a, <3>2 DEF Builds, ResolvePrior, Resolved
    <3>3. CASE Reuse(b)
      BY <3>a, <3>3 DEF Builds, Reuse, End, Idle
    <3>4. CASE WritePack(b)
      BY <3>a, <3>4 DEF Builds, WritePack, Write, Goto
    <3>5. CASE WriteGraph(b)
      BY <3>a, <3>5 DEF Builds, WriteGraph, Write, Goto
    <3>6. CASE WriteManifest(b)
      BY <3>a, <3>6 DEF Builds, WriteManifest, Write, Goto
    <3>7. CASE Identify(b)
      BY <3>a, <3>7 DEF Builds, Identify
    <3>8. CASE Dedup(b)
      BY <3>a, <3>8 DEF Builds, Dedup, Goto
    <3>9. CASE DropStaging(b)
      BY <3>a, <3>9 DEF Builds, DropStaging
    <3>10. CASE RemoveBroken(b)
      BY <3>a, <3>10 DEF Builds, RemoveBroken, Goto
    <3>11. CASE RenameStaging(b)
      BY <3>a, <3>11 DEF Builds, RenameStaging, CanRename
    <3>12. CASE CreatePointer(b)
      BY <3>a, <3>12 DEF Builds, CreatePointer, UnusedInodes
    <3>13. CASE WritePointer(b)
      BY <3>a, <3>13 DEF Builds, WritePointer
    <3>14. CASE SwapPointer(b)
      BY <3>a, <3>14 DEF Builds, SwapPointer, Goto, Overtake
    <3>15. CASE ListGenerations(b)
      BY <3>a, <3>15 DEF Builds, ListGenerations
    <3>16. CASE Sweep(b)
      BY <3>a, <3>16 DEF Builds, Sweep
    <3>17. CASE Unlink(b)
      BY <3>a, <3>17 DEF Builds, Unlink
    <3>18. CASE FinishCommit(b)
      BY <3>a, <3>18 DEF Builds, FinishCommit, End, Idle
    <3>19. CASE Fail(b)
      BY <3>a, <3>19 DEF Builds, Fail, End, Idle
    <3>20. CASE Crash(b)
      BY <3>a, <3>20 DEF Builds, Crash, End, Idle
    <3> QED
      BY <1>2, <3>1, <3>2, <3>3, <3>4, <3>5, <3>6, <3>7, <3>8, <3>9, <3>10, <3>11, <3>12, <3>13,
         <3>14, <3>15, <3>16, <3>17, <3>18, <3>19, <3>20 DEF Proceed
  <2> QED
    BY <2>1, OthersStay DEF OwnSlots
<1> QED
  BY <1>1, <1>2

\* A step of a build takes no staging directory from another build.
LEMMA GuardedStep ==
  ASSUME Typed, OwnSlots, \A c \in Builders : Guarded(c), Typed',
         NEW b \in Builders, BuilderStep(b)
  PROVE  \A c \in Builders : Guarded(c)'
<1> USE Apart DEF pointer
<1>a. /\ build \in [Builders -> Builds] /\ dir \in [Names -> (SUBSET Parts) \union {None}]
      /\ build[b] \in Builds /\ build' \in [Builders -> Builds]
      /\ Placed(b) /\ Guarded(b) /\ Placed(b)'
      /\ mode' = mode /\ Alone' = Alone
  BY OthersStay DEF Typed, TypeOK, Builds, Alone
<1>b. ASSUME NEW c \in Builders, c # b
      PROVE /\ build'[c] = build[c] /\ Guarded(c) /\ Placed(c)
            /\ Staging(c) => build[c].slot # build[b].slot /\ ~Alone /\ build[c].slot \in Slots
            /\ Alone => build[c].victim = None /\ build[c].pc = "idle"
  <2>1. /\ build'[c] = build[c] /\ Guarded(c) /\ Placed(c)
    BY <1>b, OthersStay DEF Typed
  <2>2. Alone => build[c].pc = "idle"
    BY <1>b, <2>1, OthersStay, AloneMeansOne DEF Placed, Alone
  <2> QED
    BY <1>b, <2>1, <2>2 DEF Placed, Staging, OwnSlots, Builds, Typed, TypeOK
<1>1. CASE Scan(b)
  <2>1. Guarded(b)'
    BY <1>a, <1>b, <1>1 DEF Builds, Placed, Staging, Guarded, Scan
  <2>2. ASSUME NEW c \in Builders, c # b, Staging(c), ~mode.slow
        PROVE  dir'[build[c].slot] # None /\ build[c].slot \in recent' /\ build'[b].victim # build[c].slot
    BY <1>a, <1>b, <1>1, <2>2, SMTT(60) DEF Builds, Placed, Staging, Guarded, Scan
  <2> QED
    BY <1>a, <1>b, <2>1, <2>2 DEF Guarded, Staging, Placed, Typed
<1>2. CASE ResolvePrior(b)
  <2>1. Guarded(b)'
    BY <1>a, <1>b, <1>2, SMTT(60) DEF Builds, Placed, Staging, Guarded, ResolvePrior, Resolved
  <2>2. ASSUME NEW c \in Builders, c # b, Staging(c), ~mode.slow
        PROVE  dir'[build[c].slot] # None /\ build[c].slot \in recent' /\ build'[b].victim # build[c].slot
    BY <1>a, <1>b, <1>2, <2>2 DEF Builds, Placed, Staging, Guarded, ResolvePrior, Resolved
  <2> QED
    BY <1>a, <1>b, <2>1, <2>2 DEF Guarded, Staging, Placed, Typed
<1>3. CASE Reuse(b)
  <2>1. Guarded(b)'
    BY <1>a, <1>b, <1>3 DEF Builds, Placed, Staging, Guarded, Reuse, End, Idle
  <2>2. ASSUME NEW c \in Builders, c # b, Staging(c), ~mode.slow
        PROVE  dir'[build[c].slot] # None /\ build[c].slot \in recent' /\ build'[b].victim # build[c].slot
    BY <1>a, <1>b, <1>3, <2>2 DEF Builds, Placed, Staging, Guarded, Reuse, End, Idle
  <2> QED
    BY <1>a, <1>b, <2>1, <2>2 DEF Guarded, Staging, Placed, Typed
<1>4. CASE CreateStaging(b)
  <2>a. PICK s \in FreeSlots : /\ dir' = [dir EXCEPT ![s] = {}] /\ recent' = recent \union {s}
                               /\ build' = [build EXCEPT ![b].pc = "pack", ![b].slot = s]
    BY <1>4, SlotTaken
  <2>1. Guarded(b)'
    BY <1>a, <1>b, <2>a, <1>4 DEF Builds, Placed, Staging, Guarded, FreeSlots
  <2>2. ASSUME NEW c \in Builders, c # b, Staging(c), ~mode.slow
        PROVE  dir'[build[c].slot] # None /\ build[c].slot \in recent' /\ build'[b].victim # build[c].slot
    BY <1>a, <1>b, <2>a, <1>4, <2>2 DEF Builds, Placed, Staging, Guarded, FreeSlots
  <2> QED
    BY <1>a, <1>b, <2>1, <2>2 DEF Guarded, Staging, Placed, Typed
<1>5. CASE WritePack(b)
  <2>a. PICK d \in SUBSET Parts : dir' = [dir EXCEPT ![build[b].slot] = d]
    BY <1>5, WrittenTo DEF WritePack, Staging, Parts
  <2>1. Guarded(b)'
    BY <1>a, <1>b, <2>a, <1>5 DEF Builds, Placed, Staging, Guarded, WritePack, Write, Goto
  <2>2. ASSUME NEW c \in Builders, c # b, Staging(c), ~mode.slow
        PROVE  dir'[build[c].slot] # None /\ build[c].slot \in recent' /\ build'[b].victim # build[c].slot
    BY <1>a, <1>b, <2>a, <1>5, <2>2 DEF Builds, Placed, Staging, Guarded, WritePack, Write, Goto
  <2> QED
    BY <1>a, <1>b, <2>1, <2>2 DEF Guarded, Staging, Placed, Typed
<1>6. CASE WriteGraph(b)
  <2>a. PICK d \in SUBSET Parts : dir' = [dir EXCEPT ![build[b].slot] = d]
    BY <1>6, WrittenTo DEF WriteGraph, Staging, Parts
  <2>1. Guarded(b)'
    BY <1>a, <1>b, <2>a, <1>6 DEF Builds, Placed, Staging, Guarded, WriteGraph, Write, Goto
  <2>2. ASSUME NEW c \in Builders, c # b, Staging(c), ~mode.slow
        PROVE  dir'[build[c].slot] # None /\ build[c].slot \in recent' /\ build'[b].victim # build[c].slot
    BY <1>a, <1>b, <2>a, <1>6, <2>2 DEF Builds, Placed, Staging, Guarded, WriteGraph, Write, Goto
  <2> QED
    BY <1>a, <1>b, <2>1, <2>2 DEF Guarded, Staging, Placed, Typed
<1>7. CASE WriteManifest(b)
  <2>a. PICK d \in SUBSET Parts : dir' = [dir EXCEPT ![build[b].slot] = d]
    BY <1>7, WrittenTo DEF WriteManifest, Staging, Parts
  <2>1. Guarded(b)'
    BY <1>a, <1>b, <2>a, <1>7 DEF Builds, Placed, Staging, Guarded, WriteManifest, Write, Goto
  <2>2. ASSUME NEW c \in Builders, c # b, Staging(c), ~mode.slow
        PROVE  dir'[build[c].slot] # None /\ build[c].slot \in recent' /\ build'[b].victim # build[c].slot
    BY <1>a, <1>b, <2>a, <1>7, <2>2, SMTT(60) DEF Builds, Placed, Staging, Guarded, WriteManifest, Write, Goto
  <2> QED
    BY <1>a, <1>b, <2>1, <2>2 DEF Guarded, Staging, Placed, Typed
<1>8. CASE Identify(b)
  <2>1. Guarded(b)'
    BY <1>a, <1>b, <1>8, SMTT(60) DEF Builds, Placed, Staging, Guarded, Identify
  <2>2. ASSUME NEW c \in Builders, c # b, Staging(c), ~mode.slow
        PROVE  dir'[build[c].slot] # None /\ build[c].slot \in recent' /\ build'[b].victim # build[c].slot
    BY <1>a, <1>b, <1>8, <2>2, SMTT(60) DEF Builds, Placed, Staging, Guarded, Identify
  <2> QED
    BY <1>a, <1>b, <2>1, <2>2 DEF Guarded, Staging, Placed, Typed
<1>9. CASE Dedup(b)
  <2>a. PICK pc \in {"rename", "drop", "replace"} : build' = [build EXCEPT ![b].pc = pc]
    BY <1>9 DEF Dedup, Goto
  <2>b. build[b].pc = "dedup" /\ UNCHANGED <<dir, recent>>
    BY <1>9 DEF Dedup
  <2>1. Guarded(b)'
    BY <1>a, <1>b, <2>a, <2>b, <1>9 DEF Builds, Placed, Staging, Guarded, Goto
  <2>2. ASSUME NEW c \in Builders, c # b, Staging(c), ~mode.slow
        PROVE  dir'[build[c].slot] # None /\ build[c].slot \in recent' /\ build'[b].victim # build[c].slot
    BY <1>a, <1>b, <2>a, <2>b, <1>9, <2>2, SMTT(60) DEF Builds, Placed, Staging, Guarded, Goto
  <2> QED
    BY <1>a, <1>b, <2>1, <2>2 DEF Guarded, Staging, Placed, Typed
<1>10. CASE DropStaging(b)
  <2>1. Guarded(b)'
    BY <1>a, <1>b, <1>10 DEF Builds, Placed, Staging, Guarded, DropStaging
  <2>2. ASSUME NEW c \in Builders, c # b, Staging(c), ~mode.slow
        PROVE  dir'[build[c].slot] # None /\ build[c].slot \in recent' /\ build'[b].victim # build[c].slot
    BY <1>a, <1>b, <1>10, <2>2 DEF Builds, Placed, Staging, Guarded, DropStaging
  <2> QED
    BY <1>a, <1>b, <2>1, <2>2 DEF Guarded, Staging, Placed, Typed
<1>11. CASE RemoveBroken(b)
  <2>1. Guarded(b)'
    BY <1>a, <1>b, <1>11 DEF Builds, Placed, Staging, Guarded, RemoveBroken, Goto
  <2>2. ASSUME NEW c \in Builders, c # b, Staging(c), ~mode.slow
        PROVE  dir'[build[c].slot] # None /\ build[c].slot \in recent' /\ build'[b].victim # build[c].slot
    BY <1>a, <1>b, <1>11, <2>2, SMTT(60) DEF Builds, Placed, Staging, Guarded, RemoveBroken, Goto
  <2> QED
    BY <1>a, <1>b, <2>1, <2>2 DEF Guarded, Staging, Placed, Typed
<1>12. CASE RenameStaging(b)
  <2>1. Guarded(b)'
    BY <1>a, <1>b, <1>12 DEF Builds, Placed, Staging, Guarded, RenameStaging, CanRename
  <2>2. ASSUME NEW c \in Builders, c # b, Staging(c), ~mode.slow
        PROVE  dir'[build[c].slot] # None /\ build[c].slot \in recent' /\ build'[b].victim # build[c].slot
    BY <1>a, <1>b, <1>12, <2>2 DEF Builds, Placed, Staging, Guarded, RenameStaging, CanRename
  <2> QED
    BY <1>a, <1>b, <2>1, <2>2 DEF Guarded, Staging, Placed, Typed
<1>13. CASE CreatePointer(b)
  <2>a. PICK i \in Inodes : build' = [build EXCEPT ![b].pc = "write", ![b].handle = i]
    BY <1>13, InodeTaken
  <2>1. Guarded(b)'
    BY <1>a, <1>b, <2>a, <1>13 DEF Builds, Placed, Staging, Guarded, CreatePointer, UnusedInodes
  <2>2. ASSUME NEW c \in Builders, c # b, Staging(c), ~mode.slow
        PROVE  dir'[build[c].slot] # None /\ build[c].slot \in recent' /\ build'[b].victim # build[c].slot
    BY <1>a, <1>b, <2>a, <1>13, <2>2 DEF Builds, Placed, Staging, Guarded, CreatePointer,
       UnusedInodes
  <2> QED
    BY <1>a, <1>b, <2>1, <2>2 DEF Guarded, Staging, Placed, Typed
<1>14. CASE WritePointer(b)
  <2>1. Guarded(b)'
    BY <1>a, <1>b, <1>14 DEF Builds, Placed, Staging, Guarded, WritePointer
  <2>2. ASSUME NEW c \in Builders, c # b, Staging(c), ~mode.slow
        PROVE  dir'[build[c].slot] # None /\ build[c].slot \in recent' /\ build'[b].victim # build[c].slot
    BY <1>a, <1>b, <1>14, <2>2 DEF Builds, Placed, Staging, Guarded, WritePointer
  <2> QED
    BY <1>a, <1>b, <2>1, <2>2 DEF Guarded, Staging, Placed, Typed
<1>15. CASE SwapPointer(b)
  <2>1. Guarded(b)'
    BY <1>a, <1>b, <1>15 DEF Builds, Placed, Staging, Guarded, SwapPointer, Goto, Overtake
  <2>2. ASSUME NEW c \in Builders, c # b, Staging(c), ~mode.slow
        PROVE  dir'[build[c].slot] # None /\ build[c].slot \in recent' /\ build'[b].victim # build[c].slot
    BY <1>a, <1>b, <1>15, <2>2 DEF Builds, Placed, Staging, Guarded, SwapPointer, Goto, Overtake
  <2> QED
    BY <1>a, <1>b, <2>1, <2>2 DEF Guarded, Staging, Placed, Typed
<1>16. CASE ListGenerations(b)
  <2>a. PICK d \in SUBSET Names : build' = [build EXCEPT ![b].pc = "sweep", ![b].todo = d]
    BY <1>16 DEF ListGenerations
  <2>b. build[b].pc = "list" /\ UNCHANGED <<dir, recent>>
    BY <1>16 DEF ListGenerations
  <2>1. Guarded(b)'
    BY <1>a, <1>b, <2>a, <2>b, <1>16 DEF Builds, Placed, Staging, Guarded, Goto
  <2>2. ASSUME NEW c \in Builders, c # b, Staging(c), ~mode.slow
        PROVE  dir'[build[c].slot] # None /\ build[c].slot \in recent' /\ build'[b].victim # build[c].slot
    BY <1>a, <1>b, <2>a, <2>b, <1>16, <2>2, SMTT(60) DEF Builds, Placed, Staging, Guarded, Goto
  <2> QED
    BY <1>a, <1>b, <2>1, <2>2 DEF Guarded, Staging, Placed, Typed
<1>17. CASE Sweep(b)
  <2>1. Guarded(b)'
    BY <1>a, <1>b, <1>17, SMTT(60) DEF Builds, Placed, Staging, Guarded, Sweep
  <2>2. ASSUME NEW c \in Builders, c # b, Staging(c), ~mode.slow
        PROVE  dir'[build[c].slot] # None /\ build[c].slot \in recent' /\ build'[b].victim # build[c].slot
    BY <1>a, <1>b, <1>17, <2>2, SMTT(60) DEF Builds, Placed, Staging, Guarded, Sweep
  <2> QED
    BY <1>a, <1>b, <2>1, <2>2 DEF Guarded, Staging, Placed, Typed
<1>18. CASE Unlink(b)
  <2>1. Guarded(b)'
    BY <1>a, <1>b, <1>18 DEF Builds, Placed, Staging, Guarded, Unlink
  <2>2. ASSUME NEW c \in Builders, c # b, Staging(c), ~mode.slow
        PROVE  dir'[build[c].slot] # None /\ build[c].slot \in recent' /\ build'[b].victim # build[c].slot
    BY <1>a, <1>b, <1>18, <2>2 DEF Builds, Placed, Staging, Guarded, Unlink
  <2> QED
    BY <1>a, <1>b, <2>1, <2>2 DEF Guarded, Staging, Placed, Typed
<1>19. CASE FinishCommit(b)
  <2>1. Guarded(b)'
    BY <1>a, <1>b, <1>19 DEF Builds, Placed, Staging, Guarded, FinishCommit, End, Idle
  <2>2. ASSUME NEW c \in Builders, c # b, Staging(c), ~mode.slow
        PROVE  dir'[build[c].slot] # None /\ build[c].slot \in recent' /\ build'[b].victim # build[c].slot
    BY <1>a, <1>b, <1>19, <2>2 DEF Builds, Placed, Staging, Guarded, FinishCommit, End, Idle
  <2> QED
    BY <1>a, <1>b, <2>1, <2>2 DEF Guarded, Staging, Placed, Typed
<1>20. CASE Fail(b)
  <2>1. Guarded(b)'
    BY <1>a, <1>b, <1>20 DEF Builds, Placed, Staging, Guarded, Fail, End, Idle
  <2>2. ASSUME NEW c \in Builders, c # b, Staging(c), ~mode.slow
        PROVE  dir'[build[c].slot] # None /\ build[c].slot \in recent' /\ build'[b].victim # build[c].slot
    BY <1>a, <1>b, <1>20, <2>2 DEF Builds, Placed, Staging, Guarded, Fail, End, Idle
  <2> QED
    BY <1>a, <1>b, <2>1, <2>2 DEF Guarded, Staging, Placed, Typed
<1>21. CASE Crash(b)
  <2>1. Guarded(b)'
    BY <1>a, <1>b, <1>21 DEF Builds, Placed, Staging, Guarded, Crash, End, Idle
  <2>2. ASSUME NEW c \in Builders, c # b, Staging(c), ~mode.slow
        PROVE  dir'[build[c].slot] # None /\ build[c].slot \in recent' /\ build'[b].victim # build[c].slot
    BY <1>a, <1>b, <1>21, <2>2 DEF Builds, Placed, Staging, Guarded, Crash, End, Idle
  <2> QED
    BY <1>a, <1>b, <2>1, <2>2 DEF Guarded, Staging, Placed, Typed
<1> QED
  BY <1>1, <1>2, <1>3, <1>4, <1>5, <1>6, <1>7, <1>8, <1>9, <1>10, <1>11, <1>12, <1>13, <1>14,
     <1>15, <1>16, <1>17, <1>18, <1>19, <1>20, <1>21 DEF Proceed

\* Complete generations are generations.
LEMMA CompleteIds == Complete \subseteq Ids
BY DEF Complete, Ids

\* The step of a build on its own keeps every complete generation but the one it is
\* deleting: a broken generation is replaced only when it is not complete.
LEMMA CompleteStays ==
  ASSUME Typed, NEW b \in Builders, BuilderStep(b), Advances(b),
         NEW n \in Ids, Has(n), n # build[b].victim
  PROVE  Has(n)'
<1> USE Apart DEF pointer
<1>a. /\ build \in [Builders -> Builds] /\ dir \in [Names -> (SUBSET Parts) \union {None}]
      /\ build[b] \in Builds /\ Placed(b) /\ (Staging(b) => build[b].slot \in Slots)
      /\ build[b].slot # None => build[b].slot # n
  BY DEF Typed, TypeOK, Builds, Placed
<1>b. SUFFICES dir'[n] = dir[n] \/ (dir[n] # None /\ Parts \subseteq dir'[n] /\ dir'[n] # None)
  BY DEF Has
<1>1. CASE Scan(b)
  BY <1>a, <1>1 DEF Builds, Placed, Staging, Advances, Committing, Has, Scan
<1>2. CASE ResolvePrior(b)
  BY <1>a, <1>2 DEF Builds, Placed, Staging, Advances, Committing, Has, ResolvePrior, Resolved
<1>3. CASE Reuse(b)
  BY <1>a, <1>3 DEF Builds, Placed, Staging, Advances, Committing, Has, Reuse, End, Idle
<1>4. CASE CreateStaging(b)
  <2>1. PICK s \in FreeSlots : dir' = [dir EXCEPT ![s] = {}]
    BY <1>4, SlotTaken
  <2> QED
    BY <1>a, <2>1 DEF FreeSlots
<1>5. CASE WritePack(b)
  BY <1>a, <1>5 DEF Builds, Placed, Staging, Advances, Committing, Has, WritePack, Write, Goto
<1>6. CASE WriteGraph(b)
  BY <1>a, <1>6 DEF Builds, Placed, Staging, Advances, Committing, Has, WriteGraph, Write, Goto
<1>7. CASE WriteManifest(b)
  BY <1>a, <1>7 DEF Builds, Placed, Staging, Advances, Committing, Has, WriteManifest, Write, Goto
<1>8. CASE Identify(b)
  BY <1>a, <1>8 DEF Builds, Placed, Staging, Advances, Committing, Has, Identify
<1>9. CASE Dedup(b)
  BY <1>a, <1>9 DEF Builds, Placed, Staging, Advances, Committing, Has, Dedup, Goto
<1>10. CASE DropStaging(b)
  BY <1>a, <1>10 DEF Builds, Placed, Staging, Advances, Committing, Has, DropStaging
<1>11. CASE RemoveBroken(b)
  BY <1>a, <1>11 DEF Builds, Placed, Staging, Advances, Committing, Has, RemoveBroken, Goto
<1>12. CASE RenameStaging(b)
  BY <1>a, <1>12 DEF Builds, Placed, Staging, Advances, Committing, Has, RenameStaging, CanRename
<1>13. CASE CreatePointer(b)
  BY <1>a, <1>13 DEF Builds, Placed, Staging, Advances, Committing, Has, CreatePointer, UnusedInodes
<1>14. CASE WritePointer(b)
  BY <1>a, <1>14 DEF Builds, Placed, Staging, Advances, Committing, Has, WritePointer
<1>15. CASE SwapPointer(b)
  BY <1>a, <1>15 DEF Builds, Placed, Staging, Advances, Committing, Has, SwapPointer, Goto, Overtake
<1>16. CASE ListGenerations(b)
  BY <1>a, <1>16 DEF Builds, Placed, Staging, Advances, Committing, Has, ListGenerations
<1>17. CASE Sweep(b)
  BY <1>a, <1>17 DEF Builds, Placed, Staging, Advances, Committing, Has, Sweep
<1>18. CASE Unlink(b)
  BY <1>a, <1>18 DEF Builds, Placed, Staging, Advances, Committing, Has, Unlink
<1>19. CASE FinishCommit(b)
  BY <1>a, <1>19 DEF Builds, Placed, Staging, Advances, Committing, Has, FinishCommit, End, Idle
<1>20. CASE Fail(b)
  BY <1>a, <1>20 DEF Builds, Placed, Staging, Advances, Committing, Has, Fail, End, Idle
<1>21. CASE Crash(b)
  BY <1>a, <1>21 DEF Builds, Placed, Staging, Advances, Committing, Has, Crash, End, Idle
<1> QED
  BY <1>1, <1>2, <1>3, <1>4, <1>5, <1>6, <1>7, <1>8, <1>9, <1>10, <1>11, <1>12, <1>13, <1>14,
     <1>15, <1>16, <1>17, <1>18, <1>19, <1>20, <1>21 DEF Proceed

\* Only the commit changes what CURRENT says.
LEMMA PointerStep ==
  ASSUME Typed, NEW b \in Builders, BuilderStep(b), Advances(b)
  PROVE  \/ SwapPointer(b) /\ current' # None /\ Target' = build[b].id /\ content'[current'] = build[b].id
         \/ ~SwapPointer(b) /\ current' = current /\ Target' = Target /\ (current # None => content'[current] = content[current])
<1> USE Apart DEF pointer
<1>1. CASE SwapPointer(b)
  BY <1>1 DEF SwapPointer, Goto, Target, Advances, Typed, TypeOK, Builds
<1>2. CASE CreatePointer(b)
  <2>1. PICK i \in Inodes : i # current /\ content' = [content EXCEPT ![i] = Torn]
    BY <1>2, InodeTaken
  <2>2. current' = current /\ current \in Inodes \union {None} /\ content \in [Inodes -> Ids \union {Torn}]
    BY <1>2 DEF CreatePointer, Typed, TypeOK
  <2>3. current # None => content'[current] = content[current]
    BY <2>1, <2>2
  <2>4. ~SwapPointer(b)
    BY <1>2 DEF CreatePointer, SwapPointer
  <2> QED
    BY <2>2, <2>3, <2>4 DEF Target
<1>3. CASE WritePointer(b)
  BY <1>3 DEF WritePointer, Target, Typed, TypeOK, SwapPointer, Advances
<1>4. CASE ~SwapPointer(b) /\ ~CreatePointer(b) /\ ~WritePointer(b)
  <2>1. UNCHANGED pointer
    BY <1>4 DEF Proceed, CanRename, Crash, CreateStaging, Dedup, DropStaging, End, Fail,
       FinishCommit, FreeSlots, Goto, Identify, Idle, ListGenerations, RemoveBroken,
       RenameStaging, ResolvePrior, Resolved, Reuse, Scan, Sweep, Unlink, Write, WriteGraph,
       WriteManifest, WritePack
  <2> QED
    BY <1>4, <2>1, SMTT(60) DEF Target
<1> QED
  BY <1>1, <1>2, <1>3, <1>4

\* The step of a build on its own leaves CURRENT naming a complete generation.
LEMMA NamedStep ==
  ASSUME Typed, NEW b \in Builders, BuilderStep(b), Advances(b), Named
  PROVE  Named'
<1>1. CASE SwapPointer(b)
  <2>1. build[b].id \in Complete /\ Has(build[b].id) /\ build[b].victim = None
    BY <1>1 DEF SwapPointer, Advances, Committing, Typed, Placed
  <2>2. build[b].id \in Ids /\ build[b].id # build[b].victim
    BY <2>1, CompleteIds, Apart DEF Names
  <2>3. PICK n \in Ids : n = build[b].id
    BY <2>2
  <2>6. Has(n)'
    BY <2>1, <2>2, <2>3, CompleteStays
  <2>4. content'[current'] = build[b].id /\ build'[b].id = build[b].id
    BY <1>1, PointerStep DEF SwapPointer, Goto, Typed, TypeOK, Builds
  <2>5. dir'[build[b].id] # None /\ Parts \subseteq dir'[build[b].id]
    BY <2>3, <2>6 DEF Has
  <2> QED
    BY <2>1, <2>4, <2>5 DEF Named, Has
<1>2. CASE ~SwapPointer(b) /\ current # None
  <2>1. content[current] # build[b].victim
    BY <1>2, Apart, CompleteIds DEF Advances, Typed, Placed, Named, Names
  <2>2. PICK n \in Complete : n = content[current]
    BY <1>2 DEF Named
  <2>3. Has(n)'
    BY <1>2, <2>1, <2>2, CompleteStays, CompleteIds DEF Named
  <2> QED
    BY <1>2, <2>2, <2>3, PointerStep DEF Named, Has
<1>3. CASE ~SwapPointer(b) /\ current = None
  BY <1>3, PointerStep DEF Named
<1> QED
  BY <1>1, <1>2, <1>3

\* The step of a build on its own keeps what it has staged, identified and spared.
LEMMA AdvancesStep ==
  ASSUME Typed, Typed', NEW b \in Builders, BuilderStep(b), Advances(b), Named,
         Staging(b) => Exists(build[b].slot)
  PROVE  Advances(b)'
<1> USE Apart DEF pointer
<1>a. /\ build \in [Builders -> Builds] /\ dir \in [Names -> (SUBSET Parts) \union {None}]
      /\ build[b] \in Builds /\ Placed(b) /\ (Staging(b) => build[b].slot \in Slots)
      /\ current \in Inodes \union {None} /\ tmp \in Inodes \union {None}
      /\ (current # None => current # tmp)
      /\ content \in [Inodes -> Ids \union {Torn}]
      /\ \A id \in Complete : id \in Ids
  BY CompleteIds DEF Typed, TypeOK, Builds, Placed
<1>b. Resolved = Target
  BY <1>a DEF Resolved, Target, Named, Has
<1>1. CASE Scan(b)
  <2> QED
    BY <1>a, <1>b, <1>1 DEF Builds, Placed, Staging, Advances, Committing, Has, Target, Scan
<1>2. CASE ResolvePrior(b)
  <2> QED
    BY <1>a, <1>b, <1>2 DEF Builds, Placed, Staging, Advances, Committing, Has, Target,
       ResolvePrior, Resolved
<1>3. CASE Reuse(b)
  <2> QED
    BY <1>a, <1>b, <1>3 DEF Builds, Placed, Staging, Advances, Committing, Has, Target, Reuse,
       End, Idle
<1>4. CASE CreateStaging(b)
  <2>a. PICK s \in FreeSlots : /\ dir' = [dir EXCEPT ![s] = {}]
                               /\ build' = [build EXCEPT ![b].pc = "pack", ![b].slot = s]
    BY <1>4, SlotTaken
  <2> QED
    BY <1>a, <1>b, <2>a, <1>4 DEF Builds, Placed, Staging, Advances, Committing, Has, Target,
       CreateStaging, FreeSlots, Written
<1>5. CASE WritePack(b)
  <2>a. PICK d \in SUBSET Parts :
           /\ d = {"pack"} \union (IF dir[build[b].slot] = None THEN {} ELSE dir[build[b].slot])
           /\ dir' = [dir EXCEPT ![build[b].slot] = d]
    BY <1>5, WrittenTo DEF WritePack, Staging, Parts
  <2> QED
    BY <1>a, <1>b, <2>a, <1>5 DEF Builds, Placed, Staging, Advances, Committing, Has, Target,
       WritePack, Write, Goto, Written, Parts
<1>6. CASE WriteGraph(b)
  <2>a. PICK d \in SUBSET Parts :
           /\ d = {"graph"} \union (IF dir[build[b].slot] = None THEN {} ELSE dir[build[b].slot])
           /\ dir' = [dir EXCEPT ![build[b].slot] = d]
    BY <1>6, WrittenTo DEF WriteGraph, Staging, Parts
  <2> QED
    BY <1>a, <1>b, <2>a, <1>6 DEF Builds, Placed, Staging, Advances, Committing, Has, Target,
       WriteGraph, Write, Goto, Written, Parts
<1>7. CASE WriteManifest(b)
  <2>a. PICK d \in SUBSET Parts :
           /\ d = {"manifest"} \union (IF dir[build[b].slot] = None THEN {} ELSE dir[build[b].slot])
           /\ dir' = [dir EXCEPT ![build[b].slot] = d]
    BY <1>7, WrittenTo DEF WriteManifest, Staging, Parts
  <2> QED
    BY <1>a, <1>b, <2>a, <1>7 DEF Builds, Placed, Staging, Advances, Committing, Has, Target,
       WriteManifest, Write, Goto, Written, Parts
<1>8. CASE Identify(b)
  <2>a. PICK id \in Ids : /\ id = <<build[b].tree, dir[build[b].slot]>>
           /\ build' = [build EXCEPT ![b].pc = "dedup", ![b].id = id]
    BY <1>8, IdGiven
  <2>b. id \in Complete
    BY <1>a, <1>8, <2>a DEF Identify, Advances, Staging, Written, Complete, Placed
  <2> QED
    BY <1>a, <1>b, <2>a, <2>b, <1>8 DEF Builds, Placed, Staging, Advances, Committing, Has,
       Target, Identify, Written
<1>9. CASE Dedup(b)
  <2>a. PICK pc \in {"rename", "drop", "replace"} :
           /\ build' = [build EXCEPT ![b].pc = pc]
           /\ pc = "rename" => ~Exists(build[b].id)
           /\ pc = "drop" => Exists(build[b].id) /\ dir[build[b].slot] \subseteq dir[build[b].id]
           /\ pc = "replace" => ~(dir[build[b].slot] \subseteq dir[build[b].id])
    BY <1>9 DEF Dedup, Goto, Staging
  <2>b. build[b].pc = "dedup" /\ UNCHANGED <<dir, pointer>> /\ dir[build[b].slot] = Parts
    BY <1>9 DEF Dedup, Advances, Staging, Written
  <2>c. build'[b] = [build[b] EXCEPT !.pc = pc] /\ Target' = Target
    BY <1>a, <2>a, <2>b DEF Target
  <2>1. /\ build'[b].pc = pc /\ build'[b].slot = build[b].slot /\ build'[b].id = build[b].id
        /\ build'[b].prior = build[b].prior /\ build'[b].victim = build[b].victim
    BY <1>a, <2>c DEF Builds
  <2>2. pc = "drop" => Has(build[b].id)
    BY <2>a, <2>b DEF Has
  <2>3. pc = "replace" => ~Has(build[b].id)
    BY <2>a, <2>b DEF Has
  <2>4. Has(build[b].id)' <=> Has(build[b].id)
    BY <2>b, <2>1 DEF Has
  <2>5. /\ build[b].prior = Target /\ build[b].id \in Complete
        /\ build[b].victim # None => build[b].victim # build[b].id /\ build[b].victim # build[b].prior
    BY <2>b DEF Advances, Committing
  <2> QED
    BY <2>a, <2>b, <2>c, <2>1, <2>2, <2>3, <2>4, <2>5 DEF Advances, Staging, Committing, Written
<1>10. CASE DropStaging(b)
  <2> QED
    BY <1>a, <1>b, <1>10 DEF Builds, Placed, Staging, Advances, Committing, Has, Target, DropStaging
<1>11. CASE RemoveBroken(b)
  <2>a. /\ dir' = [dir EXCEPT ![build[b].id] = None]
        /\ build[b].pc = "replace" /\ build'[b] = [build[b] EXCEPT !.pc = "rename"] /\ UNCHANGED pointer
    BY <1>a, <1>11 DEF RemoveBroken, Goto
  <2>b. build[b].id \in Ids /\ build[b].slot # build[b].id /\ dir[build[b].slot] = Parts
    BY <1>a, <2>a DEF Advances, Placed, Committing, Staging, Written
  <2> QED
    BY <1>a, <1>b, <2>a, <2>b DEF Builds, Placed, Staging, Advances, Committing, Has, Target,
       Written
<1>12. CASE RenameStaging(b)
  <2> QED
    BY <1>a, <1>b, <1>12 DEF Builds, Placed, Staging, Advances, Committing, Has, Target,
       RenameStaging, CanRename
<1>13. CASE CreatePointer(b)
  <2>a. PICK i \in Inodes : /\ i # current /\ tmp' = i /\ content' = [content EXCEPT ![i] = Torn]
           /\ build' = [build EXCEPT ![b].pc = "write", ![b].handle = i]
    BY <1>13, InodeTaken
  <2> QED
    BY <1>a, <1>b, <2>a, <1>13 DEF Builds, Placed, Staging, Advances, Committing, Has, Target,
       CreatePointer, UnusedInodes
<1>14. CASE WritePointer(b)
  <2> QED
    BY <1>a, <1>b, <1>14 DEF Builds, Placed, Staging, Advances, Committing, Has, Target,
       WritePointer
<1>15. CASE SwapPointer(b)
  <2> QED
    BY <1>a, <1>b, <1>15 DEF Builds, Placed, Staging, Advances, Committing, Has, Target,
       SwapPointer, Goto, Overtake
<1>16. CASE ListGenerations(b)
  <2>a. PICK d \in SUBSET Names :
           /\ build[b].id \notin d /\ build[b].prior \notin d
           /\ build' = [build EXCEPT ![b].pc = "sweep", ![b].todo = d]
    <3>1. PICK d : d = {n \in Names : Exists(n)} \ {build[b].id, build[b].prior}
      OBVIOUS
    <3> QED
      BY <1>16, <3>1 DEF ListGenerations
  <2>b. build[b].pc = "list" /\ UNCHANGED <<dir, pointer>>
    BY <1>16 DEF ListGenerations
  <2> QED
    BY <1>a, <1>b, <2>a, <2>b DEF Builds, Placed, Staging, Advances, Committing, Has, Target,
       Written
<1>17. CASE Sweep(b)
  <2> QED
    BY <1>a, <1>b, <1>17 DEF Builds, Placed, Staging, Advances, Committing, Has, Target, Sweep
<1>18. CASE Unlink(b)
  <2>a. PICK n \in Names : n = build[b].victim /\ n # None /\ build[b].pc = "sweep"
    BY <1>a, <1>18 DEF Unlink, Builds, Placed
  <2>b. build' = build \/ build' = [build EXCEPT ![b].victim = None]
    BY <1>18 DEF Unlink
  <2>c. UNCHANGED pointer
    BY <1>18 DEF Unlink
  <2> QED
    BY <1>a, <1>b, <2>a, <2>b, <2>c DEF Builds, Placed, Staging, Advances, Committing, Has,
       Target, Written
<1>19. CASE FinishCommit(b)
  <2> QED
    BY <1>a, <1>b, <1>19 DEF Builds, Placed, Staging, Advances, Committing, Has, Target,
       FinishCommit, End, Idle
<1>20. CASE Fail(b)
  <2> QED
    BY <1>a, <1>b, <1>20 DEF Builds, Placed, Staging, Advances, Committing, Has, Target, Fail,
       End, Idle
<1>21. CASE Crash(b)
  <2> QED
    BY <1>a, <1>b, <1>21 DEF Builds, Placed, Staging, Advances, Committing, Has, Target, Crash,
       End, Idle
<1> QED
  BY <1>1, <1>2, <1>3, <1>4, <1>5, <1>6, <1>7, <1>8, <1>9, <1>10, <1>11, <1>12, <1>13, <1>14,
     <1>15, <1>16, <1>17, <1>18, <1>19, <1>20, <1>21 DEF Proceed

\* The fields of a reader.
LEMMA ReaderFields ==
  ASSUME Typed, NEW r \in Readers
  PROVE  reader \in [Readers -> Readings] /\ reader[r] \in Readings
BY DEF Typed, TypeOK, Readings

\* A commit overtakes the readers that are open.
LEMMA ReadersBySwap ==
  ASSUME Typed, NEW b \in Builders, SwapPointer(b), NEW r \in Readers
  PROVE  /\ reader'[r].pc = reader[r].pc /\ reader'[r].graph = reader[r].graph
         /\ reader'[r].side = reader[r].side
         /\ reader'[r].behind = IF Open(r) /\ reader[r].behind < 2 THEN reader[r].behind + 1
                                ELSE reader[r].behind
BY ReaderFields, SMTT(60) DEF SwapPointer, Overtake, Open, Readings

\* No other step of a build touches a reader.
LEMMA ReadersByOther ==
  ASSUME NEW b \in Builders, BuilderStep(b), ~SwapPointer(b)
  PROVE  reader' = reader
BY DEF Proceed, CanRename, Crash, CreatePointer, CreateStaging, Dedup, DropStaging, End, Fail,
   FinishCommit, FreeSlots, Goto, Identify, Idle, ListGenerations, RemoveBroken, RenameStaging,
   ResolvePrior, Resolved, Reuse, Scan, Sweep, Unlink, UnusedInodes, Write, WriteGraph,
   WriteManifest, WritePack, WritePointer

\* A step of a build keeps Reads.
LEMMA ReadsStep ==
  ASSUME Typed, NEW b \in Builders, BuilderStep(b), NEW r \in Readers, Reads(r)
  PROVE  Reads(r)'
<1>1. CASE SwapPointer(b)
  BY <1>1, ReadersBySwap, OthersStay DEF Reads, Open
<1>2. CASE ~SwapPointer(b)
  BY <1>2, ReadersByOther, OthersStay DEF Reads
<1> QED
  BY <1>1, <1>2

\* A garbage collection keeps the two generations it spares.
LEMMA StaysListed ==
  ASSUME Typed, NEW b \in Builders, BuilderStep(b), ~SwapPointer(b)
  PROVE  build'[b].pc \in {"list", "sweep"} =>
           /\ build[b].pc \in {"list", "sweep"}
           /\ build'[b].id = build[b].id /\ build'[b].prior = build[b].prior
<1>a. build[b] \in Builds /\ build \in [Builders -> Builds]
  BY DEF Typed, TypeOK, Builds
<1>1. CASE Scan(b)
  BY <1>a, <1>1 DEF Builds, Scan
<1>2. CASE ResolvePrior(b)
  BY <1>a, <1>2 DEF Builds, ResolvePrior, Resolved
<1>3. CASE Reuse(b)
  BY <1>a, <1>3 DEF Builds, Reuse, End, Idle
<1>4. CASE CreateStaging(b)
  BY <1>a, <1>4 DEF Builds, CreateStaging, FreeSlots
<1>5. CASE WritePack(b)
  BY <1>a, <1>5 DEF Builds, WritePack, Write, Goto
<1>6. CASE WriteGraph(b)
  BY <1>a, <1>6 DEF Builds, WriteGraph, Write, Goto
<1>7. CASE WriteManifest(b)
  BY <1>a, <1>7 DEF Builds, WriteManifest, Write, Goto
<1>8. CASE Identify(b)
  BY <1>a, <1>8 DEF Builds, Identify
<1>9. CASE Dedup(b)
  BY <1>a, <1>9 DEF Builds, Dedup, Goto
<1>10. CASE DropStaging(b)
  BY <1>a, <1>10 DEF Builds, DropStaging
<1>11. CASE RemoveBroken(b)
  BY <1>a, <1>11 DEF Builds, RemoveBroken, Goto
<1>12. CASE RenameStaging(b)
  BY <1>a, <1>12 DEF Builds, RenameStaging, CanRename
<1>13. CASE CreatePointer(b)
  BY <1>a, <1>13 DEF Builds, CreatePointer, UnusedInodes
<1>14. CASE WritePointer(b)
  BY <1>a, <1>14 DEF Builds, WritePointer
<1>15. CASE ListGenerations(b)
  BY <1>a, <1>15 DEF Builds, ListGenerations
<1>16. CASE Sweep(b)
  BY <1>a, <1>16 DEF Builds, Sweep
<1>17. CASE Unlink(b)
  BY <1>a, <1>17 DEF Builds, Unlink
<1>18. CASE FinishCommit(b)
  BY <1>a, <1>18 DEF Builds, FinishCommit, End, Idle
<1>19. CASE Fail(b)
  BY <1>a, <1>19 DEF Builds, Fail, End, Idle
<1>20. CASE Crash(b)
  BY <1>a, <1>20 DEF Builds, Crash, End, Idle
<1> QED
  BY <1>1, <1>2, <1>3, <1>4, <1>5, <1>6, <1>7, <1>8, <1>9, <1>10, <1>11, <1>12, <1>13, <1>14,
     <1>15, <1>16, <1>17, <1>18, <1>19, <1>20 DEF Proceed

\* The step of a build on its own keeps Follows: the commit makes an up-to-date reader
\* one of the generation the collection spares as prior.
LEMMA FollowsStep ==
  ASSUME Typed, Alone, NEW b \in Builders, BuilderStep(b), NEW r \in Readers,
         Named, Advances(b), Follows(r)
  PROVE  Follows(r)'
<1>a. ASSUME NEW c \in Builders, c # b PROVE build'[c] = build[c] /\ build[c].pc = "idle"
  BY <1>a, OthersStay, AloneMeansOne DEF Typed, Placed, Alone
<1>b. reader[r] \in Readings /\ build[b] \in Builds /\ Placed(b) /\ build \in [Builders -> Builds]
  BY ReaderFields DEF Typed, TypeOK, Builds
<1>1. CASE SwapPointer(b)
  <2>1. /\ build[b].pc = "swap" /\ build'[b].pc = "list" /\ build'[b].prior = build[b].prior
        /\ build[b].prior = Target /\ dir' = dir
    BY <1>1, <1>b DEF SwapPointer, Goto, Builds, Advances
  <2>2. ASSUME Open(r), reader[r].graph # Root, reader[r].behind = 0
        PROVE  Has(reader[r].graph) /\ reader[r].graph = build[b].prior
    BY <2>1, <2>2 DEF Follows, Named, Target
  <2>3. ASSUME Open(r), reader'[r].behind < 2
        PROVE  reader[r].behind = 0 /\ reader'[r].behind = 1
    BY <1>1, <1>b, <2>3, ReadersBySwap DEF Readings
  <2>4. \A c \in Builders : build'[c].pc \in {"list", "sweep"} => c = b
    BY <1>a
  <2>5. ASSUME Open(r), reader[r].graph # Root
        PROVE  /\ reader'[r].behind # 0 /\ current' # None
               /\ reader'[r].behind < 2 => dir'[reader[r].graph] # None /\ Parts \subseteq dir'[reader[r].graph]
               /\ reader'[r].behind < 2 => reader[r].graph = build'[b].prior
    BY <1>1, <1>b, <2>1, <2>2, <2>3, <2>5, ReadersBySwap, PointerStep DEF Has, Readings
  <2> QED
    BY <1>1, <2>4, <2>5, ReadersBySwap DEF Follows, Has, Open
<1>2. CASE ~SwapPointer(b)
  <2>1. reader' = reader /\ current' = current /\ (current # None => content'[current] = content[current])
    BY <1>2, ReadersByOther, PointerStep
  <2>2. build'[b].pc \in {"list", "sweep"} => /\ build[b].pc \in {"list", "sweep"}
                                             /\ build'[b].id = build[b].id /\ build'[b].prior = build[b].prior
    BY <1>b, <1>2, StaysListed
  <2>3. ASSUME Open(r), reader[r].graph # Root, reader[r].behind = 1 PROVE Has(reader[r].graph)'
    <3>1. PICK n \in Ids : n = reader[r].graph
      BY <2>3, CompleteIds DEF Follows, Open
    <3>2. Has(n)
      BY <2>3, <3>1 DEF Follows
    <3>3. n # build[b].victim
      BY <1>b, <2>3, <3>1, Apart DEF Follows, Advances, Placed, Names
    <3>4. Has(n)'
      BY <3>2, <3>3, CompleteStays
    <3> QED
      BY <2>1, <3>1, <3>4 DEF Has
  <2>4. \A c \in Builders : build'[c].pc \in {"list", "sweep"} => c = b
    BY <1>a
  <2> QED
    BY <2>1, <2>2, <2>3, <2>4 DEF Follows, Open
<1> QED
  BY <1>1, <1>2

\* The invariant holds at first.
LEMMA InvInit == Init => StoreInv
<1> SUFFICES ASSUME Init PROVE StoreInv
  OBVIOUS
<1> USE Apart
<1>1. /\ build = [b \in Builders |-> Idle] /\ Idle \in Builds
      /\ Idle.pc = "idle" /\ Idle.slot = None /\ Idle.handle = None /\ Idle.victim = None
  BY DEF Init, Idle, Builds
<1>2. reader = [r \in Readers |-> NotReading] /\ NotReading \in Readings /\ NotReading.pc = "idle" /\ NotReading.behind = 0
  BY DEF Init, NotReading, Readings
<1>3. TypeOK
  <2>1. mode \in Modes /\ tree \in mode.trees /\ crashes \in 0..mode.crashes
    BY ModeParts DEF Init
  <2>2. build \in [Builders -> Builds] /\ reader \in [Readers -> Readings]
    BY <1>1, <1>2
  <2>3. dir \in [Names -> (SUBSET Parts) \union {None}]
    BY DEF Init
  <2>4. content \in [Inodes -> Ids \union {Torn}] /\ recent = {} /\ current = None /\ tmp = None
    BY DEF Init
  <2> QED
    BY <2>1, <2>2, <2>3, <2>4 DEF TypeOK, Builds, Readings
<1>4. Typed /\ OwnSlots
  BY <1>1, <1>3 DEF Typed, Placed, Staging, Committing, OwnSlots
<1>5. \A b \in Builders : Guarded(b)
  BY <1>1 DEF Guarded, Staging
<1>6. \A r \in Readers : Reads(r) /\ Follows(r)
  BY <1>2 DEF Reads, Follows, Open
<1>7. Named /\ \A b \in Builders : Advances(b)
  BY <1>1 DEF Named, Advances, Staging, Committing, Init
<1> QED
  BY <1>4, <1>5, <1>6, <1>7 DEF StoreInv

\* A step of a build keeps the invariant.
LEMMA InvBuilder ==
  ASSUME StoreInv, NEW b \in Builders, BuilderStep(b)
  PROVE  StoreInv'
<1>0. Typed /\ OwnSlots /\ (\A c \in Builders : Guarded(c)) /\ (\A r \in Readers : Reads(r))
  BY DEF StoreInv
<1>1. Typed'
  BY <1>0, TypesStep, PlacedStep DEF Typed
<1>2. OwnSlots' /\ \A c \in Builders : Guarded(c)'
  BY <1>0, <1>1, OwnSlotsStep, GuardedStep
<1>3. \A r \in Readers : Reads(r)'
  BY <1>0, ReadsStep
<1>4. ASSUME Alone' PROVE Named' /\ (\A c \in Builders : Advances(c)') /\ (\A r \in Readers : Follows(r)')
  <2>1. Alone /\ Named /\ (\A c \in Builders : Advances(c)) /\ \A r \in Readers : Follows(r)
    BY <1>0, <1>4, OthersStay DEF Alone, StoreInv
  <2>2. Named'
    BY <1>0, <2>1, NamedStep
  <2>3. Staging(b) => Exists(build[b].slot)
    BY <1>0, <2>1 DEF Guarded
  <2>4. Advances(b)'
    BY <1>0, <1>1, <2>1, <2>3, AdvancesStep
  <2>5. ASSUME NEW c \in Builders, c # b PROVE Advances(c)'
    <3>1. build'[c] = build[c] /\ build[c].pc = "idle" /\ build[c].victim = None
      BY <1>0, <2>1, <2>5, OthersStay, AloneMeansOne DEF Typed, Placed, Alone
    <3> QED
      BY <3>1 DEF Advances, Staging, Committing
  <2>6. \A r \in Readers : Follows(r)'
    BY <1>0, <2>1, FollowsStep
  <2> QED
    BY <2>2, <2>4, <2>5, <2>6
<1> QED
  BY <1>1, <1>2, <1>3, <1>4 DEF StoreInv

\* A reader writes nothing.
LEMMA ReaderFrame ==
  ASSUME NEW r \in Readers, ReaderStep(r)
  PROVE  UNCHANGED <<mode, tree, dir, recent, pointer, build, crashes>>
BY DEF ReaderStep, ReadPointer, OpenGraph, OpenSide, TurnAway, Close

\* Records of a reader stay such records.
LEMMA ReadingsWith ==
  ASSUME NEW s \in Readings, NEW d \in Ids \union {Root, None}
  PROVE  /\ [s EXCEPT !.pc = "graph", !.graph = d] \in Readings
         /\ [s EXCEPT !.pc = "side", !.side = d] \in Readings
         /\ [s EXCEPT !.pc = "loaded", !.side = d, !.behind = 0] \in Readings
<1> DEFINE P == {"idle", "graph", "side", "loaded"}
<1> DEFINE D == Ids \union {Root, None}
<1> DEFINE B == 0..2
<1>1. Readings = [pc : P, graph : D, side : D, behind : B]
  BY DEF Readings
<1>2. "graph" \in P /\ "side" \in P /\ "loaded" \in P /\ 0 \in B /\ d \in D
  OBVIOUS
<1> HIDE DEF P, D, B
<1> QED
  BY <1>1, <1>2

\* A step of a reader leaves the others alone.
LEMMA ReaderOthers ==
  ASSUME Typed, NEW r \in Readers, ReaderStep(r)
  PROVE  /\ \A q \in Readers : q # r => reader'[q] = reader[q]
         /\ reader' \in [Readers -> Readings]
<1>1. reader \in [Readers -> Readings] /\ reader[r] \in Readings
  BY ReaderFields
<1>2. NotReading \in Readings
  BY DEF NotReading, Readings
<1>3. Resolved \in Ids \union {Root}
  BY ResolvedIn DEF Typed
<1>4. [NotReading EXCEPT !.pc = "graph", !.graph = Resolved] \in Readings
  BY <1>2, <1>3, ReadingsWith
<1>5. ASSUME NEW d \in Ids \union {Root, None}
      PROVE  /\ [reader[r] EXCEPT !.pc = "side", !.side = d] \in Readings
             /\ [reader[r] EXCEPT !.pc = "loaded", !.side = d, !.behind = 0] \in Readings
  BY <1>1, ReadingsWith
<1>6. reader[r].graph \in Ids \union {Root, None} /\ SideOf(r) \in Ids \union {Root, None}
      /\ (IF RereadsRoot THEN None ELSE reader[r].graph) \in Ids \union {Root, None}
  BY <1>1, <1>3 DEF SideOf, Readings
<1>7. \E x \in Readings : reader' = [reader EXCEPT ![r] = x]
  <2>1. CASE ReadPointer(r)
    BY <1>4, <2>1 DEF ReadPointer
  <2>2. CASE OpenGraph(r)
    BY <1>5, <1>6, <2>2, ZenonT(90) DEF OpenGraph
  <2>3. CASE OpenSide(r)
    BY <1>5, <1>6, <2>3, ZenonT(90) DEF OpenSide
  <2>4. CASE TurnAway(r) \/ Close(r)
    BY <1>2, <2>4 DEF TurnAway, Close
  <2> QED
    BY <2>1, <2>2, <2>3, <2>4 DEF ReaderStep
<1> QED
  BY <1>1, <1>7

\* What a step makes of the reader.
LEMMA ReaderFacts ==
  ASSUME Typed, NEW r \in Readers, ReaderStep(r)
  PROVE  \/ /\ ReadPointer(r)
            /\ reader'[r].pc = "graph" /\ reader'[r].graph = Resolved /\ reader'[r].behind = 0
            /\ reader[r].pc = "idle" /\ r \in mode.readers
         \/ /\ OpenGraph(r)
            /\ reader[r].pc = "graph" /\ reader'[r].pc = "side" /\ reader'[r].graph = reader[r].graph
            /\ reader'[r].behind = reader[r].behind /\ reader[r].graph # Root
            /\ ~RereadsRoot => reader'[r].side = reader[r].graph
         \/ /\ OpenSide(r)
            /\ reader[r].pc = "side" /\ reader'[r].pc = "loaded" /\ reader'[r].graph = reader[r].graph
            /\ reader'[r].behind = 0
            /\ ~RereadsRoot => reader'[r].side = reader[r].side
         \/ /\ TurnAway(r) \/ Close(r)
            /\ reader'[r] = NotReading
<1>1. reader \in [Readers -> Readings] /\ reader[r] \in Readings
  BY ReaderFields
<1>2. CASE ReadPointer(r)
  <2>1. reader'[r] = [NotReading EXCEPT !.pc = "graph", !.graph = Resolved]
    BY <1>1, <1>2 DEF ReadPointer
  <2>2. NotReading = [pc |-> "idle", graph |-> None, side |-> None, behind |-> 0]
    BY DEF NotReading
  <2>3. reader'[r].pc = "graph" /\ reader'[r].graph = Resolved /\ reader'[r].behind = 0
    BY <2>1, <2>2
  <2> QED
    BY <1>2, <2>3 DEF ReadPointer
<1>3. CASE OpenGraph(r)
  BY <1>1, <1>3 DEF OpenGraph, Readable, Readings
<1>4. CASE OpenSide(r)
  BY <1>1, <1>4 DEF OpenSide, SideOf, Readings
<1>5. CASE TurnAway(r) \/ Close(r)
  BY <1>1, <1>5 DEF TurnAway, Close
<1> QED
  BY <1>2, <1>3, <1>4, <1>5 DEF ReaderStep

\* A step of a reader keeps the invariant.
LEMMA InvReader ==
  ASSUME StoreInv, NEW r \in Readers, ReaderStep(r)
  PROVE  StoreInv'
<1>0. Typed /\ OwnSlots /\ (\A c \in Builders : Guarded(c)) /\ (\A q \in Readers : Reads(q))
  BY DEF StoreInv
<1>1. UNCHANGED <<mode, tree, dir, recent, pointer, build, crashes>>
  BY ReaderFrame
<1>2. TypeOK'
  BY <1>0, <1>1, ReaderOthers DEF Typed, TypeOK, Readings, pointer
<1>3. Typed' /\ OwnSlots' /\ \A c \in Builders : Guarded(c)'
  BY <1>0, <1>1, <1>2 DEF Typed, OwnSlots, Guarded, Placed, Staging, Alone
<1>4. \A q \in Readers : Reads(q)'
  <2>1. Reads(r)'
    BY <1>0, <1>1, ReaderFacts DEF Reads, NotReading
  <2> QED
    BY <1>0, <1>1, <2>1, ReaderOthers DEF Reads
<1>5. ASSUME Alone' PROVE Named' /\ (\A c \in Builders : Advances(c)') /\ (\A q \in Readers : Follows(q)')
  <2>1. Alone /\ Named /\ (\A c \in Builders : Advances(c)) /\ \A q \in Readers : Follows(q)
    BY <1>1, <1>5 DEF Alone, StoreInv
  <2>2. Named' /\ \A c \in Builders : Advances(c)'
    BY <1>1, <2>1 DEF Named, Has, Advances, Staging, Target, pointer
  <2>3. ASSUME NEW q \in Readers, q # r PROVE Follows(q)'
    BY <1>0, <1>1, <2>1, <2>3, ReaderOthers DEF Follows, Open, Has, pointer
  <2>4. Follows(r)'
    <3>1. CASE ReadPointer(r)
      <4>1. Resolved = Target
        BY <2>1, CompleteIds DEF Resolved, Target, Named, Has
      <4>2. ASSUME NEW c \in Builders, build[c].pc \in {"list", "sweep"}
            PROVE  current # None /\ content[current] = build[c].id
        BY <2>1, <4>2 DEF Advances
      <4>3. /\ reader'[r].pc = "graph" /\ reader'[r].graph = Target /\ reader'[r].behind = 0
        BY <1>0, <3>1, <4>1, ReaderFacts DEF ReadPointer, OpenGraph, OpenSide, TurnAway, Close
      <4> QED
        BY <1>1, <2>1, <4>2, <4>3 DEF Follows, Open, Named, Target, pointer
    <3>2. CASE ~ReadPointer(r)
      BY <1>0, <1>1, <2>1, <3>2, ReaderFacts DEF Follows, Open, Has, pointer, NotReading
    <3> QED
      BY <3>1, <3>2
  <2> QED
    BY <2>2, <2>3, <2>4
<1> QED
  BY <1>3, <1>4, <1>5 DEF StoreInv

\* An edit of the tree or the passing of two minutes keeps the invariant.
LEMMA InvEnvironment ==
  ASSUME StoreInv, Edit \/ (\E n \in Names : Age(n)) \/ UNCHANGED vars
  PROVE  StoreInv'
<1>0. Typed /\ OwnSlots /\ (\A c \in Builders : Guarded(c)) /\ (\A q \in Readers : Reads(q))
  BY DEF StoreInv
<1>1. UNCHANGED <<mode, dir, pointer, build, reader, crashes>> /\ recent' \subseteq recent /\ tree' \in mode.trees
  BY <1>0 DEF Edit, Age, vars, Typed, TypeOK
<1>2. TypeOK'
  BY <1>0, <1>1 DEF Typed, TypeOK, pointer
<1>3. Typed' /\ OwnSlots' /\ \A q \in Readers : Reads(q)'
  BY <1>0, <1>1, <1>2 DEF Typed, OwnSlots, Placed, Staging, Reads
<1>4. ASSUME NEW c \in Builders PROVE Guarded(c)'
  <2>1. Staging(c) /\ ~mode.slow /\ build[c].slot \in recent => build[c].slot \in recent'
    BY DEF Edit, Age, vars, Fresh, Staging
  <2> QED
    BY <1>0, <1>1, <2>1 DEF Guarded, Staging, Alone
<1>5. Alone' => Named' /\ (\A c \in Builders : Advances(c)') /\ (\A q \in Readers : Follows(q)')
  BY <1>1 DEF Alone, StoreInv, Named, Has, Advances, Staging, Target, Follows, Open, pointer
<1> QED
  BY <1>3, <1>4, <1>5 DEF StoreInv

\* Every step keeps the invariant.
LEMMA InvNext == StoreInv /\ [Next]_vars => StoreInv'
<1> SUFFICES ASSUME StoreInv, [Next]_vars PROVE StoreInv'
  OBVIOUS
<1> QED
  BY InvBuilder, InvReader, InvEnvironment DEF Next, BuilderStep, ReaderStep

\* The invariant holds throughout.
LEMMA StoreInvariant == Spec => []StoreInv
BY InvInit, InvNext, PTL DEF Spec

\* The variables keep their types in every case; where builds do not overlap, the
\* generation CURRENT names has every part, whatever builds died and wherever
\* (commit_generation).
THEOREM StoreNamedIsComplete == Spec => []NamedIsComplete
<1>1. StoreInv => NamedIsComplete
  BY Apart, CompleteIds DEF StoreInv, Typed, NamedIsComplete, Named, Has, PointerWhole
<1> QED
  BY <1>1, StoreInvariant, PTL

\* A reader that opens its sidecars in the directory it resolved never mixes two
\* generations (Kg::load), however the builds interleave with it.
THEOREM StoreNeverAMixture ==
  ASSUME RereadsRoot = FALSE
  PROVE  Spec => []NeverAMixture
<1>1. StoreInv => NeverAMixture
  BY DEF StoreInv, Reads, NeverAMixture
<1> QED
  BY <1>1, StoreInvariant, PTL

\* Where overlapping builds are never interrupted for two minutes, no staging directory
\* in use is missing or being deleted (collect_garbage's grace).
THEOREM StoreStagingSurvives ==
  ASSUME \A m \in Modes : m.slow => Cardinality(m.builders) = 1
  PROVE  Spec => []StagingSurvives
<1>1. StoreInv => StagingSurvives
  BY DEF StoreInv, Guarded, StagingSurvives, Typed, TypeOK, Alone
<1> QED
  BY <1>1, StoreInvariant, PTL

\* Where CURRENT names a complete generation, resolving it finds that generation.
LEMMA PublishedIsTarget ==
  ASSUME Named
  PROVE  Resolved = Target
BY CompleteIds DEF Resolved, Target, Named, Has

\* A reader is turned away before the first commit, or when two commits overtook it.
LEMMA TurnedAwayLate ==
  ASSUME Typed, Named, NEW r \in Readers, Reads(r), Follows(r), TurnAway(r)
  PROVE  reader[r].graph = Root \/ reader[r].behind = 2
<1>1. reader[r] \in Readings /\ Open(r)
  BY ReaderFields DEF TurnAway, Open
<1>2. SUFFICES ASSUME reader[r].graph # Root, reader[r].behind # 2 PROVE FALSE
  OBVIOUS
<1>3. reader[r].behind \in {0, 1}
  BY <1>1, <1>2 DEF Readings
<1>4. current # None /\ Has(reader[r].graph)
  BY <1>1, <1>2, <1>3 DEF Follows, Named
<1>5. Resolved \in Complete /\ Has(Resolved)
  BY <1>4, PublishedIsTarget DEF Named, Target
<1>6. Resolved # Root
  BY <1>5, CompleteIds, Apart
<1>7. Readable(reader[r].graph, "graph") /\ Readable(reader[r].graph, "pack") /\ Readable(Resolved, "pack")
  BY <1>2, <1>4, <1>5, <1>6 DEF Readable, Has, Parts
<1> QED
  BY <1>7, StoreAssumption DEF TurnAway, SideOf, Reads

\* Where builds do not overlap, or nobody reads, the index root publishes whole
\* generations in one step: every step of it is a step of GenerationContract or none.
THEOREM StoreImplementsContract ==
  ASSUME \A m \in Modes : Cardinality(m.builders) = 1 \/ m.readers = {}
  PROVE  Spec => ImplementsContract
<1>1. Init => Store!Init
  <2> SUFFICES ASSUME Init PROVE Store!Init
    OBVIOUS
  <2>1. (IF Alone THEN Resolved ELSE Root) = Root
    BY DEF Init, Resolved
  <2>2. ASSUME NEW r \in Readers PROVE Seen(r) = Store!At("idle", Root, 0)
    BY DEF Init, NotReading, Seen, Store!At
  <2> QED
    BY <2>1, <2>2 DEF Store!Init
<1>2. StoreInv /\ [Next]_vars => [Store!Next]_(Store!vars)
  <2> SUFFICES ASSUME StoreInv, [Next]_vars PROVE [Store!Next]_(Store!vars)
    OBVIOUS
  <2>a. Typed /\ StoreInv' /\ \A r \in Readers : reader[r] \in Readings
    BY InvNext, ReaderFields DEF StoreInv
  <2>b. mode' = mode /\ mode \in Modes /\ Alone' = Alone
    <3>1. mode' = mode
      BY <2>a, OthersStay, ReaderFrame DEF Next, Edit, Age, vars, ReaderStep
    <3> QED
      BY <2>a, <3>1 DEF Typed, TypeOK, Alone
  <2>1. CASE ~Alone
    <3>1. mode.readers = {}
      BY <2>b, <2>1 DEF Alone
    <3>2. ASSUME NEW r \in Readers PROVE Seen(r)' = Seen(r)
      <4>1. reader[r].pc = "idle" /\ reader[r].behind = 0 /\ reader'[r].pc = "idle" /\ reader'[r].behind = 0
        BY <2>a, <2>b, <3>1 DEF StoreInv, Reads
      <4> QED
        BY <4>1 DEF Seen
    <3> QED
      BY <2>1, <2>b, <3>2 DEF Store!vars
  <2>2. CASE Alone
    <3>a. Alone' /\ Named /\ Named' /\ (\A b \in Builders : Advances(b)) /\ \A r \in Readers : Reads(r) /\ Follows(r) /\ Follows(r)'
      BY <2>a, <2>b, <2>2 DEF StoreInv
    <3>b. Resolved = Target /\ Resolved' = Target'
      BY <3>a, CompleteIds DEF Resolved, Target, Named, Has
    <3>1. ASSUME NEW b \in Builders, SwapPointer(b) PROVE Store!Publish
      <4>1. Target' \in Complete
        BY <2>a, <3>1, <3>a, PointerStep DEF Proceed, Advances, Committing, SwapPointer
      <4>2. ASSUME NEW r \in Readers
            PROVE  Seen(r)' = IF Seen(r).pc = "open" THEN [Seen(r) EXCEPT !.behind = Store!Overtaken(@)] ELSE Seen(r)
        BY <2>a, <3>1, ReadersBySwap DEF Seen, Open, Readings, Store!Overtaken
      <4> QED
        BY <2>2, <3>a, <3>b, <4>1, <4>2 DEF Store!Publish
    <3>2. ASSUME NEW b \in Builders, BuilderStep(b), ~SwapPointer(b) PROVE UNCHANGED Store!vars
      <4>1. reader' = reader /\ Target' = Target
        BY <2>a, <3>2, <3>a, ReadersByOther, PointerStep DEF BuilderStep
      <4> QED
        BY <2>2, <3>a, <3>b, <4>1 DEF Store!vars, Seen
    <3>3. ASSUME Edit \/ (\E n \in Names : Age(n)) \/ UNCHANGED vars PROVE UNCHANGED Store!vars
      <4>1. reader' = reader /\ Target' = Target
        BY <3>3 DEF Edit, Age, vars, pointer, Target
      <4> QED
        BY <2>2, <3>a, <3>b, <4>1 DEF Store!vars, Seen
    <3>4. ASSUME NEW r \in Readers, ReaderStep(r)
          PROVE  Store!Begin(r) \/ Store!Load(r) \/ Store!TurnAway(r) \/ Store!Close(r) \/ UNCHANGED Store!vars
      <4>1. Target' = Target
        BY <3>4, ReaderFrame DEF pointer, Target
      <4>2. \A q \in Readers : q # r => Seen(q)' = Seen(q)
        BY <2>a, <3>4, ReaderOthers DEF Seen
      <4>3. ASSUME NEW x, Seen(r)' = x
            PROVE  [q \in Readers |-> Seen(q)]' = [[q \in Readers |-> Seen(q)] EXCEPT ![r] = x]
        BY <4>2, <4>3
      <4>4. CASE ReadPointer(r)
        <5>1. Seen(r).pc = "idle" /\ Seen(r)' = Store!At("open", Target, 0)
          BY <2>a, <3>4, <3>b, <4>4, ReaderFacts DEF Seen, Store!At, ReadPointer, OpenGraph,
             OpenSide, TurnAway, Close
        <5> QED
          BY <2>2, <3>a, <3>b, <4>1, <4>3, <5>1 DEF Store!Begin
      <4>5. CASE OpenGraph(r)
        <5>1. Seen(r)' = Seen(r)
          BY <2>a, <3>4, <4>5, ReaderFacts, ZenonT(90) DEF Seen, ReadPointer, OpenGraph, OpenSide, TurnAway,
             Close, NotReading
        <5> QED
          BY <2>2, <3>a, <3>b, <4>1, <4>2, <5>1, SMTT(60) DEF Store!vars
      <4>6. CASE OpenSide(r)
        <5>1. /\ Seen(r).pc = "open" /\ Seen(r).gen = reader[r].graph /\ reader[r].graph \in Complete
              /\ Seen(r)' = Store!At("loaded", reader[r].graph, 0)
          BY <2>a, <3>4, <3>a, <4>6, ReaderFacts DEF Seen, Store!At, ReadPointer, OpenGraph,
             OpenSide, TurnAway, Close, Follows
        <5> QED
          BY <2>2, <3>a, <3>b, <4>1, <4>3, <5>1 DEF Store!Load
      <4>7. CASE TurnAway(r)
        <5>1. /\ Seen(r).pc = "open" /\ (Seen(r).gen = Root \/ Seen(r).behind = 2)
              /\ Seen(r)' = Store!At("idle", Root, 0)
          <6>1. reader \in [Readers -> Readings]
            BY <2>a, ReaderFields
          <6>2. reader[r].pc \in {"graph", "side"} /\ reader'[r] = NotReading
            BY <4>7, <6>1 DEF TurnAway
          <6>3. reader[r].graph = Root \/ reader[r].behind = 2
            BY <2>a, <3>a, <4>7, TurnedAwayLate
          <6> QED
            BY <6>2, <6>3 DEF Seen, Store!At, NotReading
        <5> QED
          BY <2>2, <3>a, <3>b, <4>1, <4>3, <5>1 DEF Store!TurnAway
      <4>8. CASE Close(r)
        <5>1. /\ Seen(r).pc = "loaded" /\ Seen(r)' = Store!At("idle", Root, 0)
          <6>1. reader \in [Readers -> Readings]
            BY <2>a, ReaderFields
          <6>2. reader[r].pc = "loaded" /\ reader'[r] = NotReading
            BY <4>8, <6>1 DEF Close
          <6> QED
            BY <6>2 DEF Seen, Store!At, NotReading
        <5> QED
          BY <2>2, <3>a, <3>b, <4>1, <4>3, <5>1 DEF Store!Close
      <4> QED
        BY <3>4, <4>4, <4>5, <4>6, <4>7, <4>8 DEF ReaderStep
    <3> QED
      BY <3>1, <3>2, <3>3, <3>4 DEF Next, BuilderStep, ReaderStep, Store!Next, Proceed
  <2> QED
    BY <2>1, <2>2
<1> QED
  BY <1>1, <1>2, StoreInvariant, PTL DEF Spec, ImplementsContract, Store!Spec
================================================================================
