--------------------------- MODULE VectorTierProofs ---------------------------
(***************************************************************************)
(* Why the files of the vector tier hold together without a common lock,   *)
(* for every number of generations, warms and disturbances: a warm is      *)
(* alone on its generation, the carry of a commit fills in files that are  *)
(* absent, and a file of a generation's own graph is only ever replaced by *)
(* another of that graph.                                                  *)
(***************************************************************************)
EXTENDS VectorTier, TLAPS

\* The warms that TypeOK speaks of.
Warms == [Warmers -> [pc : Parts \cup {"idle", "resolve", "check"}, sel : Tiers,
                      gen : Gens \cup {None}, tier : Tiers]]

\* The carries that TypeOK speaks of.
Carries == [pc : {"idle", "test", "link", "swap"}, gen : Gens \cup {None},
            prior : Gens \cup {None}, next : 0 .. Len(CarryOrder) + 1, absent : BOOLEAN]

\* Who writes or reads a generation has one; the lock names the warm on it.
HeldInv ==
  /\ \A w \in Warmers : Holds(w) => warm[w].gen \in Gens /\ lock[warm[w].gen] = w
  /\ carry.pc # "idle" => carry.gen \in Gens /\ carry.prior \in Gens
  /\ carry.pc \in {"test", "link"} => carry.next \in 1 .. Len(CarryOrder)
  /\ carry.pc = "link" => carry.absent
  /\ tune.pc # "idle" => tune.gen \in Gens
  /\ read.pc # "idle" => read.gen \in Gens

\* The files a warm has written when it is about to write the one named.
Behind(pc) == CASE pc = "files"   -> {"bin"}
                [] pc = "weights" -> {"bin", "files"}
                [] pc = "record"  -> {"bin", "files", "weights"}
                [] pc = "stamp"   -> {"bin", "files", "weights", "record"}
                [] OTHER          -> {}

\* What a warm has written so far is still there.
OwnInv ==
  \A w \in Warmers : warm[w].gen \notin clobbered =>
    \A f \in Behind(warm[w].pc) : Written(w, f) \in {None, tier[warm[w].gen][f]}

\* From the check of its header on, a searcher's bin stays of its graph.
OpenInv ==
  (Opening("weights") \/ Opening("load")) /\ read.gen \notin clobbered =>
    Bin(read.gen) # None /\ Bin(read.gen).stamp = StampOf[read.gen]

\* From the look at the base on, the bin is that base, or the graph's own.
AdoptInv ==
  (Adopting("files") \/ Adopting("load")) /\ read.gen \notin clobbered =>
    Bin(read.gen) # None /\ Bin(read.gen).stamp \in {read.base, StampOf[read.gen]}

TierInv == TypeOK /\ HeldInv /\ OwnInv /\ OpenInv /\ AdoptInv

-------------------------------------------------------------------------------
\* The bin of a generation stays what it was, becomes the graph's own, or was
\* absent, unless a writer acted on an outdated observation.
BinsKept ==
  \A g \in Gens : g \notin clobbered' =>
    \/ Bin(g)' = Bin(g)
    \/ Bin(g) = None
    \/ Bin(g)' # None /\ Bin(g)'.stamp = StampOf[g]

\* The order of the files, as numbers and names.
LEMMA Order ==
  /\ Len(CarryOrder) = 5
  /\ \A i \in 1 .. 5 : CarryOrder[i] \in Parts
  /\ \A f \in Parts \ {"stamp"} : After(f) \in Parts /\ Behind(After(f)) \subseteq Behind(f) \cup {f}
  /\ \A pc : Behind(pc) \subseteq Parts \ {"stamp"}
<1>1. Len(CarryOrder) = 5
  BY DEF CarryOrder
<1>2. \A i \in 1 .. 5 : CarryOrder[i] \in Parts
  BY DEF CarryOrder, Parts
<1>3. \A f \in Parts \ {"stamp"} : After(f) \in Parts /\ Behind(After(f)) \subseteq Behind(f) \cup {f}
  BY DEF After, Parts, Behind
<1>4. \A pc : Behind(pc) \subseteq Parts \ {"stamp"}
  BY DEF Behind, Parts
<1> QED
  BY <1>1, <1>2, <1>3, <1>4

\* What a warm writes is of the kind of the file, and a bin is of its graph.
LEMMA WrittenKind ==
  ASSUME TypeOK, NEW w \in Warmers, warm[w].gen \in Gens, NEW f \in Parts
  PROVE  /\ Written(w, f) \in Kinds(f) \cup {None}
         /\ Written(w, f) \in Bins \cup Records \cup Stamps \cup {None}
         /\ Written(w, "bin") \in Bins /\ Written(w, "bin").stamp = StampOf[warm[w].gen]
<1>1. StampOf[warm[w].gen] \in Stamps /\ warm[w].tier \in Tiers /\ warm[w].sel \in Tiers
  BY DEF TypeOK, Stamps
<1>2. Written(w, "bin") = [stamp |-> StampOf[warm[w].gen], tier |-> warm[w].tier]
  BY DEF Written
<1>3. CASE f = "bin"
  BY <1>1, <1>2, <1>3 DEF Bins, Kinds
<1>4. CASE f = "record"
  BY <1>1, <1>2, <1>4 DEF Written, Records, Kinds, Bins
<1>5. CASE f \in {"files", "weights", "stamp"}
  BY <1>1, <1>2, <1>5 DEF Written, Kinds, Bins
<1> QED
  BY <1>3, <1>4, <1>5 DEF Parts

\* The same warm writes the same files.
LEMMA WrittenSame ==
  ASSUME NEW w, NEW f,
         warm'[w].gen = warm[w].gen, warm'[w].tier = warm[w].tier, warm'[w].sel = warm[w].sel
  PROVE  Written(w, f)' = Written(w, f)
BY DEF Written

LEMMA TypeInit == Init => TypeOK
<1> SUFFICES ASSUME Init PROVE TypeOK
  OBVIOUS
<1>1. tier \in [Gens -> [Parts -> Bins \cup Records \cup Stamps \cup {None}]]
  BY DEF Init
<1>2. \A g \in Gens, f \in Parts : tier[g][f] \in Kinds(f) \cup {None}
  BY DEF Init
<1>3. Len(CarryOrder) = 5
  BY Order
<1>4. current \in Gens /\ selection \in Tiers /\ lock \in [Gens -> Warmers \cup {None}] /\ clobbered \subseteq Gens
  BY VectorTierAssumption DEF Init
<1>5. warm \in Warms
  BY DEF Init, Quiet, Tiers, Warms
<1> QED
  BY <1>1, <1>2, <1>3, <1>4, <1>5 DEF Init, TypeOK, NoCarry, NoTune, NoRead, Warms

LEMMA InvInit == Init => TierInv
<1> SUFFICES ASSUME Init PROVE TierInv
  OBVIOUS
<1>1. TypeOK
  BY TypeInit
<1>2. HeldInv
  BY DEF Init, HeldInv, Holds, Quiet, NoCarry, NoTune, NoRead
<1>3. OwnInv
  BY DEF Init, OwnInv, Quiet, Behind
<1>4. OpenInv /\ AdoptInv
  BY DEF Init, OpenInv, AdoptInv, Opening, Adopting, NoRead
<1> QED
  BY <1>1, <1>2, <1>3, <1>4 DEF TierInv

-------------------------------------------------------------------------------
\* A step that only moves bins as BinsKept says leaves what readers saw.
LEMMA ReadersKeep ==
  ASSUME TierInv, BinsKept, clobbered \subseteq clobbered', UNCHANGED read
  PROVE  OpenInv' /\ AdoptInv'
<1>1. read.pc # "idle" => read.gen \in Gens
  BY DEF TierInv, HeldInv
<1>2. OpenInv'
  BY <1>1 DEF TierInv, OpenInv, Opening, BinsKept
<1>3. AdoptInv'
  BY <1>1 DEF TierInv, AdoptInv, Adopting, BinsKept
<1> QED
  BY <1>2, <1>3

\* A step that touches neither tier nor readers.
LEMMA TierUntouched ==
  ASSUME TierInv, UNCHANGED <<tier, read, clobbered>>
  PROVE  OpenInv' /\ AdoptInv'
<1>1. BinsKept
  BY DEF BinsKept, Bin
<1> QED
  BY <1>1, ReadersKeep

\* A step of one warm keeps what the others own, if it writes in its own
\* generation alone.
LEMMA OthersOwn ==
  ASSUME TierInv, NEW w \in Warmers, clobbered' = clobbered,
         \A v \in Warmers \ {w} : warm'[v] = warm[v],
         \A g \in Gens : g # warm[w].gen \/ ~Holds(w) => tier'[g] = tier[g],
         warm'[w].gen \notin clobbered =>
           \A f \in Behind(warm'[w].pc) : Written(w, f)' \in {None, tier'[warm'[w].gen][f]}
  PROVE  OwnInv'
<1> SUFFICES ASSUME NEW v \in Warmers, v # w, warm[v].gen \notin clobbered,
                    NEW f \in Behind(warm[v].pc)
             PROVE  Written(v, f)' \in {None, tier'[warm[v].gen][f]}
  BY DEF OwnInv
<1>1. Holds(v) /\ warm[v].gen \in Gens /\ lock[warm[v].gen] = v
  BY DEF TierInv, HeldInv, Holds, Behind
<1>2. tier'[warm[v].gen] = tier[warm[v].gen]
  BY <1>1 DEF TierInv, HeldInv
<1>3. Written(v, f)' = Written(v, f)
  BY WrittenSame
<1> QED
  BY <1>2, <1>3 DEF TierInv, OwnInv

-------------------------------------------------------------------------------
(* Warms. *)

\* A warm that begins, loses the lock, or wins it on the generation it finds.
LEMMA KeepWarmBegin ==
  ASSUME TierInv, NEW w \in Warmers, WarmBegin(w)
  PROVE  TierInv'
<1>1. TypeOK'
  <2>1. warm' \in Warms
    BY DEF TierInv, TypeOK, Warms, WarmBegin, Quiet, Tiers
  <2> QED
    BY <2>1 DEF TierInv, TypeOK, Warms, WarmBegin
<1>2. HeldInv'
  BY DEF TierInv, HeldInv, WarmBegin, Holds, Quiet, TypeOK
<1>3. OwnInv'
  <2>1. Behind(warm'[w].pc) = {}
    BY DEF WarmBegin, Quiet, Behind, TierInv, TypeOK
  <2> QED
    BY <2>1, OthersOwn DEF WarmBegin, TierInv, TypeOK
<1> QED
  BY <1>1, <1>2, <1>3, TierUntouched DEF TierInv, WarmBegin

LEMMA KeepWarmResolve ==
  ASSUME TierInv, NEW w \in Warmers, WarmResolve(w)
  PROVE  TierInv'
<1> DEFINE won  == [warm EXCEPT ![w].pc = "check", ![w].gen = current]
           lost == [warm EXCEPT ![w] = Quiet]
<1>1. \/ warm' = won /\ lock[current] = None /\ lock' = [lock EXCEPT ![current] = w]
      \/ warm' = lost /\ lock' = lock
  BY DEF WarmResolve
<1>2. warm \in Warms /\ current \in Gens /\ lock \in [Gens -> Warmers \cup {None}]
  BY DEF TierInv, TypeOK, Warms
<1>3. won \in Warms /\ lost \in Warms
  BY <1>2, ZenonT(90) DEF Warms, Quiet, Tiers
<1>4. TypeOK'
  <2>1. lock' \in [Gens -> Warmers \cup {None}]
    BY <1>1, <1>2
  <2>2. warm' \in Warms
    BY <1>1, <1>3
  <2> QED
    BY <2>1, <2>2 DEF TierInv, TypeOK, Warms, WarmResolve
<1>5. HeldInv'
  <2>1. \A v \in Warmers : Holds(v)' => warm'[v].gen \in Gens /\ lock'[warm'[v].gen] = v
    <3>1. SUFFICES ASSUME NEW v \in Warmers, Holds(v)'
                   PROVE  warm'[v].gen \in Gens /\ lock'[warm'[v].gen] = v
      OBVIOUS
    <3>2. None \notin Warmers
      BY VectorTierAssumption
    <3>3. CASE v = w
      BY <1>1, <1>2, <3>1, <3>3 DEF Warms, Holds, Quiet
    <3>4. CASE v # w
      <4>1. warm'[v] = warm[v] /\ Holds(v)
        BY <1>1, <1>2, <3>1, <3>4 DEF Warms, Holds
      <4> QED
        BY <1>1, <1>2, <3>2, <4>1 DEF TierInv, HeldInv
    <3> QED
      BY <3>3, <3>4
  <2> QED
    BY <2>1 DEF TierInv, HeldInv, WarmResolve
<1>6. OwnInv'
  <2>1. Behind(warm'[w].pc) = {}
    BY <1>1, <1>2 DEF Quiet, Behind, Warms
  <2> QED
    BY <1>1, <1>2, <2>1, OthersOwn DEF WarmResolve, Warms
<1> QED
  BY <1>4, <1>5, <1>6, TierUntouched DEF TierInv, WarmResolve

\* The lock that a warm gives back was its own.
LEMMA KeepRelease ==
  ASSUME TierInv, NEW w \in Warmers, Holds(w), Release(w),
         UNCHANGED <<carry, tune, read>>
  PROVE  /\ HeldInv'
         /\ lock' \in [Gens -> Warmers \cup {None}]
         /\ warm' \in Warms
         /\ Behind(warm'[w].pc) = {}
<1>1. warm[w].gen \in Gens /\ lock[warm[w].gen] = w
  BY DEF TierInv, HeldInv
<1>2. HeldInv'
  BY <1>1 DEF TierInv, HeldInv, Release, Holds, Quiet, TypeOK
<1> QED
  BY <1>1, <1>2 DEF TierInv, TypeOK, Release, Quiet, Tiers, Behind, Warms

LEMMA KeepWarmCheck ==
  ASSUME TierInv, NEW w \in Warmers, WarmCheck(w)
  PROVE  TierInv'
<1>1. Holds(w) /\ At(w, "check")
  BY DEF WarmCheck, At, Holds
<1>2. CASE Release(w)
  <2>1. HeldInv' /\ Behind(warm'[w].pc) = {}
    BY <1>1, <1>2, KeepRelease DEF WarmCheck
  <2>2. TypeOK'
    BY <1>1, <1>2, KeepRelease DEF WarmCheck, TierInv, TypeOK, Warms
  <2>3. OwnInv'
    BY <1>2, <2>1, OthersOwn DEF WarmCheck, TierInv, TypeOK, Release
  <2> QED
    BY <2>1, <2>2, <2>3, TierUntouched DEF TierInv, WarmCheck
<1>3. CASE ~Release(w)
  <2>1. /\ lock' = lock
        /\ \E t \in Tiers : warm' = [warm EXCEPT ![w].pc = "bin", ![w].tier = t]
    BY <1>3 DEF WarmCheck, Tiers
  <2>2. TypeOK'
    BY <2>1, SMTT(60) DEF WarmCheck, TierInv, TypeOK, Parts
  <2>3. HeldInv'
    BY <1>1, <2>1 DEF WarmCheck, TierInv, HeldInv, Holds, TypeOK
  <2>4. OwnInv'
    <3>1. Behind(warm'[w].pc) = {}
      BY <2>1 DEF Behind, TierInv, TypeOK
    <3> QED
      BY <2>1, <3>1, OthersOwn DEF WarmCheck, TierInv, TypeOK
  <2> QED
    BY <2>2, <2>3, <2>4, TierUntouched DEF TierInv, WarmCheck
<1> QED
  BY <1>2, <1>3

\* A warm that stops gives its lock back and leaves what it wrote.
LEMMA KeepStop ==
  ASSUME TierInv, NEW w \in Warmers, Stop(w)
  PROVE  TierInv'
<1>1. HeldInv' /\ Behind(warm'[w].pc) = {}
  BY KeepRelease DEF Stop
<1>2. TypeOK'
  BY KeepRelease DEF Stop, TierInv, TypeOK, Warms
<1>3. OwnInv'
  BY <1>1, OthersOwn DEF Stop, TierInv, TypeOK, Release
<1> QED
  BY <1>1, <1>2, <1>3, TierUntouched DEF TierInv, Stop

\* One file of a warm's own generation is replaced by what the warm writes.
LEMMA WriteOne ==
  ASSUME TierInv, NEW w \in Warmers, NEW f \in Parts, warm[w].gen \in Gens,
         tier' = [tier EXCEPT ![warm[w].gen][f] = Written(w, f)],
         UNCHANGED <<read, clobbered>>
  PROVE  /\ tier' \in [Gens -> [Parts -> Bins \cup Records \cup Stamps \cup {None}]]
         /\ \A g \in Gens, h \in Parts : tier'[g][h] \in Kinds(h) \cup {None}
         /\ OpenInv' /\ AdoptInv'
<1>1. tier' \in [Gens -> [Parts -> Bins \cup Records \cup Stamps \cup {None}]]
  BY WrittenKind DEF TierInv, TypeOK
<1>2. \A g \in Gens, h \in Parts : tier'[g][h] \in Kinds(h) \cup {None}
  BY WrittenKind DEF TierInv, TypeOK
<1>3. BinsKept
  <2>1. Written(w, "bin") # None /\ Written(w, "bin").stamp = StampOf[warm[w].gen]
    <3>1. None \notin Bins
      BY VectorTierAssumption DEF Bins, Stamps, Tiers
    <3> QED
      BY <3>1, WrittenKind DEF TierInv
  <2> QED
    BY <2>1 DEF BinsKept, Bin, TierInv, TypeOK, Parts
<1> QED
  BY <1>1, <1>2, <1>3, ReadersKeep

LEMMA KeepWarmWrite ==
  ASSUME TierInv, NEW w \in Warmers, WarmWrite(w)
  PROVE  TierInv'
<1> DEFINE f == warm[w].pc
           g == warm[w].gen
<1>1. f \in Parts \ {"stamp"} /\ Holds(w) /\ g \in Gens
  BY DEF WarmWrite, Holds, TierInv, HeldInv, Parts
<1>2. tier' = [tier EXCEPT ![g][f] = Written(w, f)]
  BY SMTT(60) DEF WarmWrite
<1>3. /\ tier' \in [Gens -> [Parts -> Bins \cup Records \cup Stamps \cup {None}]]
      /\ \A h \in Gens, k \in Parts : tier'[h][k] \in Kinds(k) \cup {None}
      /\ OpenInv' /\ AdoptInv'
  BY <1>1, <1>2, WriteOne DEF WarmWrite
<1>4. After(f) \in Parts /\ Behind(After(f)) \subseteq Behind(f) \cup {f} /\ Behind(After(f)) \subseteq Parts
  BY <1>1, Order
<1>5. warm' = [warm EXCEPT ![w].pc = After(f)]
  BY DEF WarmWrite
<1> HIDE DEF f, g
<1>6. TypeOK'
  <2>1. warm \in Warms
    BY DEF TierInv, TypeOK, Warms
  <2>2. warm' \in Warms
    BY <1>4, <1>5, <2>1 DEF Warms
  <2> QED
    BY <1>3, <2>2 DEF WarmWrite, TierInv, TypeOK, Warms
<1>7. HeldInv'
  BY <1>1, <1>4, <1>5 DEF WarmWrite, TierInv, HeldInv, Holds, TypeOK, Parts
<1>8. OwnInv'
  <2>1. warm'[w].pc = After(f) /\ warm'[w].gen = g /\ warm'[w].tier = warm[w].tier /\ warm'[w].sel = warm[w].sel
    BY <1>5 DEF TierInv, TypeOK, g
  <2>2. SUFFICES ASSUME g \notin clobbered, NEW h \in Behind(After(f))
                 PROVE  Written(w, h)' \in {None, tier'[g][h]}
    BY <1>1, <1>2, <1>5, <2>1, OthersOwn DEF WarmWrite, TierInv, TypeOK, g
  <2>3. Written(w, h)' = Written(w, h)
    BY <2>1, WrittenSame DEF g
  <2>4. CASE h = f
    BY <1>1, <1>2, <2>3, <2>4 DEF TierInv, TypeOK
  <2>5. CASE h # f
    <3>1. h \in Behind(f) /\ h \in Parts
      BY <1>4, <2>5
    <3>2. tier'[g][h] = tier[g][h]
      BY <1>1, <1>2, <2>5, <3>1 DEF TierInv, TypeOK
    <3> QED
      BY <2>3, <2>2, <3>1, <3>2 DEF TierInv, OwnInv, f, g
  <2> QED
    BY <2>4, <2>5
<1> QED
  BY <1>3, <1>6, <1>7, <1>8 DEF TierInv

LEMMA KeepWarmCommit ==
  ASSUME TierInv, NEW w \in Warmers, WarmCommit(w)
  PROVE  TierInv'
<1>1. Holds(w) /\ warm[w].gen \in Gens
  BY SMTT(60) DEF WarmCommit, At, Holds, TierInv, HeldInv
<1>2. /\ tier' \in [Gens -> [Parts -> Bins \cup Records \cup Stamps \cup {None}]]
      /\ \A g \in Gens, f \in Parts : tier'[g][f] \in Kinds(f) \cup {None}
      /\ OpenInv' /\ AdoptInv'
  BY <1>1, WriteOne DEF WarmCommit, Parts
<1>3. HeldInv' /\ Behind(warm'[w].pc) = {}
  BY <1>1, KeepRelease DEF WarmCommit
<1>4. TypeOK'
  BY <1>1, <1>2, KeepRelease DEF WarmCommit, TierInv, TypeOK, Warms
<1>5. OwnInv'
  <2>1. /\ \A v \in Warmers \ {w} : warm'[v] = warm[v]
        /\ \A g \in Gens : g # warm[w].gen => tier'[g] = tier[g]
        /\ clobbered' = clobbered
    BY DEF WarmCommit, TierInv, TypeOK, Release
  <2> QED
    BY <1>1, <1>3, <2>1, OthersOwn
<1> QED
  BY <1>2, <1>3, <1>4, <1>5 DEF TierInv

-------------------------------------------------------------------------------
(* Commits, the selection and the record. *)

\* A step that disturbs neither warms nor files keeps what is owned and read.
LEMMA WarmsUntouched ==
  ASSUME TierInv, UNCHANGED <<tier, lock, warm, read, clobbered>>
  PROVE  OwnInv' /\ OpenInv' /\ AdoptInv'
<1>1. OwnInv'
  BY DEF TierInv, OwnInv, Written
<1> QED
  BY <1>1, TierUntouched

LEMMA KeepCommitBegin ==
  ASSUME TierInv, NEW g \in Gens, CommitBegin(g)
  PROVE  TierInv'
<1>1. carry' = [pc |-> "test", gen |-> g, prior |-> current, next |-> 1, absent |-> TRUE]
  BY DEF CommitBegin, NoCarry
<1>2. TypeOK'
  <2>1. carry' \in Carries
    BY <1>1, Order DEF Carries, TierInv, TypeOK
  <2> QED
    BY <2>1 DEF Carries, TierInv, TypeOK, CommitBegin
<1>3. HeldInv'
  BY <1>1, Order DEF TierInv, TypeOK, HeldInv, CommitBegin, Holds
<1> QED
  BY <1>2, <1>3, WarmsUntouched DEF TierInv, CommitBegin

\* The carry goes on to the next file, or to the pointer.
LEMMA NextFileCarry ==
  ASSUME TierInv, carry.pc \in {"test", "link"}
  PROVE  /\ NextFile \in Carries
         /\ NextFile.gen = carry.gen /\ NextFile.prior = carry.prior
         /\ NextFile.pc \in {"test", "swap"}
         /\ NextFile.pc = "test" => NextFile.next \in 1 .. Len(CarryOrder)
<1>1. carry.next \in 1 .. 5 /\ Len(CarryOrder) = 5
  BY Order DEF TierInv, HeldInv
<1>2. carry \in Carries
  BY DEF TierInv, TypeOK, Carries
<1>3. /\ NextFile.gen = carry.gen /\ NextFile.prior = carry.prior /\ NextFile.absent = TRUE
      /\ NextFile.next = carry.next + 1 /\ NextFile.pc = IF carry.next = 5 THEN "swap" ELSE "test"
  BY <1>1, <1>2 DEF Carries, NextFile
<1>4. NextFile \in Carries
  <2>1. carry.next + 1 \in 0 .. Len(CarryOrder) + 1
    BY <1>1
  <2>2. ASSUME NEW pc \in {"test", "swap"}, NEW n \in 0 .. Len(CarryOrder) + 1
        PROVE  [carry EXCEPT !.next = n, !.absent = TRUE, !.pc = pc] \in Carries
    BY <1>2 DEF Carries
  <2> QED
    BY <2>1, <2>2 DEF NextFile
<1> QED
  BY <1>1, <1>3, <1>4

LEMMA KeepCarryTest ==
  ASSUME TierInv, CarryTest
  PROVE  TierInv'
<1>1. \/ carry' = [carry EXCEPT !.pc = "link", !.absent = TRUE]
      \/ carry' = NextFile
  BY DEF CarryTest
<1>2. TypeOK'
  <2>1. carry' \in Carries
    BY <1>1, NextFileCarry DEF CarryTest, Carries, TierInv, TypeOK
  <2> QED
    BY <2>1 DEF Carries, TierInv, TypeOK, CarryTest
<1>3. HeldInv'
  BY <1>1, NextFileCarry DEF TierInv, TypeOK, HeldInv, CarryTest, Holds
<1> QED
  BY <1>2, <1>3, WarmsUntouched DEF TierInv, CarryTest

\* A file is linked where there was none, or the generation is clobbered.
LEMMA KeepCarryLink ==
  ASSUME TierInv, CarryLink
  PROVE  TierInv'
<1> DEFINE f == Carried
           g == carry.gen
           value == tier[carry.prior][f]
<1>1. g \in Gens /\ carry.prior \in Gens /\ f \in Parts /\ carry.absent
  BY Order DEF CarryLink, TierInv, HeldInv, Carried
<1>2. \/ value = None /\ tier' = tier
      \/ value # None /\ tier' = [tier EXCEPT ![g][f] = value]
  BY DEF CarryLink, LinkAs
<1>3. clobbered \subseteq clobbered' /\ clobbered' \subseteq Gens
  BY <1>1 DEF CarryLink, LinkAs, TierInv, TypeOK
<1>4. value # None /\ tier[g][f] # None => g \in clobbered'
  BY <1>1 DEF CarryLink, LinkAs
<1>5. value \in Kinds(f) \cup {None} /\ value \in Bins \cup Records \cup Stamps \cup {None}
  BY <1>1 DEF TierInv, TypeOK
<1>6. carry' = NextFile /\ UNCHANGED <<current, selection, lock, warm, tune, read, spent>>
  BY DEF CarryLink, LinkAs
<1>7. tier \in [Gens -> [Parts -> Bins \cup Records \cup Stamps \cup {None}]]
  BY DEF TierInv, TypeOK
<1>8. HeldInv'
  BY <1>6, NextFileCarry DEF CarryLink, TierInv, TypeOK, HeldInv, Holds
<1> HIDE DEF f, g, value
<1>9. TypeOK'
  <2>1. tier' \in [Gens -> [Parts -> Bins \cup Records \cup Stamps \cup {None}]]
    BY <1>1, <1>2, <1>5, <1>7
  <2>2. ASSUME NEW h \in Gens, NEW k \in Parts
        PROVE  tier'[h][k] \in Kinds(k) \cup {None}
    <3>1. tier[h][k] \in Kinds(k) \cup {None}
      BY DEF TierInv, TypeOK
    <3>2. tier'[h][k] = tier[h][k] \/ (k = f /\ tier'[h][k] = value)
      BY <1>1, <1>2, <1>7
    <3> QED
      BY <1>5, <3>1, <3>2
  <2>3. carry' \in Carries
    BY <1>6, NextFileCarry DEF CarryLink
  <2> QED
    BY <1>3, <1>6, <2>1, <2>2, <2>3 DEF Carries, TierInv, TypeOK
<1>10. OwnInv'
  <2>1. SUFFICES ASSUME NEW w \in Warmers, warm[w].gen \notin clobbered',
                        NEW k \in Behind(warm[w].pc)
                 PROVE  Written(w, k)' \in {None, tier'[warm[w].gen][k]}
    BY <1>6 DEF OwnInv
  <2>2. Written(w, k)' = Written(w, k)
    BY <1>6, WrittenSame
  <2>3. Written(w, k) \in {None, tier[warm[w].gen][k]}
    BY <1>3, <2>1 DEF TierInv, OwnInv
  <2>4. warm[w].gen \in Gens /\ k \in Parts
    BY <2>1, Order DEF TierInv, HeldInv, Holds, Behind
  <2>5. CASE tier'[warm[w].gen][k] = tier[warm[w].gen][k]
    BY <2>2, <2>3, <2>5
  <2>6. CASE tier'[warm[w].gen][k] # tier[warm[w].gen][k]
    <3>1. warm[w].gen = g /\ k = f /\ value # None
      BY <1>1, <1>2, <1>7, <2>4, <2>6
    <3> QED
      BY <1>4, <2>1, <2>2, <2>3, <3>1
  <2> QED
    BY <2>5, <2>6
<1>11. BinsKept
  BY <1>1, <1>2, <1>4, <1>7 DEF BinsKept, Bin, Parts
<1> QED
  BY <1>3, <1>6, <1>9, <1>8, <1>10, <1>11, ReadersKeep DEF TierInv

LEMMA KeepCommitSwap ==
  ASSUME TierInv, CommitSwap
  PROVE  TierInv'
<1>1. TypeOK'
  BY Order DEF TierInv, TypeOK, HeldInv, CommitSwap, NoCarry
<1>2. HeldInv'
  BY DEF TierInv, HeldInv, CommitSwap, NoCarry, Holds
<1> QED
  BY <1>1, <1>2, WarmsUntouched DEF TierInv, CommitSwap

LEMMA KeepCommitDies ==
  ASSUME TierInv, CommitDies
  PROVE  TierInv'
<1>1. TypeOK'
  BY Order DEF TierInv, TypeOK, CommitDies, NoCarry
<1>2. HeldInv'
  BY DEF TierInv, HeldInv, CommitDies, NoCarry, Holds
<1> QED
  BY <1>1, <1>2, WarmsUntouched DEF TierInv, CommitDies

LEMMA KeepFlip ==
  ASSUME TierInv, Flip
  PROVE  TierInv'
<1>1. TypeOK'
  BY DEF TierInv, TypeOK, Flip
<1>2. HeldInv'
  BY DEF TierInv, HeldInv, Flip, Holds
<1> QED
  BY <1>1, <1>2, WarmsUntouched DEF TierInv, Flip

LEMMA KeepTuneRead ==
  ASSUME TierInv, TuneRead
  PROVE  TierInv'
<1>1. RecordOf(current) \in Records \cup {None}
  BY DEF TierInv, TypeOK, RecordOf, Kinds, Parts
<1>2. TypeOK'
  BY <1>1 DEF TierInv, TypeOK, TuneRead
<1>3. HeldInv'
  BY DEF TierInv, TypeOK, HeldInv, TuneRead, Holds
<1> QED
  BY <1>2, <1>3, WarmsUntouched DEF TierInv, TuneRead

\* The record written back is the one read, or the generation is clobbered.
LEMMA KeepTuneWrite ==
  ASSUME TierInv, TuneWrite
  PROVE  TierInv'
<1> DEFINE g == tune.gen
<1>1. g \in Gens /\ "record" \in Parts /\ tune.record \in Records \cup {None}
  BY DEF TuneWrite, TierInv, HeldInv, TypeOK, Parts
<1>2. tier' = [tier EXCEPT ![g]["record"] = tune.record]
  BY DEF TuneWrite
<1>3. /\ clobbered \subseteq clobbered' /\ clobbered' \subseteq Gens
      /\ g \in clobbered' \/ tier[g]["record"] = tune.record
  BY <1>1 DEF TuneWrite, TierInv, TypeOK, RecordOf
<1>4. tier \in [Gens -> [Parts -> Bins \cup Records \cup Stamps \cup {None}]]
  BY DEF TierInv, TypeOK
<1>5. TypeOK'
  <2>1. /\ tier' \in [Gens -> [Parts -> Bins \cup Records \cup Stamps \cup {None}]]
        /\ \A h \in Gens, k \in Parts : tier'[h][k] \in Kinds(k) \cup {None}
    BY <1>1, <1>2, <1>4 DEF TierInv, TypeOK, Kinds
  <2>2. tune' \in [pc : {"idle", "write"}, gen : Gens \cup {None}, record : Records \cup {None}]
    BY DEF TuneWrite, NoTune
  <2> QED
    BY <1>3, <2>1, <2>2 DEF TuneWrite, TierInv, TypeOK
<1>6. HeldInv'
  BY DEF TuneWrite, NoTune, TierInv, HeldInv, Holds
<1>7. \A h \in Gens : h \notin clobbered' => tier'[h] = tier[h]
  BY <1>1, <1>2, <1>3, <1>4
<1>8. OwnInv'
  <2>1. SUFFICES ASSUME NEW w \in Warmers, warm[w].gen \notin clobbered',
                        NEW k \in Behind(warm[w].pc)
                 PROVE  Written(w, k)' \in {None, tier'[warm[w].gen][k]}
    BY DEF OwnInv, TuneWrite
  <2>2. Written(w, k)' = Written(w, k)
    BY WrittenSame DEF TuneWrite
  <2>3. warm[w].gen \in Gens
    BY <2>1 DEF TierInv, HeldInv, Holds, Behind
  <2> QED
    BY <1>3, <1>7, <2>1, <2>2, <2>3 DEF TierInv, OwnInv
<1>9. BinsKept
  BY <1>7 DEF BinsKept, Bin
<1> QED
  BY <1>3, <1>5, <1>6, <1>8, <1>9, ReadersKeep DEF TierInv, TuneWrite

-------------------------------------------------------------------------------
(* Readers. *)

\* The readers that TypeOK speaks of.
Reads == [kind : {"open", "adopt"}, gen : Gens \cup {None}, record : Records \cup {None},
          pc : {"idle", "stamp", "record", "peek", "weights", "files", "load"},
          base : Stamps \cup {None}]

\* What a reader's step has to show: its types, its generation, and what it
\* may rely on.
LEMMA ReaderMoves ==
  ASSUME TierInv, UNCHANGED <<current, selection, tier, lock, warm, carry, tune, clobbered, spent>>,
         read' \in Reads, read'.pc # "idle" => read'.gen \in Gens, OpenInv', AdoptInv'
  PROVE  TierInv'
<1>1. TypeOK'
  BY DEF TierInv, TypeOK, Reads
<1>2. HeldInv'
  BY DEF TierInv, HeldInv, Holds
<1>3. OwnInv'
  BY DEF TierInv, OwnInv, Written
<1> QED
  BY <1>1, <1>2, <1>3 DEF TierInv

LEMMA KeepRead ==
  ASSUME TierInv, ReadStep
  PROVE  TierInv'
<1>1. read \in Reads /\ (read.pc # "idle" => read.gen \in Gens) /\ current \in Gens
  BY DEF TierInv, TypeOK, HeldInv, Reads
<1>2. /\ \A g \in Gens : Bin(g) \in Bins \cup {None} /\ RecordOf(g) \in Records \cup {None}
                         /\ FilesOf(g) \in Stamps \cup {None}
      /\ \A b \in Bins : b.stamp \in Stamps
  BY DEF TierInv, TypeOK, Bin, RecordOf, FilesOf, Kinds, Parts, Bins
<1>3. UNCHANGED <<current, selection, tier, lock, warm, carry, tune, clobbered, spent>>
  BY DEF ReadStep
<1>4. \A g : Bin(g)' = Bin(g)
  BY <1>3 DEF Bin
<1>5. OpenInv /\ AdoptInv
  BY DEF TierInv
<1>6. ASSUME NEW kind \in {"open", "adopt"}, ReadBegin(kind)
      PROVE  TierInv'
  <2>1. read' \in Reads /\ read'.gen \in Gens /\ read'.pc \in {"stamp", "record"}
    BY <1>1, <1>6 DEF ReadBegin, NoRead, Reads
  <2>2. OpenInv' /\ AdoptInv'
    BY <2>1 DEF OpenInv, AdoptInv, Opening, Adopting
  <2> QED
    BY <1>3, <2>1, <2>2, ReaderMoves
<1>7. ASSUME ReadEnd
      PROVE  TierInv'
  <2>1. read' \in Reads /\ read'.pc = "idle"
    BY <1>7 DEF ReadEnd, NoRead, Reads
  <2>2. OpenInv' /\ AdoptInv'
    BY <2>1 DEF OpenInv, AdoptInv, Opening, Adopting
  <2> QED
    BY <1>3, <2>1, <2>2, ReaderMoves
<1>8. ASSUME Opening("stamp"), Go("record")
      PROVE  TierInv'
  <2>1. read' \in Reads /\ read'.gen = read.gen /\ read'.kind = "open" /\ read'.pc = "record"
    BY <1>1, <1>8 DEF Go, Reads, Opening
  <2>2. OpenInv' /\ AdoptInv'
    BY <2>1 DEF OpenInv, AdoptInv, Opening, Adopting
  <2> QED
    BY <1>1, <1>3, <1>8, <2>1, <2>2, ReaderMoves DEF Opening
<1>9. CASE OpenRecord
  <2>1. CASE ReadEnd
    BY <1>7, <2>1
  <2>2. CASE read' = [read EXCEPT !.pc = "peek", !.record = RecordOf(read.gen)]
    <3>1. read' \in Reads /\ read'.gen = read.gen /\ read'.kind = "open" /\ read'.pc = "peek"
      BY <1>1, <1>2, <1>9, <2>2 DEF OpenRecord, Opening, Reads
    <3>2. OpenInv' /\ AdoptInv'
      BY <3>1 DEF OpenInv, AdoptInv, Opening, Adopting
    <3> QED
      BY <1>1, <1>3, <1>9, <3>1, <3>2, ReaderMoves DEF Opening, OpenRecord
  <2> QED
    BY <1>9, <2>1, <2>2 DEF OpenRecord
<1>10. CASE OpenPeek
  <2>1. CASE ReadEnd
    BY <1>7, <2>1
  <2>2. CASE ~ReadEnd
    <3>1. HeaderMatches(read.gen, read.record) /\ \E pc \in {"weights", "load"} : Go(pc)
      BY <1>10, <2>2 DEF OpenPeek
    <3>2. read' \in Reads /\ read'.gen = read.gen /\ read'.kind = "open"
      BY <1>1, <1>10, <3>1 DEF OpenPeek, Opening, Go, Reads
    <3>3. OpenInv' /\ AdoptInv'
      BY <1>3, <1>4, <3>1, <3>2 DEF HeaderMatches, OpenInv, AdoptInv, Opening, Adopting
    <3> QED
      BY <1>1, <1>3, <1>10, <3>2, <3>3, ReaderMoves DEF Opening, OpenPeek
  <2> QED
    BY <2>1, <2>2
<1>11. CASE OpenWeights
  <2>1. CASE ReadEnd
    BY <1>7, <2>1
  <2>2. CASE ~ReadEnd
    <3>1. Opening("weights") /\ Go("load")
      BY <1>11, <2>2 DEF OpenWeights
    <3>2. read' \in Reads /\ read'.gen = read.gen /\ read'.kind = "open"
      BY <1>1, <3>1 DEF Opening, Go, Reads
    <3>3. OpenInv' /\ AdoptInv'
      BY <1>3, <1>4, <1>5, <3>1, <3>2 DEF OpenInv, AdoptInv, Opening, Adopting
    <3> QED
      BY <1>1, <1>3, <3>1, <3>2, <3>3, ReaderMoves DEF Opening
  <2> QED
    BY <2>1, <2>2
<1>12. CASE AdoptRecord
  <2>1. read' \in Reads /\ read'.gen = read.gen /\ read'.kind = "adopt" /\ read'.pc = "peek"
    BY <1>1, <1>12 DEF AdoptRecord, Adopting, Go, Reads
  <2>2. OpenInv' /\ AdoptInv'
    BY <2>1 DEF OpenInv, AdoptInv, Opening, Adopting
  <2> QED
    BY <1>1, <1>3, <1>12, <2>1, <2>2, ReaderMoves DEF Adopting, AdoptRecord
<1>13. CASE AdoptPeek
  <2>1. Bin(read.gen) # None /\ read.gen \in Gens
    BY <1>1, <1>13 DEF AdoptPeek, Adopting
  <2>2. /\ read' \in Reads /\ read'.gen = read.gen /\ read'.kind = "adopt"
        /\ read'.base = Bin(read.gen).stamp
    BY <1>1, <1>2, <1>13, <2>1 DEF AdoptPeek, Adopting, Reads
  <2>3. OpenInv' /\ AdoptInv'
    BY <1>3, <1>4, <2>1, <2>2 DEF OpenInv, AdoptInv, Opening, Adopting
  <2> QED
    BY <1>3, <2>1, <2>2, <2>3, ReaderMoves
<1>14. CASE AdoptFiles
  <2>1. read.gen \in Gens /\ FilesOf(read.gen) = read.base /\ Adopting("files")
    BY <1>1, <1>14 DEF AdoptFiles, Adopting
  <2>2. /\ read' \in Reads /\ read'.gen = read.gen /\ read'.kind = "adopt"
        /\ read'.base = read.base
    BY <1>1, <1>14, <2>1 DEF AdoptFiles, Adopting, Reads
  <2>3. OpenInv' /\ AdoptInv'
    BY <1>3, <1>4, <1>5, <2>1, <2>2 DEF OpenInv, AdoptInv, Opening, Adopting
  <2> QED
    BY <1>3, <2>1, <2>2, <2>3, ReaderMoves
<1> QED
  BY <1>6, <1>7, <1>8, <1>9, <1>10, <1>11, <1>12, <1>13, <1>14
     DEF ReadStep, OpenStamp, OpenLoad, AdoptLoad, AdoptDecline

-------------------------------------------------------------------------------
LEMMA InvNext == TierInv /\ [Next]_vars => TierInv'
<1> SUFFICES ASSUME TierInv, [Next]_vars PROVE TierInv'
  OBVIOUS
<1>1. ASSUME NEW w \in Warmers, WarmStep(w) \/ Stop(w)
      PROVE  TierInv'
  BY <1>1, KeepWarmBegin, KeepWarmResolve, KeepWarmCheck, KeepWarmWrite, KeepWarmCommit, KeepStop
     DEF WarmStep
<1>2. CASE CommitStep
  BY <1>2, KeepCarryTest, KeepCarryLink, KeepCommitSwap DEF CommitStep
<1>3. CASE UNCHANGED vars
  <2>1. TypeOK' /\ HeldInv'
    BY <1>3 DEF vars, TierInv, TypeOK, HeldInv, Holds
  <2> QED
    BY <1>3, <2>1, WarmsUntouched DEF vars, TierInv
<1> QED
  BY <1>1, <1>2, <1>3, KeepCommitBegin, KeepCommitDies, KeepFlip, KeepTuneRead, KeepTuneWrite, KeepRead
     DEF Next

LEMMA TierInvHolds == Spec => []TierInv
BY InvInit, InvNext, PTL DEF Spec

\* Every file of the tier holds what its name says, and every warm, commit,
\* rewrite and reader is somewhere it can be, for every instance
\* (lib.rs ensure_ann, commit_generation, Searcher::open_with_encoder).
THEOREM TierTypes == Spec => []TypeOK
<1>1. TierInv => TypeOK
  BY DEF TierInv
<1> QED
  BY <1>1, TierInvHolds, PTL

\* A warm commits its own files: the file lock of warm_ann_with_cancel is on
\* the generation it resolved, the carry fills in absent files alone, and a
\* rewrite puts back the record it read, or its generation is clobbered.
THEOREM TierCommitsItsOwn == Spec => []CommitsItsOwn
<1>1. TierInv => CommitsItsOwn
  <2>1. Behind("stamp") = Parts \ {"stamp"}
    BY DEF Behind, Parts
  <2> QED
    BY <2>1 DEF TierInv, OwnInv, CommitsItsOwn, At
<1> QED
  BY <1>1, TierInvHolds, PTL

\* The bin a searcher opens after the coherence check is of its own graph.
THEOREM TierServesOwnGraph == Spec => []HandleServesOwnGraph
<1>1. TierInv => HandleServesOwnGraph
  BY DEF TierInv, OpenInv, HandleServesOwnGraph
<1> QED
  BY <1>1, TierInvHolds, PTL

\* The rows an adoption loads are those its map describes or the graph's own.
THEOREM TierAdoptsMappedOrOwn == Spec => []AdoptedRowsAreMappedOrOwn
<1>1. TierInv => AdoptedRowsAreMappedOrOwn
  BY DEF TierInv, AdoptInv, AdoptedRowsAreMappedOrOwn
<1> QED
  BY <1>1, TierInvHolds, PTL
-------------------------------------------------------------------------------
(* Generations of different stamps.  A stamp of a generation's own is never   *)
(* carried into it: it comes from a warm's commit, before which that warm has *)
(* written every file.  So a tier with its own stamp has its own map and a    *)
(* record such as warms write, and the next warm that is asked for the same   *)
(* selection only writes the same again.                                      *)

StampsDiffer == \A g, h \in Gens : StampOf[g] = StampOf[h] => g = h

\* The records a warm writes in a generation.
OwnRecords(g) ==
  {r \in Records : /\ r.of = StampOf[g]
                   /\ r.tier = "learned" => StampOf[g] \in Trainable /\ ~r.noted
                   /\ r.tier = "lexical" /\ r.noted => StampOf[g] \notin Trainable}

\* A stamp that went round leaves its generation with one.
Marked == \A p, g \in Gens : StampFile(p) = StampOf[g] => StampFile(g) # None

\* A tier with its own stamp has its own map and record.
Settled ==
  \A g \in Gens : g \notin clobbered /\ StampFile(g) = StampOf[g] =>
    FilesOf(g) = StampOf[g] /\ RecordOf(g) \in OwnRecords(g)

\* A warm that writes has chosen its model by selection and corpus.
Chosen ==
  \A w \in Warmers : warm[w].pc \in Parts =>
    (warm[w].tier = "learned" <=> warm[w].sel = "learned" /\ StampOf[warm[w].gen] \in Trainable)

FreshInv == TierInv /\ Marked /\ Settled /\ Chosen

\* None is no stamp and no record.
LEMMA Apart ==
  /\ \A g \in Gens : StampOf[g] \in Stamps /\ StampOf[g] # None
  /\ None \notin Stamps /\ None \notin Records /\ None \notin Bins
<1>1. \A g \in Gens : StampOf[g] \in Stamps /\ StampOf[g] # None
  BY VectorTierAssumption DEF Stamps
<1>2. None \notin Bins
  BY VectorTierAssumption DEF Bins, Stamps, Tiers
<1>3. None \notin Stamps
  BY VectorTierAssumption DEF Stamps
<1>4. None \notin Records
  BY VectorTierAssumption DEF Records, Stamps, Tiers
<1> QED
  BY <1>1, <1>2, <1>3, <1>4

LEMMA FreshInvInit == Init => FreshInv
<1> SUFFICES ASSUME Init PROVE FreshInv
  OBVIOUS
<1>1. Marked /\ Settled
  BY Apart DEF Init, Marked, Settled, StampFile, Parts
<1>2. Chosen
  BY DEF Init, Chosen, Quiet, Parts
<1> QED
  BY <1>1, <1>2, InvInit DEF FreshInv

-------------------------------------------------------------------------------
(* What a step may do to a file. *)

\* A file that a warm on its generation writes, and one that a carry fills in
\* or, in a clobbered generation, replaces.
WrittenBy(w, g, f) ==
  /\ warm[w].gen = g /\ warm[w].pc = f
  /\ tier'[g][f] = Written(w, f)
Filled(g, f) ==
  /\ tier[g][f] = None \/ g \in clobbered'
  /\ tier'[g][f] # None
  /\ \E p \in Gens : tier'[g][f] = tier[p][f]

LEMMA Moves ==
  ASSUME TierInv, [Next]_vars, NEW g \in Gens, NEW f \in Parts
  PROVE  \/ tier'[g][f] = tier[g][f]
         \/ \E w \in Warmers : WrittenBy(w, g, f)
         \/ Filled(g, f)
         \/ f = "record" /\ g \in clobbered'
<1>0. tier \in [Gens -> [Parts -> Bins \cup Records \cup Stamps \cup {None}]]
  BY DEF TierInv, TypeOK
<1>1. ASSUME NEW w \in Warmers, WarmWrite(w) \/ WarmCommit(w)
      PROVE  tier'[g][f] = tier[g][f] \/ WrittenBy(w, g, f)
  <2>1. tier' = [tier EXCEPT ![warm[w].gen][warm[w].pc] = Written(w, warm[w].pc)]
    BY <1>1 DEF WarmWrite, WarmCommit, At
  <2>2. warm[w].gen \in Gens /\ warm[w].pc \in Parts
    BY <1>1 DEF WarmWrite, WarmCommit, At, TierInv, HeldInv, Holds, Parts
  <2> QED
    BY <1>0, <2>1, <2>2 DEF WrittenBy
<1>2. CASE CarryLink
  <2>1. /\ carry.gen \in Gens /\ carry.prior \in Gens /\ Carried \in Parts /\ carry.absent
    BY <1>2, Order DEF CarryLink, TierInv, HeldInv, Carried
  <2>2. \/ tier' = tier
        \/ /\ tier[carry.prior][Carried] # None
           /\ tier' = [tier EXCEPT ![carry.gen][Carried] = tier[carry.prior][Carried]]
           /\ tier[carry.gen][Carried] # None => carry.gen \in clobbered'
    BY <1>2, <2>1 DEF CarryLink, LinkAs
  <2> QED
    BY <1>0, <2>1, <2>2 DEF Filled
<1>3. CASE TuneWrite
  <2>1. tune.gen \in Gens
    BY <1>3 DEF TuneWrite, TierInv, HeldInv
  <2>2. tier' = [tier EXCEPT ![tune.gen]["record"] = tune.record]
    BY <1>3 DEF TuneWrite
  <2>3. tier[tune.gen]["record"] # tune.record => tune.gen \in clobbered'
    BY <1>3, SMTT(60) DEF TuneWrite, RecordOf
  <2> QED
    BY <1>0, <2>1, <2>2, <2>3 DEF Parts
<1>4. \/ tier' = tier
      \/ \E w \in Warmers : WarmWrite(w) \/ WarmCommit(w)
      \/ CarryLink \/ TuneWrite
  BY ZenonT(90) DEF Next, vars, WarmStep, WarmBegin, WarmResolve, WarmCheck, Stop, CommitBegin, CommitStep, CarryTest,
         CommitSwap, CommitDies, Flip, TuneRead, ReadStep
<1> QED
  BY <1>1, <1>2, <1>3, <1>4

\* What was clobbered stays so.
LEMMA ClobberedStays ==
  ASSUME [Next]_vars
  PROVE  clobbered \subseteq clobbered'
BY DEF Next, vars, WarmStep, WarmBegin, WarmResolve, WarmCheck, WarmWrite, WarmCommit, Stop, CommitBegin,
       CommitStep, CarryTest, CarryLink, LinkAs, CommitSwap, CommitDies, Flip, TuneRead, TuneWrite, ReadStep

\* A stamp is not taken away, and a generation's own comes from a warm.
LEMMA StampMoves ==
  ASSUME TierInv, [Next]_vars, Marked, NEW g \in Gens
  PROVE  /\ StampFile(g) # None => StampFile(g)' # None
         /\ StampFile(g)' = StampOf[g] =>
              \/ StampFile(g) = StampOf[g]
              \/ \E w \in Warmers : WrittenBy(w, g, "stamp")
              \/ g \in clobbered'
<1>1. ASSUME NEW w \in Warmers, WrittenBy(w, g, "stamp")
      PROVE  tier'[g]["stamp"] = StampOf[g]
  BY <1>1 DEF WrittenBy, Written
<1>2. ASSUME Filled(g, "stamp")
      PROVE  tier'[g]["stamp"] # None /\ (g \notin clobbered' => tier'[g]["stamp"] # StampOf[g])
  BY <1>2 DEF Filled, Marked, StampFile
<1> QED
  BY <1>1, <1>2, Moves, Apart DEF StampFile, Parts

LEMMA MarkedStays ==
  ASSUME StampsDiffer, TierInv, [Next]_vars, Marked
  PROVE  Marked'
<1> SUFFICES ASSUME NEW p \in Gens, NEW g \in Gens, StampFile(p)' = StampOf[g]
             PROVE  StampFile(g)' # None
  BY DEF Marked
<1>1. CASE StampFile(p)' = StampFile(p)
  BY <1>1, StampMoves DEF Marked
<1>2. CASE p = g
  BY <1>2, Apart
<1>3. ASSUME NEW w \in Warmers, WrittenBy(w, p, "stamp") PROVE p = g
  BY <1>3 DEF WrittenBy, Written, StampFile, StampsDiffer
<1>4. CASE Filled(p, "stamp")
  <2>1. StampFile(g) # None
    BY <1>4 DEF Filled, Marked, StampFile
  <2> QED
    BY <2>1, StampMoves
<1> QED
  BY <1>1, <1>2, <1>3, <1>4, Moves DEF StampFile, Parts

\* What a warm with a chosen model writes as record.
LEMMA WrittenRecord ==
  ASSUME TypeOK, Chosen, NEW w \in Warmers, warm[w].pc \in Parts, warm[w].gen \in Gens
  PROVE  Written(w, "record") \in OwnRecords(warm[w].gen)
<1>1. warm[w].tier \in Tiers /\ warm[w].sel \in Tiers /\ StampOf[warm[w].gen] \in Stamps
  BY Apart DEF TypeOK
<1>2. Written(w, "record") = [tier |-> warm[w].tier, of |-> StampOf[warm[w].gen], noted |-> warm[w].tier # warm[w].sel]
  BY DEF Written
<1>3. Written(w, "record") \in Records
  BY <1>1 DEF Written, Records
<1>4. /\ Written(w, "record").of = StampOf[warm[w].gen]
      /\ Written(w, "record").tier = warm[w].tier
  BY <1>2
<1>5. Written(w, "record").noted <=> warm[w].tier # warm[w].sel
  BY DEF Written
<1>6. warm[w].tier = "learned" <=> warm[w].sel = "learned" /\ StampOf[warm[w].gen] \in Trainable
  BY DEF Chosen
<1>7. Written(w, "record").tier = "learned" =>
        StampOf[warm[w].gen] \in Trainable /\ ~Written(w, "record").noted
  BY <1>4, <1>5, <1>6
<1>8. Written(w, "record").tier = "lexical" /\ Written(w, "record").noted => StampOf[warm[w].gen] \notin Trainable
  BY <1>1, <1>4, <1>5, <1>6 DEF Tiers
<1> QED
  BY <1>3, <1>4, <1>7, <1>8 DEF OwnRecords

LEMMA SettledStays ==
  ASSUME FreshInv, [Next]_vars
  PROVE  Settled'
<1> SUFFICES ASSUME NEW g \in Gens, g \notin clobbered', StampFile(g)' = StampOf[g]
             PROVE  FilesOf(g)' = StampOf[g] /\ RecordOf(g)' \in OwnRecords(g)
  BY DEF Settled, OwnRecords
<1>0. TypeOK /\ TierInv /\ g \notin clobbered
  BY ClobberedStays DEF FreshInv, TierInv
<1>1. CASE StampFile(g) = StampOf[g]
  <2>1. FilesOf(g) = StampOf[g] /\ RecordOf(g) \in OwnRecords(g)
    BY <1>0, <1>1 DEF FreshInv, Settled
  <2>2. ~Filled(g, "files") /\ ~Filled(g, "record")
    BY <2>1, Apart DEF Filled, FilesOf, RecordOf, OwnRecords
  <2>3. ASSUME NEW w \in Warmers, WrittenBy(w, g, "files") PROVE tier'[g]["files"] = StampOf[g]
    BY <2>3 DEF WrittenBy, Written
  <2>4. ASSUME NEW w \in Warmers, WrittenBy(w, g, "record") PROVE tier'[g]["record"] \in OwnRecords(g)
    BY <1>0, <2>4, WrittenRecord DEF WrittenBy, FreshInv, Parts
  <2>5. FilesOf(g)' = StampOf[g]
    BY <1>0, <2>1, <2>2, <2>3, Moves DEF FilesOf, Parts
  <2>6. RecordOf(g)' \in OwnRecords(g)
    BY <1>0, <2>1, <2>2, <2>4, Moves DEF RecordOf, Parts
  <2> QED
    BY <2>5, <2>6
<1>2. ASSUME NEW w \in Warmers, WrittenBy(w, g, "stamp")
      PROVE  FilesOf(g)' = StampOf[g] /\ RecordOf(g)' \in OwnRecords(g)
  <2>1. warm[w].gen = g /\ warm[w].pc = "stamp" /\ Behind("stamp") = Parts \ {"stamp"}
    BY <1>2 DEF WrittenBy, Behind, Parts
  <2>2. Written(w, "files") = StampOf[g] /\ Written(w, "record") \in OwnRecords(g)
    BY <1>0, <2>1, WrittenRecord DEF Written, FreshInv, Parts
  <2>3. tier[g]["files"] = StampOf[g] /\ tier[g]["record"] = Written(w, "record")
    BY <1>0, <2>1, <2>2, Apart DEF TierInv, OwnInv, Parts, OwnRecords
  <2>4. \A f \in {"files", "record"} : tier'[g][f] = tier[g][f]
    <3> SUFFICES ASSUME NEW f \in {"files", "record"} PROVE tier'[g][f] = tier[g][f]
      OBVIOUS
    <3>1. ~Filled(g, f)
      BY <2>2, <2>3, Apart DEF Filled, OwnRecords
    <3>2. ASSUME NEW v \in Warmers, WrittenBy(v, g, f) PROVE FALSE
      <4>1. Holds(w) /\ Holds(v) /\ warm[v].gen = g /\ warm[v].pc = f
        BY <2>1, <3>2 DEF WrittenBy, Holds
      <4>2. v = w
        BY <4>1, <2>1 DEF FreshInv, TierInv, HeldInv
      <4> QED
        BY <4>1, <4>2, <2>1
    <3> QED
      BY <1>0, <3>1, <3>2, Moves DEF Parts
  <2> QED
    BY <2>2, <2>3, <2>4 DEF FilesOf, RecordOf
<1> QED
  BY <1>0, <1>1, <1>2, StampMoves DEF FreshInv

LEMMA ChosenStays ==
  ASSUME FreshInv, [Next]_vars
  PROVE  Chosen'
<1>1. TypeOK
  BY DEF FreshInv, TierInv
<1>2. ASSUME warm' = warm PROVE Chosen'
  BY <1>2 DEF FreshInv, Chosen
<1>3. ASSUME NEW w \in Warmers, WarmStep(w) \/ Stop(w) PROVE Chosen'
  <2>1. \A v \in Warmers \ {w} : warm'[v] = warm[v]
    BY <1>1, <1>3 DEF WarmStep, WarmBegin, WarmResolve, WarmCheck, WarmWrite, WarmCommit, Stop, Release, TypeOK
  <2>2. SUFFICES ASSUME warm'[w].pc \in Parts
                 PROVE  warm'[w].tier = "learned" <=>
                          warm'[w].sel = "learned" /\ StampOf[warm'[w].gen] \in Trainable
    BY <2>1 DEF FreshInv, Chosen
  <2>3. CASE WarmCheck(w) /\ ~Release(w)
    BY <1>1, <2>2, <2>3, SMTT(60) DEF WarmCheck, TypeOK
  <2>4. CASE WarmWrite(w)
    <3>1. /\ warm[w].pc \in Parts /\ warm'[w].gen = warm[w].gen
          /\ warm'[w].tier = warm[w].tier /\ warm'[w].sel = warm[w].sel
      BY <1>1, <2>4 DEF WarmWrite, TypeOK
    <3> QED
      BY <3>1 DEF FreshInv, Chosen
  <2>5. CASE Release(w)
    BY <1>1, <2>2, <2>5 DEF Release, Quiet, TypeOK, Parts
  <2>6. CASE WarmBegin(w) \/ WarmResolve(w)
    <3>1. ASSUME WarmBegin(w) PROVE warm'[w].pc = "resolve"
      BY <1>1, <3>1 DEF WarmBegin, Quiet, TypeOK
    <3>2. ASSUME WarmResolve(w) PROVE warm'[w].pc \in {"check", "idle"}
      <4>1. \/ warm' = [warm EXCEPT ![w].pc = "check", ![w].gen = current]
            \/ warm' = [warm EXCEPT ![w] = Quiet]
        BY <3>2 DEF WarmResolve
      <4> QED
        BY <1>1, <4>1 DEF Quiet, TypeOK
    <3> QED
      BY <2>2, <2>6, <3>1, <3>2 DEF Parts
  <2> QED
    BY <1>3, <2>3, <2>4, <2>5, <2>6 DEF WarmStep, WarmCommit, Stop
<1> QED
  BY <1>2, <1>3 DEF Next, vars, CommitBegin, CommitStep, CarryTest, CarryLink, LinkAs, CommitSwap, CommitDies,
                    Flip, TuneRead, TuneWrite, ReadStep

LEMMA FreshInvHolds ==
  ASSUME StampsDiffer
  PROVE  Spec => []FreshInv
<1>1. FreshInv /\ [Next]_vars => FreshInv'
  BY InvNext, MarkedStays, SettledStays, ChosenStays DEF FreshInv
<1> QED
  BY <1>1, FreshInvInit, PTL DEF Spec

\* A tier that ann_is_fresh accepts has the map the live tier's adoption needs,
\* though nobody looks: no carry brings a generation its own stamp.
THEOREM TierFreshIsAdoptable ==
  ASSUME StampsDiffer
  PROVE  Spec => []FreshIsAdoptable
<1>1. FreshInv => FreshIsAdoptable
  BY DEF FreshInv, TierInv, FreshIsAdoptable, Fresh, HeaderMatches, Settled
<1> QED
  BY <1>1, FreshInvHolds, PTL

-------------------------------------------------------------------------------
(* What is fresh stays so. *)

\* A warm for the selection writes what a fresh tier already has, as far as
\* the criteria tell.
LEMMA WriteKeepsFresh ==
  ASSUME FreshInv, [Next]_vars, NEW g \in Gens, NEW sel \in Tiers, Fresh(g, sel), g \notin clobbered',
         \A w \in Warmers : warm[w].gen = g => warm[w].sel = sel
  PROVE  Fresh(g, sel)'
<1>0. TypeOK /\ TierInv /\ g \notin clobbered
  BY ClobberedStays DEF FreshInv, TierInv
<1>1. RecordOf(g) \in OwnRecords(g) /\ FilesOf(g) = StampOf[g] /\ StampFile(g) = StampOf[g]
  BY <1>0 DEF Fresh, FreshInv, Settled
<1>2. Bin(g) # None /\ Bin(g).stamp = StampOf[g] /\ Dim(Bin(g).tier) = Dim(RecordOf(g).tier)
  BY DEF Fresh, HeaderMatches
<1>3. \A f \in {"bin", "files", "record", "stamp"} : ~Filled(g, f)
  BY <1>0, <1>1, <1>2, Apart DEF Filled, Bin, FilesOf, RecordOf, StampFile, OwnRecords
<1>4. PICK t \in Tiers : t = "learned" <=> sel = "learned" /\ StampOf[g] \in Trainable
  BY DEF Tiers
<1>5. RecordOf(g).tier = t /\ RecordOf(g).of = StampOf[g] /\ RecordOf(g).noted = (t # sel)
  <2>1. RecordOf(g) \in Records /\ sel \in Tiers
    BY <1>1 DEF OwnRecords
  <2>2. /\ RecordOf(g).tier \in Tiers /\ RecordOf(g).noted \in BOOLEAN
        /\ RecordOf(g).of = StampOf[g]
    BY <1>1 DEF OwnRecords, Records
  <2>3. Satisfies(g, RecordOf(g), sel)
    BY DEF Fresh
  <2>4. CASE RecordOf(g).tier = "lexical"
    <3>1. RecordOf(g).noted = (sel = "learned")
      BY <2>3, <2>4 DEF Satisfies
    <3>2. sel = "learned" => StampOf[g] \notin Trainable
      BY <1>1, <2>4, <3>1 DEF OwnRecords
    <3>3. t = "lexical"
      BY <1>4, <3>2 DEF Tiers
    <3> QED
      BY <2>1, <2>2, <2>4, <3>1, <3>3 DEF Tiers
  <2>5. CASE RecordOf(g).tier = "learned"
    <3>1. sel = "learned"
      BY <2>3, <2>5 DEF Satisfies
    <3>2. t = "learned"
      BY <1>1, <1>4, <2>5, <3>1 DEF OwnRecords
    <3>3. ~RecordOf(g).noted
      BY <1>1, <2>5 DEF OwnRecords
    <3> QED
      BY <2>2, <2>5, <3>1, <3>2, <3>3
  <2> QED
    BY <2>2, <2>4, <2>5 DEF Tiers
<1>6. t = "learned" => Weights(g) = StampOf[g]
  BY <1>4, <1>5 DEF Fresh, Satisfies
<1>7. ASSUME NEW w \in Warmers, warm[w].gen = g, warm[w].pc \in Parts PROVE warm[w].tier = t
  <2>1. warm[w].tier \in Tiers /\ warm[w].sel = sel
    BY <1>0, <1>7 DEF TypeOK
  <2> QED
    BY <1>4, <1>7, <2>1 DEF FreshInv, Chosen, Tiers
<1>8. StampFile(g)' = StampOf[g]
  <2>1. ASSUME NEW w \in Warmers, WrittenBy(w, g, "stamp") PROVE tier'[g]["stamp"] = StampOf[g]
    BY <2>1 DEF WrittenBy, Written
  <2> QED
    BY <1>0, <1>1, <1>3, <2>1, Moves DEF StampFile, Parts
<1>9. RecordOf(g)' = RecordOf(g)
  <2>1. ASSUME NEW w \in Warmers, WrittenBy(w, g, "record") PROVE tier'[g]["record"] = tier[g]["record"]
    <3>1. tier'[g]["record"] = [tier |-> t, of |-> StampOf[g], noted |-> t # sel]
      BY <1>7, <2>1 DEF WrittenBy, Written, Parts
    <3>2. tier[g]["record"] = [tier |-> t, of |-> StampOf[g], noted |-> t # sel]
      BY <1>1, <1>5 DEF OwnRecords, Records, RecordOf
    <3> QED
      BY <3>1, <3>2
  <2> QED
    BY <1>0, <1>3, <2>1, Moves DEF RecordOf, Parts
<1>10. Bin(g)' # None /\ Bin(g)'.stamp = StampOf[g] /\ Dim(Bin(g)'.tier) = Dim(t)
  <2>1. ASSUME NEW w \in Warmers, WrittenBy(w, g, "bin")
        PROVE  tier'[g]["bin"] = [stamp |-> StampOf[g], tier |-> t] /\ tier'[g]["bin"] # None
    <3>1. tier'[g]["bin"] = [stamp |-> StampOf[g], tier |-> t]
      BY <1>7, <2>1 DEF WrittenBy, Written, Parts
    <3> QED
      BY <3>1, Apart DEF Bins
  <2> QED
    BY <1>0, <1>2, <1>3, <1>5, <2>1, Moves DEF Bin, Parts
<1>11. t = "learned" => Weights(g)' = StampOf[g]
  <2> SUFFICES ASSUME t = "learned" PROVE Weights(g)' = StampOf[g]
    OBVIOUS
  <2>1. ASSUME NEW w \in Warmers, WrittenBy(w, g, "weights") PROVE tier'[g]["weights"] = StampOf[g]
    BY <1>7, <2>1 DEF WrittenBy, Written, Parts
  <2>2. ~Filled(g, "weights")
    BY <1>0, <1>6, Apart DEF Filled, Weights
  <2> QED
    BY <1>0, <1>6, <2>1, <2>2, Moves DEF Weights, Parts
<1>12. HeaderMatches(g, RecordOf(g))'
  BY <1>5, <1>9, <1>10 DEF HeaderMatches
<1>13. Satisfies(g, RecordOf(g), sel)'
  BY <1>4, <1>5, <1>9, <1>11 DEF Satisfies, Tiers
<1> QED
  BY <1>1, <1>8, <1>9, <1>12, <1>13, Apart DEF Fresh, OwnRecords

\* A fresh tier stays fresh under its selection, for any number of warms that
\* rewrite it beside commits and readers (ann_is_fresh, ensure_ann_inner).
THEOREM TierFreshStays ==
  ASSUME StampsDiffer
  PROVE  Spec => FreshStays
<1>1. FreshInv /\ [Next]_vars =>
        [\A g \in Gens :
           (Fresh(g, selection) /\ selection' = selection) =>
             \/ Fresh(g, selection)'
             \/ g \in clobbered'
             \/ \E w \in Warmers : warm[w].gen = g /\ warm[w].sel # selection]_vars
  <2> SUFFICES ASSUME FreshInv, [Next]_vars, NEW g \in Gens, Fresh(g, selection), selection' = selection,
                      g \notin clobbered', \A w \in Warmers : warm[w].gen = g => warm[w].sel = selection
               PROVE  Fresh(g, selection)'
    OBVIOUS
  <2>1. PICK sel \in Tiers : sel = selection
    BY DEF FreshInv, TierInv, TypeOK
  <2>2. Fresh(g, sel)'
    BY <2>1, WriteKeepsFresh
  <2> QED
    BY <2>1, <2>2
<1> QED
  BY <1>1, FreshInvHolds, PTL DEF Spec, FreshStays
===============================================================================
