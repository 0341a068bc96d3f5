------------------------ MODULE FreshnessDaemonProofs ------------------------
(***************************************************************************)
(* The daemon, for every tree, every number of edits and of failures:      *)
(*                                                                         *)
(* - commits cannot race: at most one background committer exists.  Each   *)
(*   Spawn is guarded by a different argument, the stamp canonicalization  *)
(*   by ~Busy, a served or sealed graph by the drain before it, both by    *)
(*   the reap of the rebuild at the start of refresh (CommitInv);          *)
(* - the state keeps its types (Types);                                    *)
(* - while no hand-over has gone wrong, the generations, the served graph, *)
(*   the overlay and the probe agree (Truth), hence the pin, the committed *)
(*   trees, the order of the commits and the overlay are right;            *)
(* - and every file is shown as it is, or the watch, the call, a rebuild   *)
(*   or a canonicalization is still to show it (Covered), hence no answer  *)
(*   is from before an edit the daemon has been told of.                   *)
(***************************************************************************)
EXTENDS FreshnessDaemon, TLAPS

\* Where a call is inside refresh, and where it is past the drain.
Refreshing == {"check", "moved", "changes", "sweep", "probe", "drain", "serve", "build"}
Clear == {"serve", "build"}

CallShape ==
  /\ DOMAIN call = {"pc", "kind", "backstop", "paths", "probe"}
  /\ call.kind \in {"tick", "query", "bound"}

\* A call inside refresh has reaped the rebuild; past the drain, the rest.
CommitInv ==
  /\ CallShape
  /\ DOMAIN job = Committers
  /\ OneCommitter
  /\ call.pc \in Refreshing => job["rebuilding"] = None
  /\ call.pc \in Clear => job["canonicalizing"] = None /\ job["persisting"] = None

\* No committer is started by the step.
NoneStarted ==
  /\ DOMAIN job' = Committers
  /\ \A k \in Committers : job[k] = None => job'[k] = None

-------------------------------------------------------------------------------
\* A step that starts no committer keeps the invariant, if it goes no further
\* than what has been reaped allows.
LEMMA NothingStarted ==
  ASSUME CommitInv, NoneStarted, CallShape',
         call'.pc \in Refreshing => job'["rebuilding"] = None,
         call'.pc \in Clear => job'["canonicalizing"] = None /\ job'["persisting"] = None
  PROVE  CommitInv'
BY DEF CommitInv, NoneStarted, OneCommitter

\* A step that leaves the call alone starts no committer, or keeps them all.
LEMMA CallUnchanged ==
  ASSUME CommitInv, NoneStarted, UNCHANGED call
  PROVE  CommitInv'
<1>1. CallShape'
  BY DEF CommitInv, CallShape
<1>2. call'.pc \in Refreshing => job'["rebuilding"] = None
  BY DEF CommitInv, NoneStarted, Committers
<1>3. call'.pc \in Clear => job'["canonicalizing"] = None /\ job'["persisting"] = None
  BY DEF CommitInv, NoneStarted, Committers
<1> QED
  BY <1>1, <1>2, <1>3, NothingStarted

\* The step of a call to pc.
LEMMA GotoShape ==
  ASSUME CommitInv, NEW pc, Goto(pc)
  PROVE  CallShape' /\ call'.pc = pc
BY DEF CommitInv, CallShape, Goto

\* A call that ends leaves refresh.
LEMMA IdleShape ==
  ASSUME call' = Idle
  PROVE  CallShape' /\ call'.pc \notin Refreshing
BY DEF CallShape, Idle, Refreshing

\* A refresh that is done leaves refresh.
LEMMA DoneShape ==
  ASSUME CommitInv, Done
  PROVE  CallShape' /\ call'.pc \notin Refreshing
<1>1. CASE call.kind = "tick"
  BY <1>1, IdleShape DEF Done
<1>2. CASE call.kind = "query"
  <2>1. Goto("answer")
    BY <1>2 DEF Done
  <2> QED
    BY <2>1, GotoShape DEF Refreshing
<1>3. CASE call.kind = "bound"
  <2>1. Goto("settle")
    BY <1>3 DEF Done
  <2> QED
    BY <2>1, GotoShape DEF Refreshing
<1> QED
  BY <1>1, <1>2, <1>3 DEF CommitInv, CallShape

\* Where nothing was in flight, one committer may be started as the call ends.
LEMMA OneStarted ==
  ASSUME CommitInv, NEW k \in Committers, NEW pc, NEW gen, NEW paths,
         \A l \in Committers : job[l] = None,
         Spawn(k, pc, gen, paths), Done
  PROVE  CommitInv'
<1>1. CallShape' /\ call'.pc \notin Refreshing
  BY DoneShape
<1>2. DOMAIN job' = Committers
  BY DEF CommitInv, Spawn
<1>3. \A l \in Committers : l # k => job'[l] = None
  BY DEF CommitInv, Spawn
<1> QED
  BY <1>1, <1>2, <1>3 DEF CommitInv, OneCommitter, Refreshing, Clear

\* The reaps start nothing.
LEMMA ReapsStartNothing ==
  ASSUME CommitInv, ReapPersist \/ AbsorbCanonicalized \/ ReapRebuilding \/ UNCHANGED job
  PROVE  NoneStarted
BY DEF CommitInv, NoneStarted, ReapPersist, AbsorbCanonicalized, ReapRebuilding, Committers

-------------------------------------------------------------------------------
\* Edits, the watch, the background threads and the builder.
LEMMA OthersKeep ==
  ASSUME CommitInv,
         (\E f \in Files : Edit(f)) \/ Notify \/ Signal \/ Background \/ Builder
  PROVE  CommitInv'
<1>1. UNCHANGED call
  BY ZenonT(90) DEF Edit, Notify, Capture, CaptureLost, Signal, Background, JobRead, JobCommit,
     JobFail, Builder,
         BuilderResolve, BuilderFinish
<1>2. NoneStarted
  <2>1. CASE Background
    BY <2>1 DEF CommitInv, NoneStarted, Background, JobRead, JobCommit, JobFail
  <2>2. CASE (\E f \in Files : Edit(f)) \/ Notify \/ Signal \/ Builder
    <3>1. UNCHANGED job
      BY <2>2 DEF Edit, Notify, Capture, CaptureLost, Signal, Builder, BuilderResolve, BuilderFinish
    <3> QED
      BY <3>1 DEF CommitInv, NoneStarted
  <2> QED
    BY <2>1, <2>2
<1> QED
  BY <1>1, <1>2, CallUnchanged, SMTT(60)

\* A call begins, and advances what is finished.
LEMMA AdvanceKeeps ==
  ASSUME CommitInv, DaemonAssumption,
         (\E kind \in Kinds : Begin(kind)) \/ Advance
  PROVE  CommitInv'
<1>1. CASE \E kind \in Kinds : Begin(kind)
  <2>1. CallShape' /\ call'.pc = "advance"
    BY <1>1 DEF Begin, Idle, CallShape, DaemonAssumption
  <2>2. NoneStarted
    BY <1>1 DEF CommitInv, NoneStarted, Begin
  <2> QED
    BY <2>1, <2>2, NothingStarted DEF Refreshing, Clear
<1>2. CASE AdvancePersist \/ AdvanceOverlay \/ AdvanceCanonicalize
  <2>1. NoneStarted
    BY <1>2, ReapsStartNothing DEF AdvancePersist, AdvanceOverlay, AdvanceCanonicalize
  <2>2. PICK pc \in {"overlay", "canonicalize", "rebuild"} : Goto(pc)
    BY <1>2 DEF AdvancePersist, AdvanceOverlay, AdvanceCanonicalize
  <2>3. CallShape' /\ call'.pc = pc
    BY <2>2, GotoShape
  <2> QED
    BY <2>1, <2>3, NothingStarted DEF Refreshing, Clear
<1>3. CASE AdvanceRebuild
  <2>1. NoneStarted
    BY <1>3, ReapsStartNothing DEF AdvanceRebuild
  <2>2. CASE call.kind = "tick"
    <3>1. CallShape' /\ call'.pc = "debounce"
      BY <1>3, <2>2, GotoShape DEF AdvanceRebuild
    <3> QED
      BY <2>1, <3>1, NothingStarted DEF Refreshing, Clear
  <2>3. CASE call.kind # "tick"
    <3>1. CallShape' /\ call'.pc = "check"
      BY <1>3, <2>3, GotoShape DEF AdvanceRebuild
    <3>2. job'["rebuilding"] = None
      BY <1>3, <2>3 DEF AdvanceRebuild, ReapRebuilding, Joinable, CommitInv, Committers
    <3> QED
      BY <2>1, <3>1, <3>2, NothingStarted DEF Clear
  <2> QED
    BY <2>2, <2>3
<1> QED
  BY <1>1, <1>2, <1>3 DEF Advance

\* A tick that consumes dirt, rests, or starts a refresh with nothing in flight.
LEMMA TickKeeps ==
  ASSUME CommitInv, TickStep
  PROVE  CommitInv'
<1>1. NoneStarted
  BY DEF CommitInv, NoneStarted, TickStep, TickConsume, TickRest, TickStart
<1>2. CASE TickConsume \/ TickRest
  <2>1. CallShape' /\ call'.pc \notin Refreshing
    BY <1>2, IdleShape DEF TickConsume, TickRest
  <2> QED
    BY <1>1, <2>1, NothingStarted DEF Refreshing, Clear
<1>3. CASE TickStart
  <2>1. CallShape' /\ call'.pc = "check"
    BY <1>3, GotoShape DEF TickStart
  <2>2. job'["rebuilding"] = None
    BY <1>3 DEF TickStart, Busy, Committers
  <2> QED
    BY <1>1, <2>1, <2>2, NothingStarted DEF Clear
<1> QED
  BY <1>2, <1>3 DEF TickStep

\* The steps of refresh up to the drain: each goes on, or ends the call.
LEMMA RefreshKeeps ==
  ASSUME CommitInv,
         \/ CheckClean \/ CheckBackstop \/ CheckDirty \/ AdoptMoved \/ NotMoved
         \/ TakeChanges \/ Sweep \/ NoSweep \/ ProbeBusy \/ ProbeChanged
  PROVE  CommitInv'
<1>1. UNCHANGED job /\ call.pc \in Refreshing
  BY DEF CheckClean, CheckBackstop, CheckDirty, AdoptMoved, NotMoved, TakeChanges, Sweep, NoSweep,
         ProbeBusy, ProbeChanged, Refreshing
<1>2. NoneStarted
  BY <1>1 DEF CommitInv, NoneStarted
<1>3. CallShape' /\ call'.pc \notin Clear
  <2>1. CASE Done
    BY <2>1, DoneShape DEF Refreshing, Clear
  <2>2. CASE Error
    BY <2>2, IdleShape DEF Error, Refreshing, Clear
  <2>3. CASE \E pc \in {"moved", "changes", "drain", "probe"} : Goto(pc)
    BY <2>3, GotoShape DEF Clear
  <2>4. CASE CheckBackstop \/ TakeChanges
    BY <2>4 DEF CheckBackstop, TakeChanges, CommitInv, CallShape, Clear
  <2>5. CASE Sweep /\ ~Done
    BY <2>5 DEF Sweep, CommitInv, CallShape, Clear
  <2>6. CASE ProbeChanged
    BY <2>6 DEF ProbeChanged, CommitInv, CallShape, Clear
  <2> QED
    BY <2>1, <2>2, <2>3, <2>4, <2>5, <2>6
    DEF CheckClean, CheckDirty, AdoptMoved, NotMoved, NoSweep, ProbeBusy
<1>4. job'["rebuilding"] = None
  BY <1>1 DEF CommitInv
<1> QED
  BY <1>2, <1>3, <1>4, NothingStarted

\* The stamps of an unchanged tree are committed only when nothing is in flight.
LEMMA ProbeUnchangedKeeps ==
  ASSUME CommitInv, ProbeUnchanged
  PROVE  CommitInv'
<1>1. \A l \in Committers : job[l] = None
  BY DEF ProbeUnchanged, Busy
<1> QED
  BY <1>1, OneStarted DEF ProbeUnchanged, Committers

\* The drain empties what a refresh may find in flight.
LEMMA DrainKeeps ==
  ASSUME CommitInv, DrainCanonicalize \/ DrainPersist \/ Drained
  PROVE  CommitInv'
<1>1. CASE DrainCanonicalize
  <2>1. NoneStarted /\ UNCHANGED call
    BY <1>1 DEF CommitInv, NoneStarted, DrainCanonicalize, Committers
  <2> QED
    BY <2>1, CallUnchanged
<1>2. CASE DrainPersist
  <2>1. NoneStarted /\ UNCHANGED call
    BY <1>2, ReapsStartNothing DEF DrainPersist
  <2> QED
    BY <2>1, CallUnchanged
<1>3. CASE Drained
  <2>1. NoneStarted
    BY <1>3, ReapsStartNothing DEF Drained
  <2>2. CallShape'
    BY <1>3, GotoShape DEF Drained
  <2>3. \A k \in Committers : job'[k] = None
    BY <1>3 DEF Drained, CommitInv, Refreshing, Committers
  <2> QED
    BY <2>1, <2>2, <2>3, NothingStarted DEF Committers
<1> QED
  BY <1>1, <1>2, <1>3

\* Past the drain nothing is in flight: the new graph's commit is the only one.
LEMMA ServeAndBuildKeep ==
  ASSUME CommitInv,
         \/ Serve \/ ServeFails
         \/ BuildBehind \/ BuildCommitted \/ BuildSealed \/ BuildFails
  PROVE  CommitInv'
<1>1. \A l \in Committers : job[l] = None
  BY DEF Serve, ServeFails, BuildBehind, BuildCommitted, BuildSealed, BuildFails, Building,
     CommitInv,
         Refreshing, Clear, Committers
<1>2. CASE Serve \/ BuildBehind \/ BuildSealed
  <2>1. /\ Done
        /\ \E k \in Committers : \E pc, gen, paths : Spawn(k, pc, gen, paths)
    BY <1>2 DEF Serve, BuildBehind, BuildSealed, Committers
  <2> QED
    BY <1>1, <2>1, OneStarted
<1>3. CASE ServeFails
  <2>1. NoneStarted
    BY <1>3, ReapsStartNothing DEF ServeFails
  <2>2. CallShape'
    BY <1>3, GotoShape DEF ServeFails
  <2>3. \A k \in Committers : job'[k] = None
    BY <1>1, <1>3 DEF ServeFails
  <2> QED
    BY <2>1, <2>2, <2>3, NothingStarted DEF Committers
<1>4. CASE BuildCommitted \/ BuildFails
  <2>1. NoneStarted
    BY <1>4, ReapsStartNothing DEF BuildCommitted, BuildFails
  <2>2. CallShape' /\ call'.pc \notin Refreshing
    BY <1>4, DoneShape, IdleShape DEF BuildCommitted, BuildFails, Error
  <2> QED
    BY <2>1, <2>2, NothingStarted DEF Refreshing, Clear
<1> QED
  BY <1>2, <1>3, <1>4

\* Settling and answering start nothing.
LEMMA ConcludeKeeps ==
  ASSUME CommitInv, Conclude
  PROVE  CommitInv'
<1>1. NoneStarted
  BY ReapsStartNothing DEF Conclude, SettlePersist, SettleCanonicalize, Settled, Answer
<1>2. CASE SettlePersist \/ SettleCanonicalize
  BY <1>1, <1>2, CallUnchanged DEF SettlePersist, SettleCanonicalize
<1>3. CASE Settled
  BY <1>1, <1>3, GotoShape, NothingStarted DEF Settled, Refreshing, Clear
<1>4. CASE Answer
  BY <1>1, <1>4, IdleShape, NothingStarted DEF Answer, Refreshing, Clear
<1> QED
  BY <1>2, <1>3, <1>4 DEF Conclude

-------------------------------------------------------------------------------
\* Every step keeps the invariant.
LEMMA CommitStep ==
  ASSUME CommitInv, [Next]_vars
  PROVE  CommitInv'
<1>1. CASE UNCHANGED vars
  <2>1. NoneStarted /\ UNCHANGED call
    BY <1>1 DEF vars, CommitInv, NoneStarted
  <2> QED
    BY <2>1, CallUnchanged
<1>2. CASE Next
  BY <1>2, DaemonAssumption, OthersKeep, AdvanceKeeps, TickKeeps, RefreshKeeps, ProbeUnchangedKeeps,
     DrainKeeps, ServeAndBuildKeep, ConcludeKeeps
  DEF Next, CallStep, Refresh
<1> QED
  BY <1>1, <1>2

\* In every daemon, at any time, at most one background thread is on its way to
\* a commit: no two of canonicalization, persistence and rebuild overlap, so the
\* order in which the daemon decided on them is the order in which they land.
THEOREM DaemonCommitsAlone == Spec => []OneCommitter
<1>1. Init => CommitInv
  BY DEF Init, CommitInv, CallShape, Idle, NoJobs, OneCommitter, Refreshing, Clear, Committers
<1>2. CommitInv /\ [Next]_vars => CommitInv'
  BY CommitStep
<1>3. CommitInv => OneCommitter
  BY DEF CommitInv
<1> QED
  BY <1>1, <1>2, <1>3, PTL DEF Spec

-------------------------------------------------------------------------------
(* The pin.  kg_dir is set by adoption, by a reaped commit and by a build    *)
(* that commits at once; each happens where no persistence is in flight,     *)
(* which CommitInv knows.                                                    *)

PinInv == CommitInv /\ UncommittedIsUnpinned

\* Persistence in flight rules out the other committers.
LEMMA PersistingAlone ==
  ASSUME CommitInv, NEW k \in {"canonicalizing", "rebuilding"}, job[k] # None
  PROVE  job["persisting"] = None
BY DEF CommitInv, OneCommitter, Committers

\* A step that starts no persistence and leaves the pin, or is taken without
\* one, keeps the pin right.
LEMMA PinKept ==
  ASSUME PinInv,
         job["persisting"] = None => job'["persisting"] = None,
         UNCHANGED kgDir \/ job'["persisting"] = None
  PROVE  UncommittedIsUnpinned'
BY DEF PinInv, UncommittedIsUnpinned

\* Each of the reaps sets the pin only where no persistence is left in flight.
LEMMA ReapsPin ==
  ASSUME PinInv, ReapPersist \/ AbsorbCanonicalized \/ ReapRebuilding \/ UNCHANGED <<job, kgDir>>
  PROVE  UncommittedIsUnpinned'
<1>1. job["persisting"] = None => job'["persisting"] = None
  <2>1. NoneStarted
    BY ReapsStartNothing DEF PinInv
  <2> QED
    BY <2>1 DEF NoneStarted, Committers
<1>2. CASE ReapPersist
  <2>1. job'["persisting"] = None
    BY <1>2 DEF ReapPersist, PinInv, CommitInv, Committers
  <2> QED
    BY <2>1 DEF UncommittedIsUnpinned
<1>3. CASE AbsorbCanonicalized
  <2>1. job["persisting"] = None
    BY <1>3, PersistingAlone DEF PinInv, AbsorbCanonicalized, Finished
  <2> QED
    BY <1>1, <2>1 DEF UncommittedIsUnpinned
<1>4. CASE ReapRebuilding
  <2>1. job["persisting"] = None
    BY <1>4, PersistingAlone DEF PinInv, ReapRebuilding, Finished
  <2> QED
    BY <1>1, <2>1 DEF UncommittedIsUnpinned
<1>5. CASE UNCHANGED <<job, kgDir>>
  BY <1>5, PinKept
<1> QED
  BY <1>2, <1>3, <1>4, <1>5

\* Steps that leave the pin alone and start no persistence.
LEMMA OthersPin ==
  ASSUME PinInv,
         \/ \E f \in Files : Edit(f)
         \/ Notify \/ Signal \/ Background \/ Builder
         \/ \E kind \in Kinds : Begin(kind)
         \/ TickStep
  PROVE  UncommittedIsUnpinned'
<1>1. UNCHANGED kgDir
  BY DEF Edit, Notify, Capture, CaptureLost, Signal, Background, JobRead, JobCommit, JobFail,
     Builder,
         BuilderResolve, BuilderFinish, Begin, TickStep, TickConsume, TickRest, TickStart, served
<1>2. job["persisting"] = None => job'["persisting"] = None
  <2>1. CASE Background
    BY <2>1 DEF PinInv, CommitInv, Background, JobRead, JobCommit, JobFail, Committers
  <2>2. CASE UNCHANGED job
    BY <2>2
  <2> QED
    BY <2>1, <2>2, ZenonT(90) DEF Edit, Notify, Capture, CaptureLost, Signal, Builder,
       BuilderResolve, BuilderFinish,
       Begin, TickStep, TickConsume, TickRest, TickStart
<1> QED
  BY <1>1, <1>2, PinKept, SMTT(60)

\* The steps of a call that reap.
LEMMA ReapingStepsPin ==
  ASSUME PinInv, Advance \/ DrainPersist \/ SettlePersist \/ SettleCanonicalize
  PROVE  UncommittedIsUnpinned'
<1>1. ReapPersist \/ AbsorbCanonicalized \/ ReapRebuilding \/ UNCHANGED <<job, kgDir>>
  BY DEF Advance, AdvancePersist, AdvanceOverlay, AdvanceCanonicalize, AdvanceRebuild, DrainPersist,
         SettlePersist, SettleCanonicalize, served
<1> QED
  BY <1>1, ReapsPin

\* refresh up to the drain adopts a generation only when nothing is in flight.
LEMMA RefreshPin ==
  ASSUME PinInv,
         \/ CheckClean \/ CheckBackstop \/ CheckDirty \/ AdoptMoved \/ NotMoved
         \/ TakeChanges \/ Sweep \/ NoSweep \/ ProbeBusy \/ ProbeUnchanged \/ ProbeChanged
         \/ DrainCanonicalize \/ Drained
  PROVE  UncommittedIsUnpinned'
<1>1. job["persisting"] = None => job'["persisting"] = None
  <2>1. CASE ProbeUnchanged \/ DrainCanonicalize
    BY <2>1 DEF ProbeUnchanged, DrainCanonicalize, Spawn, PinInv, CommitInv, Committers
  <2>2. CASE UNCHANGED job
    BY <2>2
  <2> QED
    BY <2>1, <2>2 DEF CheckClean, CheckBackstop, CheckDirty, AdoptMoved, NotMoved, TakeChanges,
       Sweep,
       NoSweep, ProbeBusy, ProbeChanged, Drained
<1>2. CASE AdoptMoved
  <2>1. job["persisting"] = None
    BY <1>2 DEF AdoptMoved, Busy, Committers
  <2> QED
    BY <1>1, <2>1 DEF UncommittedIsUnpinned
<1>3. CASE ~AdoptMoved
  <2>1. UNCHANGED kgDir
    BY <1>3 DEF CheckClean, CheckBackstop, CheckDirty, NotMoved, TakeChanges, Sweep, NoSweep,
       ProbeBusy,
       ProbeUnchanged, ProbeChanged, DrainCanonicalize, Drained, served
  <2> QED
    BY <1>1, <2>1, PinKept
<1> QED
  BY <1>2, <1>3

\* A new graph unpins; a commit made at once has nothing beside it.
LEMMA ServeAndBuildPin ==
  ASSUME PinInv,
         \/ Serve \/ ServeFails
         \/ BuildBehind \/ BuildCommitted \/ BuildSealed \/ BuildFails
  PROVE  UncommittedIsUnpinned'
<1>1. job["persisting"] = None
  BY DEF Serve, ServeFails, BuildBehind, BuildCommitted, BuildSealed, BuildFails, Building, PinInv,
         CommitInv, Clear
<1>2. CASE Serve \/ BuildSealed
  BY <1>2 DEF Serve, BuildSealed, UncommittedIsUnpinned
<1>3. CASE BuildBehind
  BY <1>1, <1>3 DEF BuildBehind, Spawn, PinInv, CommitInv, Committers, UncommittedIsUnpinned
<1>4. CASE ServeFails \/ BuildCommitted \/ BuildFails
  BY <1>1, <1>4 DEF ServeFails, BuildCommitted, BuildFails, UncommittedIsUnpinned
<1> QED
  BY <1>2, <1>3, <1>4

\* While the commit of a served graph is in flight the daemon names no
\* generation for it: nothing it answers from disk can be another graph's.
THEOREM DaemonUncommittedIsUnpinned == Spec => []UncommittedIsUnpinned
<1>1. Init => PinInv
  BY DEF Init, PinInv, CommitInv, CallShape, Idle, NoJobs, OneCommitter, Refreshing, Clear,
     Committers,
         UncommittedIsUnpinned
<1>2. PinInv /\ [Next]_vars => PinInv'
  <2> SUFFICES ASSUME PinInv, [Next]_vars
               PROVE  PinInv'
    OBVIOUS
  <2>1. CommitInv'
    BY CommitStep DEF PinInv
  <2>2. UncommittedIsUnpinned'
    <3>1. CASE UNCHANGED vars
      BY <3>1, PinKept DEF vars, served
    <3>2. CASE Answer
      BY <3>2, PinKept DEF Answer, served
    <3>3. CASE Settled
      BY <3>3 DEF Settled, served, PinInv, UncommittedIsUnpinned
    <3>4. CASE Next /\ ~Settled /\ ~Answer
      BY <3>4, OthersPin, ReapingStepsPin, RefreshPin, ServeAndBuildPin DEF Next, CallStep,
         Refresh, Conclude
    <3> QED
      BY <3>1, <3>2, <3>3, <3>4
  <2> QED
    BY <2>1, <2>2 DEF PinInv
<1>3. PinInv => UncommittedIsUnpinned
  BY DEF PinInv
<1> QED
  BY <1>1, <1>2, <1>3, PTL DEF Spec

-------------------------------------------------------------------------------
(* The types of the state. *)

PCs == {"idle", "advance", "overlay", "canonicalize", "rebuild", "debounce", "settle", "answer"} \union Refreshing
Probed == {"drain", "serve", "build", "settle", "answer"}

\* What a call knows at each point: a probe has a change set, and a graph.
CallTypes ==
  /\ call.pc \in PCs /\ call.backstop \in BOOLEAN
  /\ call.paths = None \/ call.paths \in SUBSET Files
  /\ call.probe # None => call.paths # None /\ kg # None /\ call.probe \in [call.paths -> Versions]
  /\ call.probe # None => call.pc \in Probed
  /\ call.pc = "probe" => call.paths # None /\ kg # None
  /\ call.pc = "serve" => overlay # None /\ call.probe # None
  /\ call.kind = "tick" => call.pc \notin {"settle", "answer"}
  /\ call.pc \in {"drain", "serve", "build"} => kg = None \/ call.paths # None
  /\ call.pc \in {"settle", "answer"} => kg # None /\ job["rebuilding"] = None

\* What a committer holds at each point.
JobTypes ==
  /\ job \in [Committers -> Jobs \union {None}]
  /\ \A k \in Committers : job[k] # None /\ job[k].pc \in {"commit", "ok"} => job[k].gen # None
  /\ \A k \in Committers : job[k] # None /\ job[k].pc = "ok" => current = job[k].gen
  /\ job["persisting"] # None => job["persisting"].pc # "read" /\ job["persisting"].gen # None
  /\ job["canonicalizing"] # None => kg # None /\ job["canonicalizing"].paths # None
  /\ job["rebuilding"] # None => job["rebuilding"].paths = None

DataTypes ==
  /\ mode \in Modes /\ tree \in Stamps
  /\ current \in Generations \union {None} /\ kgDir \in Generations \union {None}
  /\ kg \in Bodies \union {None} /\ overlay \in Overlays \union {None}
  /\ building \in [pc : {"none", "started", "replaying", "done"}, got : Overlays \union {None}]
  /\ kg # None => current # None

WatchTypes ==
  /\ unseen \in SUBSET Files /\ (captured = None \/ captured \in SUBSET Files)
  /\ flagging \in BOOLEAN /\ dirty \in BOOLEAN /\ dirtySince \in BOOLEAN
  /\ lapses \subseteq {"dropped", "restamped", "late overlay", "unabsorbed", "unpersisted"}

Types == CommitInv /\ CallTypes /\ JobTypes /\ DataTypes /\ WatchTypes /\ failures \in Nat

-------------------------------------------------------------------------------
\* What extraction shows of a version; later versions show later texts.
LEMMA TextType == \A v \in Versions : Text(v) \in Texts /\ Text(v) \in Nat
<1>1. \A v \in Nat, g \in Nat \ {0} : v \div g \in Nat
  BY SMT
<1> QED
  BY <1>1, DaemonAssumption DEF Versions, Texts, Text

\* A later version shows a later text, or the same.
LEMMA TextMonotone ==
  ASSUME NEW v \in Versions, NEW w \in Versions, v <= w
  PROVE  Text(v) <= Text(w)
<1> DEFINE p == Text(v)
           q == Text(w)
<1>1. v \in Nat /\ w \in Nat /\ Grain \in Nat /\ Grain > 0
  BY DaemonAssumption DEF Versions
<1>2. p \in Nat /\ q \in Nat
  BY TextType
<1>3. Grain * p <= v
  BY <1>1, SMT DEF Text
<1>4. w < Grain * q + Grain
  BY <1>1, SMT DEF Text
<1>5. ASSUME q + 1 <= p PROVE FALSE
  <2> HIDE DEF p, q
  <2>1. Grain * (q + 1) <= Grain * p
    BY <1>1, <1>2, <1>5, SMT
  <2>2. Grain * (q + 1) = Grain * q + Grain
    BY <1>1, <1>2, SMT
  <2>3. Grain * p \in Nat /\ Grain * q \in Nat
    BY <1>1, <1>2, SMT
  <2> QED
    BY <1>1, <1>3, <1>4, <2>1, <2>2, <2>3, SMT
<1> QED
  BY <1>2, <1>5

\* A scan yields a manifest.
LEMMA ScannedType ==
  ASSUME DataTypes, NEW paths
  PROVE  Scanned(paths) \in Stamps
BY DEF DataTypes, Scanned, Stamps, Generations

\* The generation of a tree is a generation.
LEMMA CommittedType ==
  ASSUME NEW v \in Stamps
  PROVE  Committed(v) \in Generations
BY TextType DEF Committed, Generations, Stamps, Bodies

\* A build yields a generation.
LEMMA BuiltType ==
  ASSUME DataTypes, NEW man \in Stamps
  PROVE  Built(man) \in Generations
<1>1. CASE Reusable(man)
  <2>1. current \in Generations
    BY <1>1 DEF Reusable, DataTypes
  <2>2. [f \in Files |-> IF man[f] = current.man[f] THEN current.pack[f] ELSE man[f]] \in Stamps
    BY <2>1 DEF Stamps, Generations
  <2>3. /\ Built(man).man = man
        /\ Built(man).pack = [f \in Files |-> IF man[f] = current.man[f] THEN current.pack[f] ELSE man[f]]
        /\ Built(man).body = current.body
        /\ Built(man).graph = current.graph
        /\ DOMAIN Built(man) = {"man", "pack", "body", "graph"}
    BY <1>1, <2>1 DEF Built, Generations
  <2> QED
    BY <1>1, <2>1, <2>2 DEF Built, Generations
<1>2. CASE ~Reusable(man)
  <2> DEFINE body == [f \in Files |-> IF current # None /\ current.pack[f] = man[f]
                                    THEN current.body[f] ELSE Text(tree[f])]
  <2>1. body \in Bodies
    BY TextType DEF DataTypes, Generations, Bodies, Stamps
  <2>2. Built(man) = [man |-> man, pack |-> man, body |-> body, graph |-> body]
    BY <1>2 DEF Built
  <2> QED
    BY <2>1, <2>2 DEF Generations
<1> QED
  BY <1>1, <1>2

-------------------------------------------------------------------------------
\* The watch keeps its types.
LEMMA WatchTyped ==
  ASSUME Types, [Next]_vars
  PROVE  WatchTypes'
<1>1. CASE UNCHANGED vars
  BY <1>1, ZenonT(90) DEF vars, env, watch, Types, WatchTypes
<1>2. CASE (\E f \in Files : Edit(f)) \/ Notify \/ Signal \/ Background \/ Builder \/ (\E kind \in Kinds : Begin(kind))
  BY <1>2, ZenonT(90) DEF Edit, Notify, Capture, CaptureLost, Signal, Background, JobRead,
     JobCommit, JobFail, Builder,
     BuilderResolve, BuilderFinish, Begin, vars, env, watch, Types, WatchTypes
<1>3. CASE Advance \/ TickStep
  BY <1>3 DEF Advance, AdvancePersist, AdvanceOverlay, AdvanceCanonicalize, AdvanceRebuild,
     ReapPersist,
     ReapOverlay, AbsorbCanonicalized, ReapRebuilding, Adopt, Restamped, MarkDirty, TickStep, TickConsume, TickRest,
     TickStart, env, watch, Types, WatchTypes
<1>4. CASE Refresh
  BY <1>4, ZenonT(90) DEF Refresh, CheckClean, CheckBackstop, CheckDirty, AdoptMoved, NotMoved,
     TakeChanges, Sweep, NoSweep,
     ProbeBusy, ProbeUnchanged, ProbeChanged, DrainCanonicalize, DrainPersist, Drained, Serve, ServeFails,
     BuildBehind, BuildCommitted, BuildSealed, BuildFails, Adopt, MarkDirty, ReapPersist, Restamped,
     env, watch, Types, WatchTypes
<1>5. CASE Conclude
  BY <1>5 DEF Conclude, SettlePersist, SettleCanonicalize, Settled, Answer, ReapPersist,
     AbsorbCanonicalized,
     Adopt, MarkDirty, Restamped, env, watch, Types, WatchTypes
<1> QED
  BY <1>1, <1>2, <1>3, <1>4, <1>5 DEF Next, CallStep

\* Failures are counted one by one.
LEMMA FailuresCounted ==
  ASSUME Types, [Next]_vars
  PROVE  failures' = failures \/ failures' = failures + 1
<1>1. CASE UNCHANGED vars
  BY <1>1 DEF vars, Fail
<1>2. CASE (\E f \in Files : Edit(f)) \/ Notify \/ Signal \/ Background \/ Builder \/ (\E kind \in Kinds : Begin(kind))
  BY <1>2 DEF Edit, Notify, Capture, CaptureLost, Signal, Background, JobRead, JobCommit, JobFail,
     Builder,
     BuilderResolve, BuilderFinish, Begin, vars, Fail
<1>3. CASE Advance \/ TickStep
  BY <1>3 DEF Advance, AdvancePersist, AdvanceOverlay, AdvanceCanonicalize, AdvanceRebuild,
     ReapPersist,
     ReapOverlay, AbsorbCanonicalized, ReapRebuilding, Adopt, Restamped, MarkDirty, TickStep, TickConsume, TickRest,
     TickStart, Fail
<1>4. CASE Refresh
  BY <1>4 DEF Refresh, CheckClean, CheckBackstop, CheckDirty, AdoptMoved, NotMoved, TakeChanges,
     Sweep, NoSweep,
     ProbeBusy, ProbeUnchanged, ProbeChanged, DrainCanonicalize, DrainPersist, Drained, Serve, ServeFails,
     BuildBehind, BuildCommitted, BuildSealed, BuildFails, Adopt, MarkDirty, ReapPersist, Restamped,
     Fail
<1>5. CASE Conclude
  BY <1>5 DEF Conclude, SettlePersist, SettleCanonicalize, Settled, Answer, ReapPersist,
     AbsorbCanonicalized,
     Adopt, MarkDirty, Restamped, Fail
<1> QED
  BY <1>1, <1>2, <1>3, <1>4, <1>5 DEF Next, CallStep

-------------------------------------------------------------------------------
\* Absorbing a probe leaves an overlay.
LEMMA AbsorbedType ==
  ASSUME DataTypes, overlay # None, NEW probe, DOMAIN probe \subseteq Files,
         \A f \in DOMAIN probe : probe[f] \in Versions
  PROVE  Absorbed(probe) \in Overlays
BY TextType DEF DataTypes, Absorbed, Overlays, Stamps, Bodies

\* The generation of a served graph is a generation.
LEMMA ServedType ==
  ASSUME DataTypes, current # None, NEW ov \in Overlays, NEW probe, DOMAIN probe \subseteq Files,
         \A f \in DOMAIN probe : probe[f] \in Versions
  PROVE  ServedGeneration(ov, probe) \in Generations
BY TextType DEF DataTypes, ServedGeneration, Overlays, Stamps, Bodies, Generations

\* The overlay the daemon notes the stamps of a probe in.
LEMMA NotedType ==
  ASSUME DataTypes, overlay # None, NEW paths,
         overlay' = [overlay EXCEPT !.man = [f \in Files |-> IF f \in paths THEN tree[f] ELSE @[f]]]
  PROVE  /\ overlay' \in Overlays /\ overlay'.body = overlay.body
         /\ \A f \in Files : overlay'.man[f] = IF f \in paths THEN tree[f] ELSE overlay.man[f]
<1>1. [f \in Files |-> IF f \in paths THEN tree[f] ELSE overlay.man[f]] \in Stamps
  BY DEF DataTypes, Overlays, Stamps
<1> QED
  BY <1>1 DEF DataTypes, Overlays

\* Adopting what CURRENT names.
LEMMA AdoptTyped ==
  ASSUME DataTypes, NEW js, Adopt(js)
  PROVE  /\ kgDir' \in Generations \union {None}
         /\ kg' = kg \/ kg' \in Bodies
         /\ kg' # kg => current # None
         /\ overlay' = overlay \/ overlay' = None
         /\ building' \in [pc : {"none", "started", "replaying", "done"}, got : Overlays \union {None}]
<1>1. current # None => current.graph \in Bodies
  BY DEF DataTypes, Generations
<1> QED
  BY <1>1 DEF Adopt, SpawnOverlay, DataTypes, served

\* The overlay's builder keeps its type when it is started.
LEMMA SpawnTyped ==
  ASSUME DataTypes, NEW ov, NEW js, SpawnOverlay(ov, js)
  PROVE  building' \in [pc : {"none", "started", "replaying", "done"}, got : Overlays \union {None}]
BY DEF DataTypes, SpawnOverlay

\* None is apart from everything it stands in for.
LEMMA NoneApart ==
  /\ \A g \in Generations : g # None
  /\ \A o \in Overlays : o # None
  /\ \A b \in Bodies : b # None
  /\ \A j \in Jobs : j # None
  /\ \A S \in SUBSET Files : S # None
BY DaemonAssumption

\* What a step does to the data: the tree is edited, CURRENT is swapped by a
\* commit or a build, the graph is adopted, served or built.
LEMMA ServeTyped ==
  ASSUME Types, Serve
  PROVE  /\ Absorbed(call.probe) \in Overlays
         /\ kg' \in Bodies
         /\ overlay' \in Overlays \union {None}
         /\ ServedGeneration(Absorbed(call.probe), call.probe) \in Generations
<1>1. /\ overlay # None /\ current # None /\ DOMAIN call.probe \subseteq Files
      /\ \A f \in DOMAIN call.probe : call.probe[f] \in Versions
  BY DEF Types, CallTypes, DataTypes, Serve
<1>2. Absorbed(call.probe) \in Overlays
  BY <1>1, AbsorbedType DEF Types
<1>3. ServedGeneration(Absorbed(call.probe), call.probe) \in Generations
  BY <1>1, <1>2, ServedType DEF Types
<1> QED
  BY <1>2, <1>3 DEF Serve, Overlays

\* A build yields a generation and a graph.
LEMMA BuildTyped ==
  ASSUME Types, NEW paths
  PROVE  Built(Scanned(paths)) \in Generations /\ Built(Scanned(paths)).graph \in Bodies
<1>1. Built(Scanned(paths)) \in Generations
  BY ScannedType, BuiltType DEF Types
<1> QED
  BY <1>1 DEF Generations

\* A sealed build leaves an overlay, or none.
LEMMA SealTyped ==
  ASSUME Types, BuildSealed
  PROVE  kg' \in Bodies /\ overlay' \in Overlays \union {None} /\ current # None
<1>1. kg' \in Bodies
  BY BuildTyped DEF BuildSealed
<1>2. CASE overlay # None /\ call.paths # None /\ overlay' = Absorbed([f \in call.paths |-> tree[f]])
  <2>1. call.paths \subseteq Files /\ \A f \in call.paths : tree[f] \in Versions
    BY <1>2 DEF Types, CallTypes, DataTypes, Stamps
  <2>2. Absorbed([f \in call.paths |-> tree[f]]) \in Overlays
    BY <1>2, <2>1, AbsorbedType DEF Types
  <2> QED
    BY <1>1, <1>2, <2>2 DEF BuildSealed
<1>3. CASE overlay' = None
  BY <1>1, <1>3 DEF BuildSealed
<1> QED
  BY <1>2, <1>3 DEF BuildSealed

\* The data keep their types.
LEMMA DataTyped ==
  ASSUME Types, [Next]_vars
  PROVE  DataTypes'
<1> USE DEF Types
<1>1. CASE UNCHANGED vars
  BY <1>1 DEF vars, env, served, DataTypes
<1>2. CASE \E f \in Files : Edit(f)
  <2>1. tree' \in Stamps
    BY <1>2, DaemonAssumption DEF Edit, DataTypes, Stamps, Versions
  <2> QED
    BY <1>2, <2>1 DEF Edit, DataTypes, served
<1>3. CASE Notify \/ Signal \/ (\E kind \in Kinds : Begin(kind)) \/ TickStep \/ Answer
  BY <1>3 DEF Notify, Capture, CaptureLost, Signal, Begin, TickStep, TickConsume, TickRest,
     TickStart, Answer,
     env, served, DataTypes
<1>4. CASE Background
  <2>1. current' \in Generations \union {None} /\ (current # None => current' # None)
    BY <1>4, NoneApart DEF Background, JobRead, JobCommit, JobFail, JobTypes, Jobs, DataTypes
  <2> QED
    BY <1>4, <2>1 DEF Background, JobRead, JobCommit, JobFail, env, served, DataTypes
<1>5. CASE Builder
  <2>1. current # None => [man |-> current.man, body |-> current.body] \in Overlays
    BY DEF DataTypes, Generations, Overlays
  <2> QED
    BY <1>5, <2>1 DEF Builder, BuilderResolve, BuilderFinish, env, served, DataTypes
<1>6. CASE AdvancePersist \/ DrainPersist \/ SettlePersist
  <2>1. CASE ReapPersist
    <3>1. job["persisting"].gen \in Generations
      BY <2>1 DEF ReapPersist, Finished, JobTypes, Jobs, Committers
    <3>2. UNCHANGED <<mode, tree, current, kg, overlay>>
      BY <1>6, <2>1 DEF AdvancePersist, DrainPersist, SettlePersist, ReapPersist, env
    <3>3. kgDir' \in Generations \union {None}
      BY <2>1, <3>1 DEF ReapPersist, DataTypes
    <3>4. building' \in [pc : {"none", "started", "replaying", "done"}, got : Overlays \union {None}]
      BY <2>1, SpawnTyped DEF ReapPersist, DataTypes
    <3> QED
      BY <3>2, <3>3, <3>4 DEF DataTypes
  <2>2. CASE ~ReapPersist
    BY <1>6, <2>2 DEF AdvancePersist, DrainPersist, SettlePersist, env, served, DataTypes
  <2> QED
    BY <2>1, <2>2
<1>7. CASE AdvanceOverlay
  <2>1. /\ UNCHANGED <<mode, tree, current, kgDir, kg>>
        /\ overlay' \in {overlay, building.got}
        /\ building' \in {building, NoBuilder}
    BY <1>7 DEF AdvanceOverlay, ReapOverlay, env, served
  <2>2. building.got \in Overlays \union {None}
    BY DEF DataTypes
  <2> QED
    BY <2>1, <2>2 DEF NoBuilder, DataTypes
<1>8. CASE AdvanceCanonicalize \/ SettleCanonicalize
  <2>1. CASE AbsorbCanonicalized
    <3>1. UNCHANGED <<mode, tree, current>>
      BY <1>8 DEF AdvanceCanonicalize, SettleCanonicalize, env
    <3> QED
      BY <2>1, <3>1, AdoptTyped, SpawnTyped DEF AbsorbCanonicalized, DataTypes, served
  <2>2. CASE ~AbsorbCanonicalized
    BY <1>8, <2>2 DEF AdvanceCanonicalize, SettleCanonicalize, env, served, DataTypes
  <2> QED
    BY <2>1, <2>2
<1>9. CASE AdvanceRebuild
  <2>1. UNCHANGED <<mode, tree, current>>
    BY <1>9 DEF AdvanceRebuild, env
  <2> QED
    BY <1>9, <2>1, AdoptTyped DEF AdvanceRebuild, ReapRebuilding, DataTypes, served
<1>10. CASE AdoptMoved
  <2>1. UNCHANGED <<mode, tree, current>>
    BY <1>10 DEF AdoptMoved, env
  <2> QED
    BY <1>10, <2>1, AdoptTyped DEF AdoptMoved, DataTypes
<1>11. CASE \/ CheckClean \/ CheckBackstop \/ CheckDirty \/ NotMoved \/ TakeChanges \/ Sweep \/ NoSweep
            \/ ProbeBusy \/ ProbeChanged \/ DrainCanonicalize \/ Drained \/ BuildBehind \/ BuildFails
  BY <1>11 DEF CheckClean, CheckBackstop, CheckDirty, NotMoved, TakeChanges, Sweep, NoSweep,
     ProbeBusy,
     ProbeChanged, DrainCanonicalize, Drained, BuildBehind, BuildFails, env, served, DataTypes
<1>12. CASE ProbeUnchanged
  BY <1>12, NotedType DEF ProbeUnchanged, env, served, DataTypes
<1>13. CASE Serve
  <2>1. current # None
    BY <1>13 DEF Serve, CallTypes, DataTypes
  <2> QED
    BY <1>13, <2>1, ServeTyped DEF Serve, env, DataTypes
<1>14. CASE ServeFails
  BY <1>14 DEF ServeFails, env, served, DataTypes
<1>15. CASE BuildCommitted
  <2>1. current' \in Generations /\ kg' \in Bodies /\ kgDir' = current'
    BY <1>15, BuildTyped DEF BuildCommitted, DataTypes
  <2>2. current' # None
    BY <2>1, NoneApart
  <2> QED
    BY <1>15, <2>1, <2>2, SpawnTyped DEF BuildCommitted, env, DataTypes
<1>16. CASE BuildSealed
  BY <1>16, SealTyped DEF BuildSealed, env, DataTypes
<1>17. CASE Settled
  BY <1>17 DEF Settled, env, DataTypes
<1> QED
  BY <1>1, <1>2, <1>3, <1>4, <1>5, <1>6, <1>7, <1>8, <1>9, <1>10, <1>11, <1>12, <1>13, <1>14,
     <1>15, <1>16, <1>17
  DEF Next, CallStep, Advance, Refresh, Conclude

\* A graph, once served, is served for good.
LEMMA GraphStays ==
  ASSUME Types, [Next]_vars, kg # None
  PROVE  kg' # None
<1> USE DEF Types
<1>1. CASE UNCHANGED kg
  BY <1>1
<1>2. CASE ReapRebuilding \/ AbsorbCanonicalized \/ AdoptMoved
  BY <1>2, AdoptTyped, NoneApart DEF ReapRebuilding, AbsorbCanonicalized, AdoptMoved, served
<1>3. CASE Serve
  BY <1>3, ServeTyped, NoneApart
<1>4. CASE BuildCommitted
  BY <1>4, BuildTyped, NoneApart DEF BuildCommitted
<1>5. CASE BuildSealed
  BY <1>5, SealTyped, NoneApart
<1>6. CASE ~(ReapRebuilding \/ AbsorbCanonicalized \/ AdoptMoved \/ Serve \/ BuildCommitted \/ BuildSealed)
  <2>1. CASE UNCHANGED vars
    BY <2>1, SMTT(60) DEF vars, served
  <2>2. CASE (\E f \in Files : Edit(f)) \/ Notify \/ Signal \/ Background \/ Builder \/ (\E kind \in Kinds : Begin(kind))
    BY <2>2 DEF Edit, Notify, Capture, CaptureLost, Signal, Background, JobRead, JobCommit,
       JobFail, Builder,
       BuilderResolve, BuilderFinish, Begin, served
  <2>3. CASE Advance \/ TickStep
    BY <1>6, <2>3 DEF Advance, AdvancePersist, AdvanceOverlay, AdvanceCanonicalize, AdvanceRebuild,
       ReapPersist,
       TickStep, TickConsume, TickRest, TickStart, served
  <2>4. CASE Refresh
    BY <1>6, <2>4 DEF Refresh, CheckClean, CheckBackstop, CheckDirty, NotMoved, TakeChanges, Sweep,
       NoSweep,
       ProbeBusy, ProbeUnchanged, ProbeChanged, DrainCanonicalize, DrainPersist, Drained, ServeFails,
       BuildBehind, BuildFails, ReapPersist, served
  <2>5. CASE Conclude
    BY <1>6, <2>5 DEF Conclude, SettlePersist, SettleCanonicalize, Settled, Answer, ReapPersist,
       served
  <2> QED
    BY <2>1, <2>2, <2>3, <2>4, <2>5 DEF Next, CallStep
<1> QED
  BY <1>2, <1>3, <1>4, <1>5, <1>6

\* What a spawned committer holds.
LEMMA SpawnJob ==
  ASSUME job \in [Committers -> Jobs \union {None}], NEW k \in Committers,
         NEW pc \in {"read", "commit"}, NEW gen \in Generations \union {None},
         NEW paths \in (SUBSET Files) \union {None}, Spawn(k, pc, gen, paths)
  PROVE  /\ job' \in [Committers -> Jobs \union {None}]
         /\ job'[k] # None /\ job'[k].pc = pc /\ job'[k].gen = gen /\ job'[k].paths = paths
         /\ \A l \in Committers \ {k} : job'[l] = job[l]
<1>1. [pc |-> pc, gen |-> gen, paths |-> paths, reused |-> FALSE] \in Jobs
  <2>1. pc \in {"read", "commit", "ok", "failed"}
    OBVIOUS
  <2> QED
    BY <2>1 DEF Jobs
<1> QED
  BY <1>1, NoneApart DEF Spawn

\* The committers at work keep their types.
LEMMA BackgroundJobs ==
  ASSUME Types, Background, DataTypes'
  PROVE  JobTypes'
<1> USE DEF Types
<1>0. ASSUME NEW k \in Committers, job' \in [Committers -> Jobs \union {None}], job[k] # None, job'[k] # None,
             kg' = kg, \A l \in Committers \ {k} : job'[l] = None,
             job'[k].pc \in {"commit", "ok"} => job'[k].gen # None,
             job'[k].pc = "ok" => current' = job'[k].gen,
             job'[k].paths = job[k].paths,
             k = "persisting" => job'[k].pc # "read" /\ job'[k].gen # None
      PROVE  JobTypes'
  <2>1. job["canonicalizing"] # None => kg # None /\ job["canonicalizing"].paths # None
    BY DEF JobTypes
  <2>2. job["rebuilding"] # None => job["rebuilding"].paths = None
    BY DEF JobTypes
  <2>3. \A l \in Committers : job'[l] # None => l = k
    BY <1>0
  <2>4. \A l \in Committers : job'[l] # None /\ job'[l].pc \in {"commit", "ok"} => job'[l].gen # None
    BY <1>0, <2>3
  <2>5. \A l \in Committers : job'[l] # None /\ job'[l].pc = "ok" => current' = job'[l].gen
    BY <1>0, <2>3
  <2>6. \A l \in Committers : job'[l] # None => job[l] # None /\ job'[l].paths = job[l].paths
    BY <1>0, <2>3
  <2>7. job'["persisting"] # None => job'["persisting"].pc # "read" /\ job'["persisting"].gen # None
    BY <1>0, <2>3 DEF Committers
  <2>8. /\ job'["canonicalizing"] # None => kg' # None /\ job'["canonicalizing"].paths # None
        /\ job'["rebuilding"] # None => job'["rebuilding"].paths = None
    BY <1>0, <2>1, <2>2, <2>6 DEF Committers
  <2> QED
    BY <1>0, <2>4, <2>5, <2>7, <2>8 DEF JobTypes
<1>1. PICK k \in Committers : JobRead(k) \/ JobCommit(k) \/ JobFail(k)
  BY DEF Background
<1>2. job[k] \in Jobs /\ (\A l \in Committers \ {k} : job[l] = None)
  BY <1>1 DEF JobRead, JobCommit, JobFail, JobTypes, CommitInv, OneCommitter
<1>3. kg' = kg /\ \A l \in Committers \ {k} : job'[l] = None
  BY <1>1, <1>2 DEF JobRead, JobCommit, JobFail, served, JobTypes
<1>4. CASE JobRead(k)
  <2> DEFINE gen == Built(Scanned(job[k].paths))
             pc == IF gen = current THEN "ok" ELSE "commit"
  <2>1. gen \in Generations
    BY BuiltType, ScannedType
  <2>2. Reusable(Scanned(job[k].paths)) \in BOOLEAN
    BY DEF Reusable
  <2>3. job' = [job EXCEPT ![k] = [@ EXCEPT !.gen = gen, !.reused = Reusable(Scanned(job[k].paths)), !.pc = pc]]
    BY <1>4, <1>2 DEF JobRead, JobTypes
  <2>4. job'[k] = [job[k] EXCEPT !.gen = gen, !.reused = Reusable(Scanned(job[k].paths)), !.pc = pc]
    BY <2>3 DEF JobTypes
  <2>5. /\ job'[k] \in Jobs /\ job'[k].gen = gen /\ job'[k].pc = pc /\ job'[k].paths = job[k].paths
    BY <2>1, <2>2, <2>4, <1>2, ZenonT(90) DEF Jobs
  <2>6. job' \in [Committers -> Jobs \union {None}]
    BY <2>3, <2>4, <2>5 DEF JobTypes
  <2>7. current' = current
    BY <1>4 DEF JobRead
  <2>8. gen # None /\ (pc = "ok" => current = gen) /\ k # "persisting" /\ job[k].pc = "read"
    BY <1>4, <2>1, NoneApart DEF JobRead, JobTypes
  <2> QED
    BY <1>0, <1>2, <1>3, <2>5, <2>6, <2>7, <2>8, NoneApart
<1>5. CASE JobCommit(k)
  <2>1. job'[k] = [job[k] EXCEPT !.pc = "ok"]
    BY <1>5 DEF JobCommit, JobTypes
  <2>2. job'[k] \in Jobs /\ job'[k].gen = job[k].gen /\ job'[k].pc = "ok" /\ job'[k].paths = job[k].paths
    BY <2>1, <1>2 DEF Jobs
  <2>3. job' \in [Committers -> Jobs \union {None}]
    BY <1>5, <2>2, <2>1 DEF JobCommit, JobTypes
  <2>4. current' = job[k].gen /\ job[k].gen # None
    BY <1>5 DEF JobCommit, JobTypes
  <2> QED
    BY <1>0, <1>2, <1>3, <2>2, <2>3, <2>4, NoneApart
<1>6. CASE JobFail(k)
  <2>1. job'[k] = [job[k] EXCEPT !.pc = "failed"]
    BY <1>6 DEF JobFail, JobTypes
  <2>2. job'[k] \in Jobs /\ job'[k].gen = job[k].gen /\ job'[k].pc = "failed" /\ job'[k].paths = job[k].paths
    BY <2>1, <1>2 DEF Jobs
  <2>3. job' \in [Committers -> Jobs \union {None}]
    BY <1>6, <2>2, <2>1 DEF JobFail, JobTypes
  <2>4. /\ k = "persisting" => job[k].gen # None
        /\ job[k] # None
    BY <1>6 DEF JobFail, JobTypes
  <2> QED
    BY <1>0, <1>2, <1>3, <2>2, <2>3, <2>4, NoneApart
<1> QED
  BY <1>1, <1>4, <1>5, <1>6

\* Where nothing is reaped, read or spawned, the committers are what they were.
LEMMA JobsSame ==
  ASSUME Types, [Next]_vars, UNCHANGED <<job, current>>
  PROVE  JobTypes'
BY GraphStays DEF Types, JobTypes

\* A reaped committer is gone.
LEMMA JobsReaped ==
  ASSUME Types, [Next]_vars, UNCHANGED current, NEW k \in Committers, job' = [job EXCEPT ![k] = None]
  PROVE  JobTypes'
<1>1. job' \in [Committers -> Jobs \union {None}] /\ \A l \in Committers : job'[l] # None => job'[l] = job[l]
  BY DEF Types, JobTypes
<1> QED
  BY <1>1, GraphStays DEF Types, JobTypes, Committers

\* A committer is spawned beside none.
LEMMA JobsSpawned ==
  ASSUME Types, NEW k \in Committers, \A l \in Committers : job[l] = None,
         NEW pc \in {"read", "commit"}, NEW gen \in Generations \union {None},
         NEW paths \in (SUBSET Files) \union {None}, Spawn(k, pc, gen, paths),
         pc = "commit" => gen # None,
         k = "persisting" => pc # "read",
         k = "canonicalizing" => kg' # None /\ paths # None,
         k = "rebuilding" => paths = None
  PROVE  JobTypes'
<1>1. /\ job' \in [Committers -> Jobs \union {None}]
      /\ job'[k] # None /\ job'[k].pc = pc /\ job'[k].gen = gen /\ job'[k].paths = paths
      /\ \A l \in Committers \ {k} : job'[l] = None
  BY SpawnJob, SMTT(60) DEF Types, JobTypes
<1> QED
  BY <1>1 DEF JobTypes, Committers

\* Past the drain, and where nobody is busy, no committer is left.
LEMMA NoneLeft ==
  ASSUME Types, call.pc \in Clear \/ ~Busy
  PROVE  \A l \in Committers : job[l] = None
BY DEF Types, CommitInv, Clear, Refreshing, Busy, Committers

\* The committers keep their types.
LEMMA JobTyped ==
  ASSUME Types, [Next]_vars, DataTypes'
  PROVE  JobTypes'
<1>1. CASE Background
  BY <1>1, BackgroundJobs, SMTT(60)
<1>2. CASE ReapPersist \/ AbsorbCanonicalized \/ ReapRebuilding \/ DrainCanonicalize
  <2>1. \E k \in Committers : job' = [job EXCEPT ![k] = None]
    BY <1>2 DEF ReapPersist, AbsorbCanonicalized, ReapRebuilding, DrainCanonicalize, Committers
  <2>2. job' # job
    BY <1>2 DEF ReapPersist, AbsorbCanonicalized, ReapRebuilding, DrainCanonicalize, Finished,
       Types, CommitInv, Committers
  <2>3. CASE UNCHANGED current
    BY <2>1, <2>3, JobsReaped
  <2>4. CASE Background \/ BuildCommitted
    BY <1>1, <1>2, <2>2, <2>4 DEF BuildCommitted
  <2> QED
    BY <2>2, <2>3, <2>4 DEF Next, vars, Edit, Notify, Capture, CaptureLost, Signal, Builder,
       BuilderResolve,
       BuilderFinish, Begin, CallStep, Advance, AdvancePersist, AdvanceOverlay, AdvanceCanonicalize, AdvanceRebuild,
       TickStep, TickConsume, TickRest, TickStart, Refresh, CheckClean, CheckBackstop, CheckDirty, AdoptMoved,
       NotMoved, TakeChanges, Sweep, NoSweep, ProbeBusy, ProbeUnchanged, ProbeChanged, DrainCanonicalize,
       DrainPersist, Drained, Serve, ServeFails, BuildBehind, BuildSealed, BuildFails, Conclude,
       SettlePersist, SettleCanonicalize, Settled, Answer
<1>3. CASE ProbeUnchanged
  <2>1. /\ \A l \in Committers : job[l] = None
        /\ Spawn("canonicalizing", "read", None, call.paths)
        /\ call.paths \in (SUBSET Files) \union {None} /\ call.paths # None /\ kg # None /\ kg' = kg
    BY <1>3, NoneLeft DEF ProbeUnchanged, Types, CallTypes, served
  <2> QED
    BY <2>1, JobsSpawned DEF Committers
<1>4. CASE Serve
  <2>1. \A l \in Committers : job[l] = None
    BY <1>4, NoneLeft DEF Serve, Clear
  <2>2. Spawn("persisting", "commit", ServedGeneration(Absorbed(call.probe), call.probe), None)
    BY <1>4 DEF Serve
  <2>3. ServedGeneration(Absorbed(call.probe), call.probe) \in Generations
    BY <1>4, ServeTyped
  <2>4. ServedGeneration(Absorbed(call.probe), call.probe) # None
    BY <2>3, NoneApart
  <2> QED
    BY <2>1, <2>2, <2>3, <2>4, JobsSpawned DEF Committers
<1>5. CASE BuildBehind
  <2>1. \A l \in Committers : job[l] = None
    BY <1>5, NoneLeft DEF BuildBehind, Clear
  <2>2. Spawn("rebuilding", "read", None, None)
    BY <1>5 DEF BuildBehind
  <2> QED
    BY <2>1, <2>2, JobsSpawned DEF Committers
<1>6. CASE BuildSealed
  <2>1. \A l \in Committers : job[l] = None
    BY <1>6, NoneLeft DEF BuildSealed, Building, Clear
  <2>2. PICK paths : Spawn("persisting", "commit", Built(Scanned(paths)), None)
    BY <1>6 DEF BuildSealed
  <2>3. Built(Scanned(paths)) \in Generations /\ Built(Scanned(paths)) # None
    BY BuildTyped, NoneApart
  <2> QED
    BY <2>1, <2>2, <2>3, JobsSpawned DEF Committers
<1>7. CASE BuildCommitted
  <2>1. \A l \in Committers : job[l] = None
    BY <1>7, NoneLeft DEF BuildCommitted, Building, Clear
  <2>2. job' = job /\ \A l \in Committers : job'[l] = None
    BY <1>7, <2>1 DEF BuildCommitted
  <2>3. job \in [Committers -> Jobs \union {None}]
    BY DEF JobTypes, Types
  <2> QED
    BY <2>2, <2>3 DEF JobTypes, Committers
<1>8. CASE UNCHANGED <<job, current>>
  BY <1>8, JobsSame
<1> QED
  BY <1>1, <1>2, <1>3, <1>4, <1>5, <1>6, <1>7, <1>8
  DEF Next, vars, Edit, Notify, Capture, CaptureLost, Signal, Builder, BuilderResolve,
      BuilderFinish, Begin, CallStep, Advance, AdvancePersist, AdvanceOverlay, AdvanceCanonicalize, AdvanceRebuild,
      TickStep, TickConsume, TickRest, TickStart, Refresh, CheckClean, CheckBackstop, CheckDirty, AdoptMoved,
      NotMoved, TakeChanges, Sweep, NoSweep, ProbeBusy, ProbeChanged, DrainPersist, Drained, ServeFails,
      BuildFails, Conclude, SettlePersist, SettleCanonicalize, Settled, Answer

-------------------------------------------------------------------------------
\* A call that goes on keeps its shape.
LEMMA CallGoes ==
  ASSUME Types, [Next]_vars, NEW pc \in PCs, Goto(pc), call.pc \in Probed => pc \in Probed,
         pc = "probe" => call.paths # None /\ kg # None,
         pc = "serve" => overlay' # None /\ call.probe # None,
         call.kind = "tick" => pc \notin {"settle", "answer"},
         pc \in {"drain", "serve", "build"} => kg' = None \/ call.paths # None,
         pc \in {"settle", "answer"} => kg' # None /\ job'["rebuilding"] = None
  PROVE  CallTypes'
<1>1. /\ call'.pc = pc /\ call'.kind = call.kind /\ call'.backstop = call.backstop /\ call'.paths = call.paths
      /\ call'.probe = call.probe
  BY DEF Goto, Types, CommitInv, CallShape
<1> QED
  BY <1>1, GraphStays DEF Types, CallTypes

\* An ended call keeps its types, ...
LEMMA CallEnds ==
  ASSUME call' = Idle
  PROVE  CallTypes'
BY DEF Idle, CallTypes, PCs, Probed

\* ... and so does one that is done with refresh.
LEMMA CallDone ==
  ASSUME Types, [Next]_vars, Done, kg' # None \/ call.kind = "tick", job'["rebuilding"] = None \/ call.kind = "tick"
  PROVE  CallTypes'
<1>1. CASE call.kind = "tick"
  BY <1>1, CallEnds DEF Done
<1>2. CASE call.kind = "query"
  <2>1. Goto("answer")
    BY <1>2 DEF Done
  <2> QED
    BY <1>2, <2>1, CallGoes DEF PCs, Probed
<1>3. CASE call.kind = "bound"
  <2>1. Goto("settle")
    BY <1>3 DEF Done
  <2> QED
    BY <1>3, <2>1, CallGoes DEF PCs, Probed
<1> QED
  BY <1>1, <1>2, <1>3 DEF Types, CommitInv, CallShape

\* A call that stays where it is, as the threads around it move.
LEMMA CallWaits ==
  ASSUME Types, [Next]_vars, UNCHANGED call,
         call.pc = "serve" => UNCHANGED overlay,
         call.pc \in {"drain", "serve", "build"} => UNCHANGED kg,
         job["rebuilding"] = None => job'["rebuilding"] = None
  PROVE  CallTypes'
BY GraphStays DEF Types, CallTypes

\* The call keeps its types while the other threads move.
LEMMA OthersWait ==
  ASSUME Types, [Next]_vars,
         (\E f \in Files : Edit(f)) \/ Notify \/ Signal \/ Background \/ Builder \/ UNCHANGED vars
         \/ DrainCanonicalize \/ DrainPersist \/ SettlePersist \/ SettleCanonicalize
  PROVE  CallTypes'
<1>1. UNCHANGED call
  BY DEF Edit, Notify, Capture, CaptureLost, Signal, Background, JobRead, JobCommit, JobFail,
     Builder,
     BuilderResolve, BuilderFinish, vars, DrainCanonicalize, DrainPersist, SettlePersist, SettleCanonicalize
<1>2. job["rebuilding"] = None => job'["rebuilding"] = None
  BY SMTT(60) DEF Edit, Notify, Capture, CaptureLost, Signal, Background, JobRead, JobCommit,
     JobFail, Builder,
     BuilderResolve, BuilderFinish, vars, DrainCanonicalize, DrainPersist, SettlePersist, SettleCanonicalize,
     ReapPersist, AbsorbCanonicalized, Types, CommitInv, Committers
<1>3. /\ call.pc = "serve" => UNCHANGED overlay
      /\ call.pc \in {"drain", "serve", "build"} => UNCHANGED kg
  BY DEF Edit, Notify, Capture, CaptureLost, Signal, Background, JobRead, JobCommit, JobFail,
     Builder,
     BuilderResolve, BuilderFinish, vars, DrainCanonicalize, DrainPersist, SettlePersist, SettleCanonicalize,
     ReapPersist, served
<1> QED
  BY <1>1, <1>2, <1>3, CallWaits, SMTT(60)

\* The call keeps its shape.
LEMMA CallTyped ==
  ASSUME Types, [Next]_vars
  PROVE  CallTypes'
<1>1. CASE (\E f \in Files : Edit(f)) \/ Notify \/ Signal \/ Background \/ Builder \/ UNCHANGED vars
           \/ DrainCanonicalize \/ DrainPersist \/ SettlePersist \/ SettleCanonicalize
  BY <1>1, OthersWait
<1>2. CASE \E kind \in Kinds : Begin(kind)
  BY <1>2 DEF Begin, Idle, CallTypes, PCs, Probed
<1>3. CASE Advance
  <2>1. PICK pc \in {"overlay", "canonicalize", "rebuild", "debounce", "check"} : Goto(pc)
    BY <1>3 DEF Advance, AdvancePersist, AdvanceOverlay, AdvanceCanonicalize, AdvanceRebuild
  <2>2. pc \in PCs /\ call.pc \notin Probed
    BY <1>3 DEF PCs, Refreshing, Probed, Advance, AdvancePersist, AdvanceOverlay,
       AdvanceCanonicalize, AdvanceRebuild
  <2> QED
    BY <2>1, <2>2, CallGoes
<1>4. CASE TickConsume \/ TickRest \/ Answer \/ BuildFails
  BY <1>4, CallEnds DEF TickConsume, TickRest, Answer, BuildFails, Error
<1>5. CASE TickStart \/ CheckDirty \/ NotMoved
  <2>1. PICK pc \in {"check", "moved", "changes"} : Goto(pc)
    BY <1>5 DEF TickStart, CheckDirty, NotMoved
  <2>2. pc \in PCs /\ call.pc \notin Probed
    BY <1>5 DEF PCs, Refreshing, Probed, TickStart, CheckDirty, NotMoved
  <2> QED
    BY <2>1, <2>2, CallGoes
<1>6. CASE CheckClean \/ ProbeBusy \/ ProbeUnchanged
  <2>1. Done /\ kg # None
    BY <1>6 DEF CheckClean, ProbeBusy, ProbeUnchanged, Types, CallTypes
  <2>2. job["rebuilding"] = None
    BY <1>6 DEF CheckClean, ProbeBusy, ProbeUnchanged, Types, CommitInv, Refreshing
  <2>3. job'["rebuilding"] = None
    BY <1>6, <2>2 DEF CheckClean, ProbeBusy, ProbeUnchanged, Spawn, Types, JobTypes, Committers
  <2> QED
    BY <2>1, <2>3, GraphStays, CallDone
<1>7. CASE CheckBackstop
  BY <1>7, GraphStays DEF CheckBackstop, Types, CommitInv, CallShape, CallTypes, PCs, Probed,
     Refreshing
<1>8. CASE AdoptMoved
  <2>1. Goto("changes") \/ call' = Idle
    BY <1>8 DEF AdoptMoved, Error
  <2> QED
    BY <1>8, <2>1, CallEnds, CallGoes DEF PCs, Probed, Refreshing, AdoptMoved
<1>9. CASE TakeChanges
  BY <1>9, GraphStays DEF TakeChanges, Types, CommitInv, CallShape, CallTypes, PCs, Probed,
     Refreshing, WatchTypes
<1>10. CASE Sweep
  <2>1. CASE Moved = {}
    <3>1. Done /\ kg # None /\ job' = job /\ job["rebuilding"] = None
      BY <1>10, <2>1 DEF Sweep, Types, CommitInv, Refreshing
    <3> QED
      BY <3>1, GraphStays, CallDone
  <2>2. CASE Moved # {}
    <3>1. Moved \in SUBSET Files /\ Moved # None
      BY NoneApart DEF Moved
    <3>2. call' = [call EXCEPT !.pc = "probe", !.paths = Moved] /\ kg # None /\ call.probe = call.probe
      BY <1>10, <2>2 DEF Sweep
    <3>3. call.paths = None
      BY <1>10 DEF Sweep
    <3> QED
      BY <3>1, <3>2, <3>3, GraphStays DEF Types, CommitInv, CallShape, CallTypes, PCs, Probed,
         Refreshing
  <2> QED
    BY <2>1, <2>2
<1>11. CASE NoSweep
  <2>1. Goto("drain") \/ (Goto("probe") /\ kg # None /\ call.paths # None)
    BY <1>11 DEF NoSweep
  <2>2. kg' = kg /\ (kg = None \/ call.paths # None) /\ call.pc = "sweep"
    BY <1>11 DEF NoSweep, served, Types, CallTypes
  <2> QED
    BY <2>1, <2>2, CallGoes DEF PCs, Probed, Refreshing
<1>12. CASE ProbeChanged
  <2>1. call.paths \in SUBSET Files /\ call.paths # None /\ kg # None
    BY <1>12 DEF ProbeChanged, Types, CallTypes
  <2>2. [f \in call.paths |-> tree[f]] \in [call.paths -> Versions]
    BY <2>1 DEF Types, DataTypes, Stamps
  <2> QED
    BY <1>12, <2>1, <2>2, GraphStays DEF ProbeChanged, Types, CommitInv, CallShape, CallTypes, PCs,
       Probed, Refreshing
<1>13. CASE Drained
  <2>1. (overlay # None /\ call.probe # None /\ Goto("serve")) \/ Goto("build")
    BY <1>13 DEF Drained
  <2>2. kg' = kg /\ overlay' = overlay /\ (kg = None \/ call.paths # None)
    BY <1>13 DEF Drained, served, Types, CallTypes
  <2> QED
    BY <2>1, <2>2, CallGoes DEF PCs, Probed, Refreshing
<1>14. CASE Serve
  <2>1. Done /\ kg' # None
    BY <1>14, ServeTyped, NoneApart DEF Serve
  <2>2. job'["rebuilding"] = None
    BY <1>14 DEF Serve, Spawn, Types, CommitInv, Refreshing, JobTypes, Committers
  <2> QED
    BY <2>1, <2>2, CallDone
<1>15. CASE ServeFails
  <2>1. Goto("build") /\ kg' = kg /\ (kg = None \/ call.paths # None)
    BY <1>15 DEF ServeFails, served, Types, CallTypes
  <2> QED
    BY <2>1, CallGoes DEF PCs, Probed, Refreshing
<1>16. CASE BuildBehind
  BY <1>16, CallDone DEF BuildBehind
<1>17. CASE BuildCommitted
  <2>1. Done /\ kg' # None
    BY <1>17, BuildTyped, NoneApart DEF BuildCommitted
  <2>2. job'["rebuilding"] = None
    BY <1>17 DEF BuildCommitted, Building, Types, CommitInv, Refreshing
  <2> QED
    BY <2>1, <2>2, CallDone
<1>18. CASE BuildSealed
  <2>1. Done /\ kg' # None
    BY <1>18, SealTyped, NoneApart DEF BuildSealed
  <2>2. job'["rebuilding"] = None
    BY <1>18 DEF BuildSealed, Building, Spawn, Types, CommitInv, Refreshing, JobTypes, Committers
  <2> QED
    BY <2>1, <2>2, CallDone
<1>19. CASE Settled
  <2>1. Goto("answer") /\ kg # None /\ job' = job /\ job["rebuilding"] = None /\ call.kind # "tick"
    BY <1>19 DEF Settled, Types, CallTypes
  <2> QED
    BY <2>1, GraphStays, CallGoes DEF PCs, Probed
<1> QED
  BY <1>1, <1>2, <1>3, <1>4, <1>5, <1>6, <1>7, <1>8, <1>9, <1>10, <1>11, <1>12, <1>13, <1>14,
     <1>15, <1>16, <1>17,
     <1>18, <1>19
  DEF Next, CallStep, TickStep, Refresh, Conclude

\* Every step keeps the types, ...
LEMMA TypesStep ==
  ASSUME Types, [Next]_vars
  PROVE  Types'
<1>1. CommitInv' /\ WatchTypes' /\ DataTypes' /\ CallTypes'
  BY CommitStep, WatchTyped, DataTyped, CallTyped DEF Types
<1>2. JobTypes'
  BY <1>1, JobTyped
<1>3. failures' \in Nat
  BY FailuresCounted DEF Types
<1> QED
  BY <1>1, <1>2, <1>3 DEF Types

\* ... which hold at the start.
LEMMA TypesInit == Init => Types
<1> SUFFICES ASSUME Init PROVE Types
  OBVIOUS
<1>1. CommitInv
  BY DEF Init, CommitInv, CallShape, Idle, NoJobs, OneCommitter, Refreshing, Clear, Committers
<1>2. CallTypes
  BY DEF Init, CallTypes, Idle, PCs
<1>3. JobTypes
  BY DEF Init, JobTypes, NoJobs, Committers
<1>4. [f \in Files |-> 0] \in Stamps
  BY DaemonAssumption DEF Stamps, Versions
<1>5. DataTypes
  BY <1>4, CommittedType DEF Init, DataTypes, NoBuilder
<1>6. WatchTypes
  BY DEF Init, WatchTypes
<1>7. failures \in Nat
  BY DEF Init
<1> QED
  BY <1>1, <1>2, <1>3, <1>5, <1>6, <1>7 DEF Types

\* The state keeps its types, and no tool call settles or answers without a graph
\* (ensure_fresh, server.rs 1350-1845).
THEOREM DaemonTypeCorrect == Spec => []TypeOK
<1>1. Types /\ [Next]_vars => Types'
  BY TypesStep
<1>2. Types => TypeOK
  BY DEF Types, CallTypes, DataTypes, WatchTypes, TypeOK
<1> QED
  BY <1>1, <1>2, TypesInit, PTL DEF Spec

-------------------------------------------------------------------------------
(* What agrees with what, while no hand-over has gone wrong.                 *)

Taken == {"sweep", "probe", "drain", "serve", "build"}

Show(v) == [f \in Files |-> Text(v[f])]
Sound(g) == g = Committed(g.man)
Leq(m, n) == \A f \in Files : m[f] <= n[f]
Canon == job["canonicalizing"]
Persist == job["persisting"]

\* A generation shows one tree, which is on disk or was.
CurrentTrue == current # None => Sound(current) /\ Leq(current.man, tree)
PinTrue ==
  kgDir # None => Sound(kgDir) /\ current # None /\ Leq(kgDir.man, current.man) /\ kgDir.graph = kg
OverlayTrue == overlay # None => overlay.body = Show(overlay.man) /\ Leq(overlay.man, tree)
BuildingTrue ==
  building.got # None => building.got.body = Show(building.got.man) /\ Leq(building.got.man, tree)

\* What is about to be committed is later than CURRENT.
CommitsTrue ==
  \A k \in Committers : job[k] # None /\ job[k].gen # None =>
    /\ Sound(job[k].gen) /\ Leq(job[k].gen.man, tree)
    /\ current # None => Leq(current.man, job[k].gen.man)
    /\ job[k].pc = "commit" /\ k # "persisting" => job[k].gen # current

\* The served graph is the one in flight, or the pinned one; a canonicalization
\* knows whether CURRENT still has it.
ServedTrue ==
  /\ Persist # None => kg = Persist.gen.graph
  /\ kg # None /\ Persist = None => kgDir # None
  /\ Canon # None /\ (Canon.pc # "ok" \/ Canon.reused) => current.graph = kg
  /\ Canon # None /\ Canon.pc = "commit" /\ Canon.reused => Canon.gen.graph = kg
  /\ Canon # None /\ Canon.pc = "ok" /\ ~Canon.reused => kgDir # current

\* The overlay is the served graph, and has its stamps.
RetainedTrue ==
  kg # None /\ overlay # None =>
    /\ overlay.body = kg
    /\ Persist # None => overlay.man = Persist.gen.man
    /\ Persist = None /\ Canon = None /\ kgDir = current => overlay.man = current.man

\* Once refresh has caught up with CURRENT and nothing is in flight, the served
\* graph and the overlay are CURRENT's.
Grounded ==
  call.pc \in Taken \union {"changes"} /\ ~Busy /\ kg # None =>
    kg = current.graph /\ (overlay # None => overlay.man = current.man)

\* A probe saw stamps no older than the overlay's.
ProbeTrue ==
  call.probe # None /\ call.pc \in {"drain", "serve"} =>
    \A f \in call.paths :
      call.probe[f] <= tree[f] /\ (overlay # None => overlay.man[f] <= call.probe[f])

Truth ==
  /\ CurrentTrue /\ PinTrue /\ OverlayTrue /\ BuildingTrue /\ CommitsTrue
  /\ ServedTrue /\ RetainedTrue /\ Grounded /\ ProbeTrue

-------------------------------------------------------------------------------
\* The generation of a tree shows that tree in all its parts, ...
LEMMA CommittedParts ==
  ASSUME NEW v
  PROVE  /\ Committed(v).man = v /\ Committed(v).pack = v
         /\ Committed(v).body = Show(v) /\ Committed(v).graph = Show(v)
         /\ Sound(Committed(v))
BY DEF Committed, Show, Sound

\* ... and so does every sound generation.
LEMMA SoundParts ==
  ASSUME NEW g, Sound(g)
  PROVE  g.pack = g.man /\ g.body = Show(g.man) /\ g.graph = Show(g.man)
<1>1. g = Committed(g.man)
  BY DEF Sound
<1> HIDE DEF Sound
<1> QED
  BY <1>1, CommittedParts

\* A scan, hinted or whole, lies between CURRENT and the tree.
LEMMA ScannedBetween ==
  ASSUME Types, CurrentTrue, NEW paths
  PROVE  /\ Scanned(paths) \in Stamps
         /\ Leq(Scanned(paths), tree)
         /\ current # None => Leq(current.man, Scanned(paths))
<1>1. Scanned(paths) \in Stamps
  BY ScannedType DEF Types
<1>2. \A f \in Files : tree[f] \in Nat
  BY DaemonAssumption DEF Types, DataTypes, Stamps, Versions
<1>3. current # None => \A f \in Files : current.man[f] \in Nat
  BY DaemonAssumption DEF Types, DataTypes, Stamps, Versions, Generations
<1> QED
  BY <1>1, <1>2, <1>3 DEF Scanned, Leq, CurrentTrue

\* A build commits the generation of the manifest it scanned.
LEMMA BuiltSound ==
  ASSUME Types, CurrentTrue, NEW paths
  PROVE  Built(Scanned(paths)) = Committed(Scanned(paths))
<1> DEFINE man == Scanned(paths)
<1>1. man \in Stamps
  BY ScannedBetween
<1>2. current # None => /\ current \in Generations
                        /\ current.pack = current.man
                        /\ \A f \in Files : current.body[f] = Text(current.man[f])
                        /\ current.body = Show(current.man) /\ current.graph = Show(current.man)
  <2> SUFFICES ASSUME current # None
               PROVE  /\ current \in Generations
                      /\ current.pack = current.man
                      /\ \A f \in Files : current.body[f] = Text(current.man[f])
                      /\ current.body = Show(current.man) /\ current.graph = Show(current.man)
    OBVIOUS
  <2>1. Sound(current) /\ current \in Generations
    BY DEF CurrentTrue, Types, DataTypes
  <2> QED
    BY <2>1, SoundParts DEF Show
<1>3. \A f \in Files : current = None \/ man[f] # current.man[f] => man[f] = tree[f]
  BY DEF Scanned
<1>4. CASE Reusable(man)
  <2>1. current # None /\ \A f \in Files : man[f] # current.man[f] => Text(tree[f]) = current.body[f]
    BY <1>4 DEF Reusable
  <2>2. Show(current.man) = Show(man)
    BY <1>2, <1>3, <2>1 DEF Show
  <2>3. [f \in Files |-> IF man[f] = current.man[f] THEN current.pack[f] ELSE man[f]] = man
    BY <1>1, <1>2, <2>1 DEF Stamps
  <2>4. Built(man) = [man |-> man, pack |-> man, body |-> current.body, graph |-> current.graph]
    BY <1>2, <1>4, <2>1, <2>3 DEF Built, Generations
  <2> QED
    BY <1>2, <2>1, <2>2, <2>4 DEF Committed, Show
<1>5. CASE ~Reusable(man)
  <2>1. [f \in Files |-> IF current # None /\ current.pack[f] = man[f] THEN current.body[f] ELSE Text(tree[f])]
          = Show(man)
    BY <1>2, <1>3 DEF Show
  <2> QED
    BY <1>5, <2>1 DEF Built, Committed, Show
<1> QED
  BY <1>4, <1>5

\* A reusable build has CURRENT's graph.
LEMMA ReusedGraph ==
  ASSUME Types, NEW paths, Reusable(Scanned(paths))
  PROVE  current # None /\ Built(Scanned(paths)).graph = current.graph
BY DEF Reusable, Built, Types, DataTypes, Generations

\* Manifests are ordered file by file.
LEMMA LeqOrder ==
  /\ \A m, n, o \in Stamps : Leq(m, n) /\ Leq(n, o) => Leq(m, o)
  /\ \A m, n \in Stamps : Leq(m, n) /\ Leq(n, m) => m = n
  /\ \A m \in Stamps : Leq(m, m)
<1>1. \A m \in Stamps : \A f \in Files : m[f] \in Nat
  BY DaemonAssumption DEF Stamps, Versions
<1>2. \A m, n, o \in Stamps : Leq(m, n) /\ Leq(n, o) => Leq(m, o)
  BY <1>1 DEF Leq
<1>3. \A m \in Stamps : Leq(m, m)
  BY <1>1 DEF Leq
<1>4. ASSUME NEW m \in Stamps, NEW n \in Stamps, Leq(m, n), Leq(n, m)
      PROVE  m = n
  <2>1. \A f \in Files : m[f] = n[f]
    BY <1>1, <1>4 DEF Leq
  <2> QED
    BY <2>1 DEF Stamps
<1> QED
  BY <1>2, <1>3, <1>4

-------------------------------------------------------------------------------
\* Manifests are stamps.
LEMMA ManTypes ==
  ASSUME Types
  PROVE  /\ tree \in Stamps
         /\ current # None => current.man \in Stamps
         /\ kgDir # None => kgDir.man \in Stamps
         /\ overlay # None => overlay.man \in Stamps
         /\ building.got # None => building.got.man \in Stamps
         /\ \A k \in Committers : job[k] # None /\ job[k].gen # None => job[k].gen.man \in Stamps
<1>1. \A k \in Committers : job[k] # None => job[k] \in Jobs
  BY DEF Types, JobTypes
<1> QED
  BY <1>1 DEF Types, DataTypes, Generations, Overlays, Jobs

\* An edit makes the tree later.
LEMMA EditTrue ==
  ASSUME Types, Truth, NEW f \in Files, Edit(f)
  PROVE  Truth'
<1>1. tree' \in Stamps /\ Leq(tree, tree')
  <2>1. tree' \in Stamps
    BY DaemonAssumption DEF Edit, Types, DataTypes, Stamps, Versions
  <2>2. \A g \in Files : tree[g] \in Nat
    BY DaemonAssumption DEF Types, DataTypes, Stamps, Versions
  <2> QED
    BY <2>1, <2>2 DEF Edit, Leq, Types, DataTypes, Stamps
<1>2. UNCHANGED <<current, kg, kgDir, overlay, building, job, call>>
  BY DEF Edit, served
<1>3. \A m \in Stamps : Leq(m, tree) => Leq(m, tree')
  BY <1>1, LeqOrder, ManTypes
<1>4. CurrentTrue' /\ PinTrue' /\ OverlayTrue' /\ BuildingTrue'
  BY <1>2, <1>3, ManTypes DEF Truth, CurrentTrue, PinTrue, OverlayTrue, BuildingTrue
<1>5. CommitsTrue'
  BY <1>2, <1>3, ManTypes DEF Truth, CommitsTrue
<1>6. ServedTrue' /\ RetainedTrue' /\ Grounded'
  BY <1>2 DEF Truth, ServedTrue, RetainedTrue, Grounded, Canon, Persist, Busy
<1>7. ProbeTrue'
  <2> SUFFICES ASSUME call.probe # None, call.pc \in {"drain", "serve"}, NEW g \in call.paths
               PROVE  call.probe[g] <= tree'[g] /\ (overlay # None => overlay.man[g] <= call.probe[g])
    BY <1>2 DEF ProbeTrue
  <2>1. g \in Files /\ call.probe[g] \in Nat /\ tree[g] \in Nat /\ tree'[g] \in Nat
    BY <1>1, DaemonAssumption DEF Types, CallTypes, DataTypes, Stamps, Versions
  <2>2. call.probe[g] <= tree[g] /\ (overlay # None => overlay.man[g] <= call.probe[g]) /\ tree[g] <= tree'[g]
    BY <1>1, <2>1 DEF Truth, ProbeTrue, Leq
  <2> QED
    BY <2>1, <2>2
<1> QED
  BY <1>4, <1>5, <1>6, <1>7 DEF Truth

\* A step of the watch or of the call alone.
LEMMA CallTrue ==
  ASSUME Types, Truth, UNCHANGED <<tree, current, kg, kgDir, overlay, building, job>>, Grounded', ProbeTrue'
  PROVE  Truth'
<1>1. CurrentTrue' /\ PinTrue' /\ OverlayTrue' /\ BuildingTrue' /\ CommitsTrue'
  BY DEF Truth, CurrentTrue, PinTrue, OverlayTrue, BuildingTrue, CommitsTrue
<1>2. ServedTrue' /\ RetainedTrue'
  BY DEF Truth, ServedTrue, RetainedTrue, Canon, Persist
<1> QED
  BY <1>1, <1>2 DEF Truth

\* ... that leaves the call, or ends it, or has not got to the sweep.
LEMMA WatchTrue ==
  ASSUME Types, Truth, UNCHANGED <<tree, current, kg, kgDir, overlay, building, job>>,
         UNCHANGED call \/ call'.pc \notin Taken \union {"changes"}
  PROVE  Truth'
<1>1. Grounded'
  BY DEF Truth, Grounded, Busy
<1>2. ProbeTrue'
  BY DEF Truth, ProbeTrue, Taken
<1> QED
  BY <1>1, <1>2, CallTrue

\* A call that goes on keeps what it knows.
LEMMA GotoPC ==
  ASSUME Types, NEW pc, Goto(pc)
  PROVE  /\ call'.pc = pc /\ call'.paths = call.paths /\ call'.probe = call.probe
         /\ call'.backstop = call.backstop /\ call'.kind = call.kind
BY DEF Goto, Types, CommitInv, CallShape

\* A refresh that is done ends the call or goes on to its answer.
LEMMA DonePC ==
  ASSUME Types, Done
  PROVE  call'.pc \in {"idle", "answer", "settle"}
<1>1. CASE call.kind = "tick"
  BY <1>1 DEF Done, Idle
<1>2. CASE call.kind = "query"
  BY <1>2, GotoPC DEF Done
<1>3. CASE call.kind = "bound"
  BY <1>3, GotoPC DEF Done
<1> QED
  BY <1>1, <1>2, <1>3 DEF Types, CommitInv, CallShape

\* Steps that touch neither the graphs nor the committers.
LEMMA QuietTrue ==
  ASSUME Types, Truth,
         \/ Notify \/ Signal \/ UNCHANGED vars \/ (\E kind \in Kinds : Begin(kind)) \/ TickStep \/ Answer
         \/ CheckClean \/ CheckBackstop \/ CheckDirty \/ ProbeBusy \/ BuildFails
  PROVE  Truth'
<1>1. UNCHANGED <<tree, current, kg, kgDir, overlay, building, job>>
  BY DEF Notify, Capture, CaptureLost, Signal, vars, Begin, TickStep, TickConsume, TickRest,
     TickStart, Answer,
     CheckClean, CheckBackstop, CheckDirty, ProbeBusy, BuildFails, env, served
<1>2. UNCHANGED call \/ call'.pc \notin Taken \union {"changes"}
  <2>1. CASE Notify \/ Signal \/ UNCHANGED vars
    BY <2>1 DEF Notify, Capture, CaptureLost, Signal, vars
  <2>2. CASE (\E kind \in Kinds : Begin(kind)) \/ TickConsume \/ TickRest \/ Answer \/ BuildFails
    <3>1. ASSUME NEW kind, Begin(kind)
          PROVE  call'.pc = "advance"
      BY <3>1 DEF Begin, Idle
    <3>2. TickConsume \/ TickRest \/ Answer \/ BuildFails => call'.pc = "idle"
      BY DEF TickConsume, TickRest, Answer, BuildFails, Error, Idle
    <3>3. call'.pc \in {"advance", "idle"}
      BY <2>2, <3>1, <3>2
    <3> QED
      BY <3>3 DEF Taken
  <2>3. CASE TickStart \/ CheckDirty
    <3>1. Goto("check") \/ Goto("moved")
      BY <2>3 DEF TickStart, CheckDirty
    <3> QED
      BY <3>1, GotoPC DEF Taken
  <2>4. CASE CheckClean \/ ProbeBusy
    BY <2>4, DonePC DEF CheckClean, ProbeBusy, Taken
  <2>5. CASE CheckBackstop
    BY <2>5 DEF CheckBackstop, Types, CommitInv, CallShape, Taken
  <2> QED
    BY <2>1, <2>2, <2>3, <2>4, <2>5 DEF TickStep
<1> QED
  BY <1>1, <1>2, WatchTrue

\* Refresh up to the drain.
LEMMA RefreshTrue ==
  ASSUME Types, Truth, NotMoved \/ TakeChanges \/ Sweep \/ NoSweep \/ ProbeChanged \/ Drained
  PROVE  Truth'
<1>1. UNCHANGED <<tree, current, kg, kgDir, overlay, building, job>>
  BY DEF NotMoved, TakeChanges, Sweep, NoSweep, ProbeChanged, Drained, env, served
<1>2. CASE NotMoved
  <2>1. call'.pc = "changes"
    BY <1>2, GotoPC DEF NotMoved
  <2>2. ASSUME ~Busy, kg # None
        PROVE  kg = current.graph /\ (overlay # None => overlay.man = current.man)
    <3>1. Persist = None /\ Canon = None
      BY <2>2 DEF Busy, Persist, Canon, Committers
    <3>2. kgDir # None /\ kgDir = current
      BY <1>2, <2>2, <3>1 DEF NotMoved, Truth, ServedTrue
    <3> QED
      BY <2>2, <3>1, <3>2 DEF Truth, PinTrue, RetainedTrue
  <2>3. Grounded'
    BY <1>1, <2>2 DEF Grounded, Busy
  <2> QED
    BY <1>1, <2>1, <2>3, CallTrue DEF ProbeTrue
<1>3. CASE ~NotMoved
  <2>1. call.pc \in Taken \union {"changes"}
    BY <1>3 DEF TakeChanges, Sweep, NoSweep, ProbeChanged, Drained, Taken
  <2>2. Grounded'
    BY <1>1, <2>1 DEF Truth, Grounded, Busy
  <2>3. ProbeTrue'
    <3>1. CASE TakeChanges \/ Sweep
      <4>1. call'.pc \notin {"drain", "serve"}
        BY <3>1, DonePC DEF TakeChanges, Sweep, Types, CommitInv, CallShape
      <4> QED
        BY <4>1 DEF ProbeTrue
    <3>2. CASE NoSweep
      <4>1. call'.probe = None
        BY <3>2, GotoPC DEF NoSweep, Types, CallTypes, Probed
      <4> QED
        BY <4>1 DEF ProbeTrue
    <3>3. CASE Drained
      <4>1. call'.probe = call.probe /\ call'.paths = call.paths /\ call.pc = "drain"
        BY <3>3, GotoPC DEF Drained
      <4> QED
        BY <1>1, <4>1 DEF Truth, ProbeTrue
    <3>4. CASE ProbeChanged
      <4>1. call'.paths = call.paths /\ call'.probe = [g \in call.paths |-> tree[g]]
        BY <3>4 DEF ProbeChanged, Types, CommitInv, CallShape
      <4>2. call.paths \subseteq Files
        BY <3>4 DEF ProbeChanged, Types, CallTypes
      <4>3. \A g \in Files : tree[g] <= tree[g] /\ (overlay # None => overlay.man[g] <= tree[g])
        BY DaemonAssumption DEF Truth, OverlayTrue, Leq, Types, DataTypes, Stamps, Versions
      <4> QED
        BY <1>1, <4>1, <4>2, <4>3 DEF ProbeTrue
    <3> QED
      BY <1>3, <3>1, <3>2, <3>3, <3>4
  <2> QED
    BY <1>1, <2>2, <2>3, CallTrue
<1> QED
  BY <1>2, <1>3

-------------------------------------------------------------------------------
\* A committer at work: nobody else is, and no one else moves.
LEMMA WorkerAlone ==
  ASSUME Types, NEW k \in Committers, job[k] # None
  PROVE  job[k] \in Jobs /\ (\A l \in Committers \ {k} : job[l] = None)
BY DEF Types, JobTypes, CommitInv, OneCommitter

\* What a committer holds when it has read the tree, ...
LEMMA WorkerReads ==
  ASSUME Types, NEW k \in Committers, JobRead(k)
  PROVE  LET man == Scanned(job[k].paths) IN
           /\ job'[k] # None /\ job'[k].gen = Built(man) /\ job'[k].reused = Reusable(man)
           /\ job'[k].pc = IF Built(man) = current THEN "ok" ELSE "commit"
           /\ job'[k].paths = job[k].paths
           /\ \A l \in Committers \ {k} : job'[l] = None
           /\ k # "persisting" /\ job[k].pc = "read" /\ job[k] # None
           /\ Built(man) \in Generations /\ Built(man) # None
<1> DEFINE man == Scanned(job[k].paths)
<1>1. job[k] \in Jobs /\ (\A l \in Committers \ {k} : job[l] = None)
  BY WorkerAlone DEF JobRead
<1>2. job'[k] = [job[k] EXCEPT !.gen = Built(man), !.reused = Reusable(man),
                               !.pc = IF Built(man) = current THEN "ok" ELSE "commit"]
  BY DEF JobRead, Types, JobTypes
<1>3. Built(man) \in Generations /\ Built(man) # None
  BY BuildTyped, NoneApart
<1>4. Reusable(man) \in BOOLEAN
  BY DEF Reusable
<1>5. job'[k] \in Jobs
  BY <1>1, <1>2, <1>3, <1>4 DEF Jobs
<1>6. job'[k].gen = Built(man) /\ job'[k].reused = Reusable(man) /\ job'[k].paths = job[k].paths
      /\ job'[k].pc = IF Built(man) = current THEN "ok" ELSE "commit"
  BY <1>1, <1>2, <1>4 DEF Jobs
<1>7. \A l \in Committers \ {k} : job'[l] = None
  BY <1>1 DEF JobRead, Types, JobTypes
<1>8. k # "persisting" /\ job[k].pc = "read" /\ job[k] # None
  BY DEF JobRead, Types, JobTypes
<1> QED
  BY <1>3, <1>5, <1>6, <1>7, <1>8, NoneApart

\* ... and when it has committed or failed.
LEMMA WorkerEnds ==
  ASSUME Types, NEW k \in Committers, JobCommit(k) \/ JobFail(k)
  PROVE  /\ job[k] # None /\ job'[k] # None
         /\ job'[k].gen = job[k].gen /\ job'[k].reused = job[k].reused /\ job'[k].paths = job[k].paths
         /\ \A l \in Committers \ {k} : job[l] = None /\ job'[l] = None
         /\ JobCommit(k) => job[k].pc = "commit" /\ job'[k].pc = "ok" /\ job[k].gen # None
         /\ JobFail(k) => job[k].pc \in {"read", "commit"} /\ job'[k].pc = "failed"
<1>1. job[k] \in Jobs /\ (\A l \in Committers \ {k} : job[l] = None) /\ job[k] # None
  BY WorkerAlone DEF JobCommit, JobFail
<1>2. PICK pc \in {"ok", "failed"} : /\ job' = [job EXCEPT ![k].pc = pc]
                                     /\ JobCommit(k) => job[k].pc = "commit" /\ pc = "ok"
                                     /\ JobFail(k) => job[k].pc \in {"read", "commit"} /\ pc = "failed"
  <2>1. CASE JobCommit(k)
    <3>1. ~JobFail(k)
      <4>1. JobFail(k) => job'[k] = [job[k] EXCEPT !.pc = "failed"]
        BY DEF JobFail, Types, JobTypes
      <4>2. job'[k] = [job[k] EXCEPT !.pc = "ok"]
        BY <2>1 DEF JobCommit, Types, JobTypes
      <4> QED
        BY <1>1, <4>1, <4>2 DEF Jobs
    <3> QED
      BY <2>1, <3>1 DEF JobCommit
  <2>2. CASE ~JobCommit(k)
    BY <2>2 DEF JobFail
  <2> QED
    BY <2>1, <2>2
<1>3. job'[k] = [job[k] EXCEPT !.pc = pc]
  BY <1>2 DEF Types, JobTypes
<1>4. job'[k] \in Jobs /\ job'[k].pc = pc /\ job'[k].gen = job[k].gen /\ job'[k].reused = job[k].reused
      /\ job'[k].paths = job[k].paths
  BY <1>1, <1>3 DEF Jobs
<1>5. \A l \in Committers \ {k} : job'[l] = None
  BY <1>1, <1>2 DEF Types, JobTypes
<1>6. JobCommit(k) => job[k].gen # None
  BY DEF JobCommit, Types, JobTypes
<1> QED
  BY <1>1, <1>2, <1>4, <1>5, <1>6, NoneApart

\* Sound generations are told apart by their manifests.
LEMMA SoundSame ==
  ASSUME NEW g, NEW h, Sound(g), Sound(h), g.man = h.man
  PROVE  g = h
<1>1. g = Committed(g.man) /\ h = Committed(h.man)
  BY DEF Sound
<1> QED
  BY <1>1

\* A thread that reads the tree.
LEMMA ReadTrue ==
  ASSUME Types, Truth, NEW k \in Committers, JobRead(k)
  PROVE  Truth'
<1> DEFINE man == Scanned(job[k].paths)
           gen == Built(man)
<1>1. UNCHANGED <<tree, current, kg, kgDir, overlay, building, call>>
  BY DEF JobRead, env, served
<1>2. /\ job'[k] # None /\ job'[k].gen = gen /\ job'[k].reused = Reusable(man)
      /\ job'[k].pc = IF gen = current THEN "ok" ELSE "commit"
      /\ \A l \in Committers \ {k} : job'[l] = None
      /\ k # "persisting" /\ job[k].pc = "read" /\ job[k] # None
  BY WorkerReads
<1>3. /\ gen = Committed(man) /\ Sound(gen) /\ gen.man = man
      /\ Leq(man, tree) /\ (current # None => Leq(current.man, man))
  BY BuiltSound, ScannedBetween, CommittedParts DEF Truth
<1>4. CurrentTrue' /\ PinTrue' /\ OverlayTrue' /\ BuildingTrue'
  BY <1>1 DEF Truth, CurrentTrue, PinTrue, OverlayTrue, BuildingTrue
<1>5. CommitsTrue'
  <2> SUFFICES ASSUME NEW l \in Committers, job'[l] # None
               PROVE  /\ Sound(job'[l].gen) /\ Leq(job'[l].gen.man, tree')
                      /\ current' # None => Leq(current'.man, job'[l].gen.man)
                      /\ job'[l].pc = "commit" /\ l # "persisting" => job'[l].gen # current'
    BY DEF CommitsTrue
  <2>1. l = k
    BY <1>2
  <2> QED
    BY <1>1, <1>2, <1>3, <2>1
<1>6. \A l \in Committers : job'[l] = None <=> job[l] = None
  BY <1>2, WorkerAlone
<1>7. ServedTrue'
  <2>1. Persist = None /\ Persist' = None
    BY <1>2, <1>6, WorkerAlone DEF Persist, Committers
  <2>2. kg # None => kgDir # None
    BY <2>1 DEF Truth, ServedTrue
  <2>3. CASE k = "canonicalizing"
    <3>1. Canon # None /\ Canon.pc = "read"
      BY <1>2, <2>3 DEF Canon
    <3>2. current.graph = kg
      BY <3>1 DEF Truth, ServedTrue
    <3>3. Reusable(man) => gen.graph = kg
      BY <3>2, ReusedGraph
    <3>4. gen = current => Reusable(man)
      <4>1. gen = current => man = current.man /\ current # None
        BY <1>3, WorkerReads
      <4> QED
        BY <4>1 DEF Reusable
    <3>5. Canon' = job'[k]
      BY <2>3 DEF Canon
    <3> QED
      BY <1>1, <1>2, <2>1, <2>2, <3>2, <3>3, <3>4, <3>5 DEF ServedTrue
  <2>4. CASE k # "canonicalizing"
    <3>1. Canon' = None
      BY <1>2, <2>4 DEF Canon, Committers
    <3> QED
      BY <1>1, <2>1, <2>2, <3>1 DEF ServedTrue
  <2> QED
    BY <2>3, <2>4
<1>8. RetainedTrue'
  <2>1. Persist' = None /\ (Canon' = None <=> Canon = None) /\ Persist = None
    BY <1>2, <1>6, WorkerAlone DEF Persist, Canon, Committers
  <2> QED
    BY <1>1, <2>1 DEF Truth, RetainedTrue
<1>9. Grounded' /\ ProbeTrue'
  BY <1>1, <1>2 DEF Truth, Grounded, ProbeTrue, Busy
<1> QED
  BY <1>4, <1>5, <1>7, <1>8, <1>9 DEF Truth

\* A thread that swaps CURRENT.
LEMMA CommitTrue ==
  ASSUME Types, Truth, NEW k \in Committers, JobCommit(k)
  PROVE  Truth'
<1> DEFINE gen == job[k].gen
<1>1. UNCHANGED <<tree, kg, kgDir, overlay, building, call>> /\ current' = gen
  BY DEF JobCommit, env, served
<1>2. /\ job[k] # None /\ job'[k] # None /\ job[k].pc = "commit" /\ job'[k].pc = "ok" /\ gen # None
      /\ job'[k].gen = gen /\ job'[k].reused = job[k].reused
      /\ \A l \in Committers \ {k} : job[l] = None /\ job'[l] = None
  BY WorkerEnds
<1>3. /\ Sound(gen) /\ Leq(gen.man, tree) /\ (current # None => Leq(current.man, gen.man))
      /\ (k # "persisting" => gen # current)
  BY <1>2 DEF Truth, CommitsTrue
<1>4. CurrentTrue' /\ OverlayTrue' /\ BuildingTrue'
  BY <1>1, <1>3 DEF Truth, CurrentTrue, OverlayTrue, BuildingTrue
<1>5. PinTrue'
  <2>1. kgDir # None => Leq(kgDir.man, gen.man)
    BY <1>2, <1>3, LeqOrder, ManTypes DEF Truth, PinTrue
  <2> QED
    BY <1>1, <1>2, <2>1 DEF Truth, PinTrue
<1>6. CommitsTrue'
  <2> SUFFICES ASSUME NEW l \in Committers, job'[l] # None
               PROVE  /\ Sound(job'[l].gen) /\ Leq(job'[l].gen.man, tree') /\ job'[l].pc # "commit"
                      /\ Leq(current'.man, job'[l].gen.man)
    BY DEF CommitsTrue
  <2>1. l = k
    BY <1>2
  <2>2. Leq(gen.man, gen.man)
    BY <1>2, LeqOrder, ManTypes
  <2> QED
    BY <1>1, <1>2, <1>3, <2>1, <2>2
\* CURRENT has moved past the pin.
<1>7. k # "persisting" => kgDir # gen
  <2> SUFFICES ASSUME k # "persisting", kgDir = gen
               PROVE  FALSE
    OBVIOUS
  <2>1. current # None /\ Leq(gen.man, current.man) /\ Leq(current.man, gen.man) /\ Sound(current)
    BY <1>2, <1>3 DEF Truth, PinTrue, CurrentTrue
  <2>2. gen.man = current.man
    BY <1>2, <2>1, LeqOrder, ManTypes
  <2> QED
    BY <1>3, <2>1, <2>2, SoundSame
<1>8. ServedTrue'
  <2>1. CASE k = "persisting"
    <3>1. Persist # None /\ Persist' # None /\ Persist'.gen = Persist.gen /\ Canon' = None
      BY <1>2, <2>1 DEF Persist, Canon, Committers
    <3> QED
      BY <1>1, <3>1 DEF Truth, ServedTrue
  <2>2. CASE k = "canonicalizing"
    <3>1. Canon # None /\ Canon.pc = "commit" /\ Canon' # None /\ Canon'.pc = "ok" /\ Canon'.reused = Canon.reused
          /\ Canon.gen = gen /\ Persist = None /\ Persist' = None
      BY <1>2, <2>2 DEF Persist, Canon, Committers
    <3> QED
      BY <1>1, <1>7, <2>2, <3>1 DEF Truth, ServedTrue
  <2>3. CASE k = "rebuilding"
    <3>1. Persist = None /\ Persist' = None /\ Canon' = None
      BY <1>2, <2>3 DEF Persist, Canon, Committers
    <3> QED
      BY <1>1, <3>1 DEF Truth, ServedTrue
  <2> QED
    BY <2>1, <2>2, <2>3 DEF Committers
<1>9. RetainedTrue'
  <2>1. (Persist' # None <=> Persist # None) /\ (Persist # None => Persist'.gen = Persist.gen)
    BY <1>2 DEF Persist, Committers
  <2>2. Persist' = None => kgDir' # current'
    BY <1>1, <1>2, <1>7 DEF Persist
  <2> QED
    BY <1>1, <2>1, <2>2 DEF Truth, RetainedTrue
<1>10. Grounded' /\ ProbeTrue'
  BY <1>1, <1>2 DEF Truth, Grounded, ProbeTrue, Busy
<1> QED
  BY <1>4, <1>5, <1>6, <1>8, <1>9, <1>10 DEF Truth

\* A thread that fails.
LEMMA FailTrue ==
  ASSUME Types, Truth, NEW k \in Committers, JobFail(k)
  PROVE  Truth'
<1>1. UNCHANGED <<tree, current, kg, kgDir, overlay, building, call>>
  BY DEF JobFail, env, served
<1>2. /\ job[k] # None /\ job'[k] # None /\ job[k].pc \in {"read", "commit"} /\ job'[k].pc = "failed"
      /\ job'[k].gen = job[k].gen
      /\ \A l \in Committers \ {k} : job[l] = None /\ job'[l] = None
  BY WorkerEnds
<1>3. CurrentTrue' /\ PinTrue' /\ OverlayTrue' /\ BuildingTrue'
  BY <1>1 DEF Truth, CurrentTrue, PinTrue, OverlayTrue, BuildingTrue
<1>4. CommitsTrue'
  <2> SUFFICES ASSUME NEW l \in Committers, job'[l] # None, job'[l].gen # None
               PROVE  /\ Sound(job'[l].gen) /\ Leq(job'[l].gen.man, tree') /\ job'[l].pc # "commit"
                      /\ current' # None => Leq(current'.man, job'[l].gen.man)
    BY DEF CommitsTrue
  <2>1. l = k
    BY <1>2
  <2> QED
    BY <1>1, <1>2, <2>1 DEF Truth, CommitsTrue
<1>5. \A l \in Committers : job'[l] = None <=> job[l] = None
  BY <1>2
<1>6. ServedTrue' /\ RetainedTrue'
  <2>1. /\ Persist' = None <=> Persist = None
        /\ Persist' # None => Persist'.gen = Persist.gen
        /\ Canon' = None <=> Canon = None
        /\ Canon' # None => Canon'.pc = "failed" /\ Canon.pc \in {"read", "commit"}
    BY <1>2 DEF Persist, Canon, Committers
  <2> QED
    BY <1>1, <2>1 DEF Truth, ServedTrue, RetainedTrue
<1>7. Grounded' /\ ProbeTrue'
  BY <1>1, <1>2 DEF Truth, Grounded, ProbeTrue, Busy
<1> QED
  BY <1>3, <1>4, <1>6, <1>7 DEF Truth

\* The overlay's builder.
LEMMA BuilderTrue ==
  ASSUME Types, Truth, Builder
  PROVE  Truth'
<1>1. UNCHANGED <<tree, current, kg, kgDir, overlay, job, call>>
  BY DEF Builder, BuilderResolve, BuilderFinish, env, served
<1>2. BuildingTrue'
  <2>1. CASE BuilderResolve /\ current # None
    <3>1. building'.got.man = current.man /\ building'.got.body = current.body
      BY <2>1 DEF BuilderResolve
    <3> QED
      BY <1>1, <2>1, <3>1, SoundParts DEF Truth, CurrentTrue, BuildingTrue
  <2>2. CASE BuilderResolve /\ current = None
    BY <2>2 DEF BuilderResolve, BuildingTrue
  <2>3. CASE BuilderFinish
    BY <1>1, <2>3 DEF BuilderFinish, Types, DataTypes, Truth, BuildingTrue
  <2> QED
    BY <2>1, <2>2, <2>3 DEF Builder
<1>3. CurrentTrue' /\ PinTrue' /\ OverlayTrue' /\ CommitsTrue'
  BY <1>1 DEF Truth, CurrentTrue, PinTrue, OverlayTrue, CommitsTrue
<1>4. ServedTrue' /\ RetainedTrue' /\ Grounded' /\ ProbeTrue'
  BY <1>1 DEF Truth, ServedTrue, RetainedTrue, Grounded, ProbeTrue, Canon, Persist, Busy
<1> QED
  BY <1>2, <1>3, <1>4 DEF Truth

-------------------------------------------------------------------------------
\* A finished committer that is reaped leaves none.
LEMMA ReapedAlone ==
  ASSUME Types, NEW k \in Committers, Finished(k), job' = [job EXCEPT ![k] = None]
  PROVE  /\ job[k] # None /\ job[k].pc \in {"ok", "failed"} /\ (job[k].pc = "ok" => current = job[k].gen)
         /\ \A l \in Committers : job'[l] = None
         /\ \A l \in Committers \ {k} : job[l] = None
<1>1. job[k] # None /\ job[k].pc \in {"ok", "failed"}
  BY DEF Finished
<1> QED
  BY <1>1, WorkerAlone DEF Types, JobTypes

\* Where no committer is left, the truth of what they hold is empty.
LEMMA NoneLeftTrue ==
  ASSUME Types, \A l \in Committers : job'[l] = None,
         CurrentTrue', PinTrue', OverlayTrue', BuildingTrue', Grounded', ProbeTrue',
         kg' # None => kgDir' # None,
         kg' # None /\ overlay' # None => overlay'.body = kg' /\ (kgDir' = current' => overlay'.man = current'.man)
  PROVE  Truth'
<1>1. CommitsTrue'
  BY DEF CommitsTrue
<1>2. Persist' = None /\ Canon' = None
  BY DEF Persist, Canon, Committers
<1>3. ServedTrue' /\ RetainedTrue'
  BY <1>2 DEF ServedTrue, RetainedTrue
<1> QED
  BY <1>1, <1>3 DEF Truth

\* The overlay's builder starts with nothing in hand.
LEMMA SpawnTrue ==
  ASSUME Types, Truth, NEW ov, NEW js, SpawnOverlay(ov, js), tree' = tree
  PROVE  BuildingTrue'
BY DEF SpawnOverlay, Truth, BuildingTrue

\* What CURRENT names is adopted, or the load fails.
LEMMA AdoptTrue ==
  ASSUME Types, Truth, NEW js, Adopt(js), UNCHANGED <<tree, current>>,
         \A l \in Committers : job'[l] = None,
         Persist = None, Canon = None \/ kgDir # current,
         failures' # failures => call'.pc \notin Taken \union {"changes"},
         call'.pc \notin Taken
  PROVE  Truth'
<1>1. ProbeTrue' /\ CurrentTrue'
  BY DEF ProbeTrue, Taken, Truth, CurrentTrue
<1>2. CASE current # None /\ kg' = current.graph /\ kgDir' = current /\ overlay' = None /\ SpawnOverlay(None, js)
  <2>1. BuildingTrue' /\ OverlayTrue'
    BY <1>2, SpawnTrue DEF OverlayTrue
  <2>2. PinTrue'
    BY <1>2, ManTypes, LeqOrder DEF Truth, CurrentTrue, PinTrue
  <2>3. Grounded'
    BY <1>2 DEF Grounded
  <2> QED
    BY <1>1, <1>2, <2>1, <2>2, <2>3, NoneLeftTrue
<1>3. CASE Fail /\ UNCHANGED <<kg, kgDir, overlay, building>>
  <2>1. failures' # failures
    BY <1>3 DEF Fail, Types
  <2>2. Grounded'
    BY <2>1 DEF Grounded
  <2>3. BuildingTrue' /\ OverlayTrue' /\ PinTrue'
    BY <1>3 DEF Truth, BuildingTrue, OverlayTrue, PinTrue
  <2>4. kg # None => kgDir # None
    BY DEF Truth, ServedTrue
  <2>5. kg # None /\ overlay # None => overlay.body = kg /\ (kgDir = current => overlay.man = current.man)
    BY DEF Truth, RetainedTrue
  <2> QED
    BY <1>1, <1>3, <2>2, <2>3, <2>4, <2>5, NoneLeftTrue
<1> QED
  BY <1>2, <1>3 DEF Adopt, served

\* A persisted graph is pinned to its generation.
LEMMA PersistTrue ==
  ASSUME Types, Truth, ReapPersist, lapses' = {}, UNCHANGED <<tree, current>>,
         UNCHANGED call \/ call'.pc \notin Taken \union {"changes"}
  PROVE  Truth'
<1>1. /\ job["persisting"] # None /\ job["persisting"].pc \in {"ok", "failed"}
      /\ job["persisting"].pc = "ok" => current = job["persisting"].gen
      /\ \A l \in Committers : job'[l] = None
  BY ReapedAlone DEF ReapPersist, Committers
<1>2. job["persisting"].pc = "ok"
  BY <1>1 DEF ReapPersist
<1>3. /\ kgDir' = current /\ UNCHANGED <<kg, overlay>> /\ SpawnOverlay(overlay, job') /\ current # None
      /\ current.graph = kg /\ (kg # None /\ overlay # None => overlay.body = kg /\ overlay.man = current.man)
  <2>1. job["persisting"].gen # None
    BY <1>1 DEF Types, JobTypes
  <2> QED
    BY <1>1, <1>2, <2>1 DEF ReapPersist, Truth, ServedTrue, RetainedTrue, Persist
<1>4. CurrentTrue' /\ OverlayTrue' /\ BuildingTrue'
  BY <1>3, SpawnTrue DEF Truth, CurrentTrue, OverlayTrue
<1>5. PinTrue'
  BY <1>3, ManTypes, LeqOrder DEF Truth, CurrentTrue, PinTrue
<1>6. Grounded'
  BY <1>3 DEF Grounded
<1>7. ProbeTrue'
  BY <1>3 DEF Truth, ProbeTrue, Taken
<1> QED
  BY <1>1, <1>3, <1>4, <1>5, <1>6, <1>7, NoneLeftTrue

\* The outcome of a canonicalization is absorbed.
LEMMA AbsorbTrue ==
  ASSUME Types, Truth, AbsorbCanonicalized, lapses' = {}, UNCHANGED <<tree, current>>,
         call'.pc \notin Taken \union {"changes"}
  PROVE  Truth'
<1>1. /\ Canon # None /\ Canon.pc \in {"ok", "failed"}
      /\ \A l \in Committers : job'[l] = None
      /\ job["persisting"] = None /\ Persist = None
  BY ReapedAlone DEF AbsorbCanonicalized, Committers, Canon, Persist
<1>2. CASE Canon.pc = "ok" /\ ~Canon.reused
  <2>1. kgDir # current
    BY <1>1, <1>2 DEF Truth, ServedTrue
  <2>2. Adopt(job')
    BY <1>2 DEF AbsorbCanonicalized, Canon
  <2> QED
    BY <1>1, <2>1, <2>2, AdoptTrue
<1>3. CASE ~(Canon.pc = "ok" /\ ~Canon.reused)
  <2>1. /\ current.graph = kg
        /\ Restamped /\ UNCHANGED <<kg, overlay>>
        /\ \/ Canon.pc = "ok" /\ kgDir' = current /\ SpawnOverlay(overlay, job')
           \/ UNCHANGED <<kgDir, building>>
    BY <1>1, <1>3 DEF AbsorbCanonicalized, Canon, Truth, ServedTrue, served
  <2>2. overlay # None => overlay.man = current.man
    BY <2>1 DEF Restamped
  <2>3. kg # None /\ current # None
    BY <1>1 DEF Types, JobTypes, DataTypes, Canon
  <2>4. CurrentTrue' /\ OverlayTrue' /\ BuildingTrue'
    <3>1. BuildingTrue'
      BY <2>1, SpawnTrue DEF Truth, BuildingTrue
    <3> QED
      BY <2>1, <3>1 DEF Truth, CurrentTrue, OverlayTrue
  <2>5. PinTrue'
    BY <2>1, <2>3, ManTypes, LeqOrder DEF Truth, CurrentTrue, PinTrue
  <2>6. Grounded' /\ ProbeTrue'
    BY DEF Grounded, ProbeTrue, Taken
  <2>7. kgDir' # None
    BY <1>1, <2>1, <2>3 DEF Truth, ServedTrue
  <2>8. kg # None /\ overlay # None => overlay.body = kg
    BY DEF Truth, RetainedTrue
  <2> QED
    BY <1>1, <2>1, <2>2, <2>4, <2>5, <2>6, <2>7, <2>8, NoneLeftTrue
<1> QED
  BY <1>2, <1>3

\* The reaps at the start of a call and in settling.
LEMMA ReapsTrue ==
  ASSUME Types, Truth, lapses' = {}, Advance \/ SettlePersist \/ SettleCanonicalize \/ DrainPersist
  PROVE  Truth'
<1>1. CASE AdvancePersist \/ SettlePersist \/ DrainPersist
  <2>1. UNCHANGED call \/ call'.pc \notin Taken \union {"changes"}
    BY <1>1, GotoPC DEF AdvancePersist, SettlePersist, DrainPersist, Taken
  <2>2. UNCHANGED <<tree, current>>
    BY <1>1 DEF AdvancePersist, SettlePersist, DrainPersist, env
  <2>3. CASE ReapPersist
    BY <2>1, <2>2, <2>3, PersistTrue
  <2>4. CASE ~ReapPersist
    <3>1. UNCHANGED <<tree, current, kg, kgDir, overlay, building, job>>
      BY <1>1, <2>2, <2>4 DEF AdvancePersist, SettlePersist, DrainPersist, served
    <3> QED
      BY <2>1, <3>1, WatchTrue
  <2> QED
    BY <2>3, <2>4
<1>2. CASE AdvanceCanonicalize \/ SettleCanonicalize
  <2>1. UNCHANGED <<tree, current>>
    BY <1>2 DEF AdvanceCanonicalize, SettleCanonicalize, env
  <2>2. call'.pc \notin Taken \union {"changes"}
    BY <1>2, GotoPC DEF AdvanceCanonicalize, SettleCanonicalize, Taken
  <2>3. CASE AbsorbCanonicalized
    BY <2>1, <2>2, <2>3, AbsorbTrue
  <2>4. CASE ~AbsorbCanonicalized
    <3>1. UNCHANGED <<kg, kgDir, overlay, building, job>>
      BY <1>2, <2>4 DEF AdvanceCanonicalize, SettleCanonicalize, served
    <3> QED
      BY <2>1, <2>2, <3>1, WatchTrue
  <2> QED
    BY <2>3, <2>4
<1>3. CASE AdvanceRebuild
  <2>1. UNCHANGED <<tree, current>>
    BY <1>3 DEF AdvanceRebuild, env
  <2>2. call'.pc \notin Taken \union {"changes"}
    BY <1>3, GotoPC DEF AdvanceRebuild, Taken
  <2>3. CASE ReapRebuilding
    <3>1. /\ job["rebuilding"] # None /\ (\A l \in Committers : job'[l] = None)
          /\ Persist = None /\ Canon = None
      BY <2>3, ReapedAlone DEF ReapRebuilding, Committers, Persist, Canon
    <3>2. CASE Adopt(job')
      BY <2>1, <2>2, <3>1, <3>2, AdoptTrue
    <3>3. CASE UNCHANGED <<kg, kgDir, overlay, building>>
      <4>1. CurrentTrue' /\ PinTrue' /\ OverlayTrue' /\ BuildingTrue'
        BY <2>1, <3>3 DEF Truth, CurrentTrue, PinTrue, OverlayTrue, BuildingTrue
      <4>2. Grounded' /\ ProbeTrue'
        BY <2>2 DEF Grounded, ProbeTrue, Taken
      <4>3. kg # None => kgDir # None
        BY <3>1 DEF Truth, ServedTrue
      <4>4. kg # None /\ overlay # None => overlay.body = kg /\ (kgDir = current => overlay.man = current.man)
        BY <3>1 DEF Truth, RetainedTrue
      <4> QED
        BY <2>1, <3>1, <3>3, <4>1, <4>2, <4>3, <4>4, NoneLeftTrue
    <3> QED
      BY <2>3, <3>2, <3>3 DEF ReapRebuilding, served
  <2>4. CASE ~ReapRebuilding
    <3>1. UNCHANGED <<kg, kgDir, overlay, building, job>>
      BY <1>3, <2>4 DEF AdvanceRebuild, served
    <3> QED
      BY <2>1, <2>2, <3>1, WatchTrue
  <2> QED
    BY <2>3, <2>4
<1>4. CASE AdvanceOverlay
  <2>1. /\ UNCHANGED <<tree, current, kg, kgDir, job>>
        /\ overlay' = overlay \/ (overlay' = building.got /\ building.got # None)
        /\ building' = building \/ building'.got = None
    <3>1. /\ UNCHANGED <<tree, current, kg, kgDir, job>>
          /\ ReapOverlay \/ UNCHANGED <<overlay, building>>
      BY <1>4 DEF AdvanceOverlay, env, served
    <3>2. NoBuilder.got = None
      BY DEF NoBuilder
    <3> QED
      BY <3>1, <3>2 DEF ReapOverlay
  <2>2. call'.pc \notin Taken \union {"changes"}
    <3>1. Goto("canonicalize")
      BY <1>4 DEF AdvanceOverlay
    <3> QED
      BY <3>1, GotoPC DEF Taken
  <2>3. overlay' # overlay /\ kg # None => ~Busy /\ overlay' = [man |-> current.man, body |-> kg]
    BY <1>4 DEF AdvanceOverlay
  <2>4. OverlayTrue' /\ BuildingTrue'
    BY <2>1 DEF Truth, OverlayTrue, BuildingTrue
  <2>5. CurrentTrue' /\ PinTrue' /\ CommitsTrue'
    BY <2>1 DEF Truth, CurrentTrue, PinTrue, CommitsTrue
  <2>6. ServedTrue'
    BY <2>1 DEF Truth, ServedTrue, Persist, Canon
  <2>7. RetainedTrue'
    <3>1. CASE overlay' = overlay
      BY <2>1, <3>1 DEF Truth, RetainedTrue, Persist, Canon
    <3>2. CASE overlay' # overlay /\ kg # None
      <4>1. job["persisting"] = None /\ overlay'.body = kg /\ overlay'.man = current.man
        BY <2>3, <3>2 DEF Busy, Committers
      <4> QED
        BY <2>1, <4>1 DEF RetainedTrue, Persist
    <3>3. CASE kg = None
      BY <2>1, <3>3 DEF RetainedTrue
    <3> QED
      BY <3>1, <3>2, <3>3
  <2>8. Grounded' /\ ProbeTrue'
    BY <2>2 DEF Grounded, ProbeTrue, Taken
  <2> QED
    BY <2>4, <2>5, <2>6, <2>7, <2>8 DEF Truth
<1> QED
  BY <1>1, <1>2, <1>3, <1>4 DEF Advance

\* CURRENT moved: it is adopted before anything else.
LEMMA MovedTrue ==
  ASSUME Types, Truth, AdoptMoved
  PROVE  Truth'
<1>1. /\ UNCHANGED <<tree, current, job>> /\ Adopt(job) /\ kgDir # current
      /\ \A l \in Committers : job'[l] = None
      /\ Persist = None
  BY DEF AdoptMoved, env, Busy, Persist, Committers
<1>2. CASE failures' = failures
  <2>1. call'.pc = "changes"
    BY <1>2, GotoPC DEF AdoptMoved
  <2> QED
    BY <1>1, <1>2, <2>1, AdoptTrue DEF Taken
<1>3. CASE failures' # failures
  <2>1. call'.pc = "idle"
    BY <1>3 DEF AdoptMoved, Error, Idle
  <2> QED
    BY <1>1, <2>1, AdoptTrue DEF Taken
<1> QED
  BY <1>2, <1>3

\* A canonicalization is joined, its outcome dropped.
LEMMA DropTrue ==
  ASSUME Types, Truth, lapses' = {}, DrainCanonicalize
  PROVE  Truth'
<1>1. /\ Canon # None /\ Canon.pc \in {"ok", "failed"}
      /\ \A l \in Committers : job'[l] = None
      /\ Persist = None
  BY ReapedAlone DEF DrainCanonicalize, Committers, Canon, Persist
<1>2. UNCHANGED <<tree, current, kg, kgDir, overlay, building, call>>
  BY DEF DrainCanonicalize, env, served
<1>3. (Canon.pc = "failed" \/ Canon.reused) /\ Restamped
  BY <1>1 DEF DrainCanonicalize, Canon
<1>4. current.graph = kg /\ (overlay # None => overlay.man = current.man)
  BY <1>1, <1>2, <1>3 DEF Truth, ServedTrue, Restamped
<1>5. CurrentTrue' /\ PinTrue' /\ OverlayTrue' /\ BuildingTrue' /\ ProbeTrue'
  BY <1>2 DEF Truth, CurrentTrue, PinTrue, OverlayTrue, BuildingTrue, ProbeTrue
<1>6. Grounded'
  BY <1>2, <1>4 DEF Grounded
<1>7. kg # None => kgDir # None
  BY <1>1 DEF Truth, ServedTrue
<1>8. kg # None /\ overlay # None => overlay.body = kg
  BY DEF Truth, RetainedTrue
<1> QED
  BY <1>1, <1>2, <1>4, <1>5, <1>6, <1>7, <1>8, NoneLeftTrue

\* The stamps of an unchanged tree are noted and committed behind.
LEMMA UnchangedTrue ==
  ASSUME Types, Truth, ProbeUnchanged
  PROVE  Truth'
<1>1. /\ UNCHANGED <<tree, current, kg, kgDir, building>> /\ ~Busy /\ Unchanged /\ call.pc = "probe"
      /\ call.paths \subseteq Files /\ kg # None /\ call.paths # None
      /\ \A l \in Committers : job[l] = None
  BY DEF ProbeUnchanged, env, served, Types, CallTypes, Busy
<1>2. /\ job'["canonicalizing"] # None /\ job'["canonicalizing"].pc = "read" /\ job'["canonicalizing"].gen = None
      /\ \A l \in Committers \ {"canonicalizing"} : job'[l] = None
  BY <1>1, SpawnJob DEF ProbeUnchanged, Committers, Types, JobTypes
<1>3. call'.pc \notin Taken \union {"changes"}
  BY DonePC DEF ProbeUnchanged, Taken
<1>4. kg = current.graph
  BY <1>1 DEF Truth, Grounded, Taken
<1>5. overlay # None => /\ overlay' # None /\ overlay'.body = overlay.body
                        /\ \A f \in Files : overlay'.man[f] = IF f \in call.paths THEN tree[f] ELSE overlay.man[f]
  BY NotedType, NoneApart DEF ProbeUnchanged, Types
<1>6. OverlayTrue'
  <2> SUFFICES ASSUME overlay # None
               PROVE  overlay'.body = Show(overlay'.man) /\ Leq(overlay'.man, tree)
    BY <1>1 DEF OverlayTrue, ProbeUnchanged
  <2>1. overlay.body = Show(overlay.man) /\ Leq(overlay.man, tree)
    BY DEF Truth, OverlayTrue
  <2>2. \A f \in call.paths : Text(tree[f]) = overlay.body[f]
    BY <1>1 DEF Unchanged, Reference
  <2>3. Show(overlay'.man) = Show(overlay.man)
    BY <1>1, <1>5, <2>1, <2>2 DEF Show
  <2>4. Leq(overlay'.man, tree)
    BY <1>5, <2>1, DaemonAssumption DEF Leq, Types, DataTypes, Stamps, Versions
  <2> QED
    BY <1>5, <2>1, <2>3, <2>4
<1>7. CurrentTrue' /\ PinTrue' /\ BuildingTrue'
  BY <1>1 DEF Truth, CurrentTrue, PinTrue, BuildingTrue
<1>8. CommitsTrue'
  BY <1>2 DEF CommitsTrue
<1>9. Canon' = job'["canonicalizing"] /\ Persist' = None /\ Persist = None
  BY <1>1, <1>2 DEF Canon, Persist, Committers
<1>10. ServedTrue'
  BY <1>1, <1>2, <1>4, <1>9 DEF Truth, ServedTrue
<1>11. RetainedTrue'
  <2>1. overlay = None => overlay' = None
    BY DEF ProbeUnchanged
  <2> QED
    BY <1>1, <1>2, <1>5, <1>9, <2>1 DEF Truth, RetainedTrue
<1>12. Grounded' /\ ProbeTrue'
  BY <1>3 DEF Grounded, ProbeTrue, Taken
<1> QED
  BY <1>6, <1>7, <1>8, <1>10, <1>11, <1>12 DEF Truth

-------------------------------------------------------------------------------
\* A commit is put in flight for the graph that is served from now on.
LEMMA PersistingTrue ==
  ASSUME Types, Truth, NEW gen \in Generations, Spawn("persisting", "commit", gen, None),
         \A l \in Committers : job[l] = None, UNCHANGED <<tree, current, building>>,
         Sound(gen), Leq(gen.man, tree), current # None => Leq(current.man, gen.man),
         kg' = gen.graph, kgDir' = None,
         overlay' # None => overlay'.man = gen.man /\ overlay'.body = kg',
         call'.pc \notin Taken \union {"changes"}
  PROVE  Truth'
<1>1. /\ job'["persisting"] # None /\ job'["persisting"].gen = gen
      /\ \A l \in Committers \ {"persisting"} : job'[l] = None
  BY SpawnJob DEF Types, JobTypes, Committers
<1>2. Persist' = job'["persisting"] /\ Canon' = None /\ gen.graph = Show(gen.man)
  BY <1>1, SoundParts DEF Persist, Canon, Committers
<1>3. CurrentTrue' /\ PinTrue' /\ BuildingTrue'
  BY DEF Truth, CurrentTrue, PinTrue, BuildingTrue
<1>4. OverlayTrue'
  BY <1>2 DEF OverlayTrue
<1>5. CommitsTrue'
  BY <1>1 DEF CommitsTrue
<1>6. ServedTrue' /\ RetainedTrue'
  BY <1>1, <1>2 DEF ServedTrue, RetainedTrue
<1>7. Grounded' /\ ProbeTrue'
  BY DEF Grounded, ProbeTrue, Taken
<1> QED
  BY <1>3, <1>4, <1>5, <1>6, <1>7 DEF Truth

\* What the overlay serves is the generation it commits.
LEMMA ServedSound ==
  ASSUME Types, Truth, Serve
  PROVE  LET ov == Absorbed(call.probe)
             gen == ServedGeneration(ov, call.probe)
         IN /\ ov \in Overlays /\ gen \in Generations
            /\ gen.man = ov.man /\ gen.graph = ov.body
            /\ Sound(gen) /\ Leq(gen.man, tree) /\ Leq(current.man, gen.man)
<1> DEFINE probe == call.probe
           ov == Absorbed(probe)
           gen == ServedGeneration(ov, probe)
<1>1. /\ call.pc = "serve" /\ overlay # None /\ probe # None /\ kg # None /\ current # None
      /\ probe \in [call.paths -> Versions] /\ call.paths \subseteq Files
      /\ \A l \in Committers : job[l] = None
  BY NoneLeft DEF Serve, Types, CallTypes, DataTypes, Clear
<1>2. ov \in Overlays /\ gen \in Generations
  BY ServeTyped
<1>3. ~Busy
  BY <1>1 DEF Busy
<1>4. overlay.man = current.man /\ overlay.body = Show(current.man)
  BY <1>1, <1>3 DEF Truth, Grounded, Taken, OverlayTrue
<1>5. current.pack = current.man /\ current.body = Show(current.man)
  BY <1>1, SoundParts DEF Truth, CurrentTrue
<1>6. /\ ov.man = [f \in Files |-> IF f \in call.paths THEN probe[f] ELSE current.man[f]]
      /\ ov.body = [f \in Files |-> IF f \in call.paths THEN Text(probe[f]) ELSE Text(current.man[f])]
  BY <1>1, <1>4 DEF Absorbed, Show
<1>7. /\ gen.man = ov.man /\ gen.graph = ov.body
      /\ gen.pack = [f \in Files |-> IF f \in call.paths THEN probe[f] ELSE current.man[f]]
      /\ gen.body = [f \in Files |-> IF f \in call.paths THEN Text(probe[f]) ELSE Text(current.man[f])]
      /\ gen = [man |-> gen.man, pack |-> gen.pack, body |-> gen.body, graph |-> gen.graph]
  BY <1>1, <1>5 DEF ServedGeneration, Show
<1>8. ov.body = Show(ov.man)
  BY <1>6 DEF Show
<1>9. gen = Committed(gen.man)
  BY <1>6, <1>7, <1>8 DEF Committed, Show
<1>10. \A f \in call.paths : current.man[f] <= probe[f] /\ probe[f] <= tree[f]
  BY <1>1, <1>4 DEF Truth, ProbeTrue
<1>11. \A f \in Files : current.man[f] <= current.man[f] /\ current.man[f] <= tree[f]
  BY <1>1, ManTypes, LeqOrder DEF Truth, CurrentTrue, Leq
<1>12. Leq(gen.man, tree) /\ Leq(current.man, gen.man)
  BY <1>6, <1>7, <1>10, <1>11 DEF Leq
<1> QED
  BY <1>2, <1>7, <1>9, <1>12 DEF Sound

\* A served overlay agrees with the generation that is committed behind it.
LEMMA ServeTrue ==
  ASSUME Types, Truth, Serve
  PROVE  Truth'
<1> DEFINE ov == Absorbed(call.probe)
           gen == ServedGeneration(ov, call.probe)
<1>1. /\ gen \in Generations /\ Sound(gen) /\ Leq(gen.man, tree) /\ Leq(current.man, gen.man)
      /\ gen.man = ov.man /\ gen.graph = ov.body
  BY ServedSound
<1>2. \A l \in Committers : job[l] = None
  BY NoneLeft DEF Serve, Clear
<1>3. /\ Spawn("persisting", "commit", gen, None) /\ kg' = ov.body /\ kgDir' = None /\ overlay' \in {ov, None}
      /\ UNCHANGED <<tree, current, building>>
  BY DEF Serve, env
<1>4. call'.pc \notin Taken \union {"changes"}
  BY DonePC DEF Serve, Taken
<1> QED
  BY <1>1, <1>2, <1>3, <1>4, PersistingTrue

\* The overlay is dropped, and the call goes on to build.
LEMMA ServeFailsTrue ==
  ASSUME Types, Truth, ServeFails
  PROVE  Truth'
<1>1. UNCHANGED <<tree, current, kg, kgDir, building, job>> /\ overlay' = None
      /\ call'.pc = "build" /\ call.pc = "serve"
  BY GotoPC DEF ServeFails, env, served
<1>2. CurrentTrue' /\ PinTrue' /\ OverlayTrue' /\ BuildingTrue' /\ CommitsTrue'
  BY <1>1 DEF Truth, CurrentTrue, PinTrue, OverlayTrue, BuildingTrue, CommitsTrue
<1>3. ServedTrue' /\ RetainedTrue'
  BY <1>1 DEF Truth, ServedTrue, RetainedTrue, Persist, Canon
<1>4. Grounded' /\ ProbeTrue'
  BY <1>1 DEF Truth, Grounded, ProbeTrue, Taken, Busy
<1> QED
  BY <1>2, <1>3, <1>4 DEF Truth

\* A build behind the call starts with nothing in hand.
LEMMA BuildBehindTrue ==
  ASSUME Types, Truth, BuildBehind
  PROVE  Truth'
<1>1. UNCHANGED <<tree, current, kg, kgDir, overlay, building>>
  BY DEF BuildBehind, env, served
<1>2. call'.pc \notin Taken \union {"changes"}
  BY DonePC DEF BuildBehind, Taken
<1>3. \A l \in Committers : job[l] = None
  BY NoneLeft DEF BuildBehind, Clear
<1>4. /\ job'["rebuilding"] # None /\ job'["rebuilding"].gen = None
      /\ \A l \in Committers \ {"rebuilding"} : job'[l] = None
  BY <1>3, SpawnJob DEF BuildBehind, Types, JobTypes, Committers
<1>5. Persist = None /\ Persist' = None /\ Canon = None /\ Canon' = None
  BY <1>3, <1>4 DEF Persist, Canon, Committers
<1>6. CurrentTrue' /\ PinTrue' /\ OverlayTrue' /\ BuildingTrue'
  BY <1>1 DEF Truth, CurrentTrue, PinTrue, OverlayTrue, BuildingTrue
<1>7. CommitsTrue'
  BY <1>4 DEF CommitsTrue
<1>8. ServedTrue' /\ RetainedTrue'
  BY <1>1, <1>5 DEF Truth, ServedTrue, RetainedTrue
<1>9. Grounded' /\ ProbeTrue'
  BY <1>2 DEF Grounded, ProbeTrue, Taken
<1> QED
  BY <1>6, <1>7, <1>8, <1>9 DEF Truth

\* A build in the foreground, with nothing in flight.
LEMMA BuildGround ==
  ASSUME Types, Truth, Building
  PROVE  /\ \A l \in Committers : job[l] = None
         /\ kg # None => current # None /\ kg = current.graph
<1>1. \A l \in Committers : job[l] = None
  BY NoneLeft DEF Building, Clear
<1>2. ~Busy
  BY <1>1 DEF Busy
<1> QED
  BY <1>1, <1>2 DEF Truth, Grounded, Taken, Building, Types, DataTypes

\* A build that has committed pins what it serves.
LEMMA BuildCommittedTrue ==
  ASSUME Types, Truth, lapses' = {}, BuildCommitted
  PROVE  Truth'
<1>1. PICK paths : /\ current' = Built(Scanned(paths))
                   /\ kg' = IF Reusable(Scanned(paths)) /\ kg # None THEN kg ELSE current'.graph
  BY DEF BuildCommitted
<1> DEFINE man == Scanned(paths)
<1>2. /\ UNCHANGED <<tree, overlay, job>> /\ kgDir' = current' /\ SpawnOverlay(overlay, job) /\ Building
      /\ overlay # None => overlay = [man |-> current'.man, body |-> kg']
  BY DEF BuildCommitted, env
<1>3. /\ \A l \in Committers : job'[l] = None
      /\ kg # None => current # None /\ kg = current.graph
  BY <1>2, BuildGround
<1>4. /\ Built(man) = Committed(man) /\ Built(man) \in Generations /\ Built(man) # None
      /\ Sound(Built(man)) /\ Built(man).man = man /\ Leq(man, tree) /\ man \in Stamps
  BY BuiltSound, BuildTyped, ScannedBetween, CommittedParts, NoneApart DEF Truth
<1>5. kg' = current'.graph
  BY <1>1, <1>3, ReusedGraph
<1>6. call'.pc \notin Taken \union {"changes"}
  BY DonePC DEF BuildCommitted, Taken
<1>7. CurrentTrue'
  BY <1>1, <1>2, <1>4 DEF CurrentTrue
<1>8. PinTrue'
  BY <1>1, <1>2, <1>4, <1>5, LeqOrder DEF PinTrue
<1>9. OverlayTrue'
  <2>1. current'.graph = Show(current'.man) /\ Leq(current'.man, tree)
    BY <1>1, <1>4, SoundParts
  <2> QED
    BY <1>2, <1>5, <2>1 DEF OverlayTrue
<1>10. BuildingTrue'
  BY <1>2, SpawnTrue
<1>11. Grounded' /\ ProbeTrue'
  BY <1>6 DEF Grounded, ProbeTrue, Taken
<1>12. kgDir' # None
  BY <1>1, <1>2, <1>4
<1> QED
  BY <1>2, <1>3, <1>7, <1>8, <1>9, <1>10, <1>11, <1>12, NoneLeftTrue

\* A sealed graph is served unpinned, its commit in flight.
LEMMA BuildSealedTrue ==
  ASSUME Types, Truth, lapses' = {}, BuildSealed
  PROVE  Truth'
<1>1. PICK paths : /\ kg' = Built(Scanned(paths)).graph
                   /\ Spawn("persisting", "commit", Built(Scanned(paths)), None)
  BY DEF BuildSealed
<1> DEFINE man == Scanned(paths)
           gen == Built(man)
<1>2. /\ UNCHANGED <<tree, current, building>> /\ kgDir' = None /\ Building
      /\ overlay' # None => overlay'.man = job'["persisting"].gen.man
      /\ overlay' = None \/ (overlay # None /\ call.paths # None /\ overlay' = Absorbed([f \in call.paths |-> tree[f]]))
  BY DEF BuildSealed, env
<1>3. \A l \in Committers : job[l] = None
  BY <1>2, BuildGround
<1>4. /\ gen = Committed(man) /\ gen \in Generations
      /\ Sound(gen) /\ gen.man = man /\ Leq(man, tree) /\ (current # None => Leq(current.man, man))
      /\ gen.graph = Show(man)
  BY BuiltSound, BuildTyped, ScannedBetween, CommittedParts DEF Truth
<1>5. job'["persisting"].gen = gen
  BY <1>1, <1>4, SpawnJob DEF Types, JobTypes, Committers
<1>6. overlay' # None => overlay'.body = Show(overlay'.man)
  <2> SUFFICES ASSUME overlay # None, call.paths # None, overlay' = Absorbed([f \in call.paths |-> tree[f]])
               PROVE  overlay'.body = Show(overlay'.man)
    BY <1>2
  <2>1. overlay.body = Show(overlay.man)
    BY DEF Truth, OverlayTrue
  <2> QED
    BY <2>1 DEF Absorbed, Show
<1>7. overlay' # None => overlay'.man = gen.man /\ overlay'.body = kg'
  BY <1>1, <1>2, <1>4, <1>5, <1>6
<1>8. call'.pc \notin Taken \union {"changes"}
  BY DonePC DEF BuildSealed, Taken
<1> QED
  BY <1>1, <1>2, <1>3, <1>4, <1>7, <1>8, PersistingTrue

\* A settled call has its pin already.
LEMMA SettledTrue ==
  ASSUME Types, Truth, Settled
  PROVE  Truth'
<1>1. Persist = None
  BY DEF Settled, Persist
<1>2. UNCHANGED <<tree, current, kg, kgDir, overlay, building, job>>
  BY <1>1 DEF Settled, env, Truth, ServedTrue
<1>3. call'.pc \notin Taken \union {"changes"}
  BY GotoPC DEF Settled, Taken
<1> QED
  BY <1>2, <1>3, WatchTrue

-------------------------------------------------------------------------------
\* What went wrong stays on record.
LEMMA LapsesStay ==
  ASSUME Types, [Next]_vars
  PROVE  lapses \subseteq lapses'
<1>1. CASE UNCHANGED vars
  BY <1>1, SMTT(60) DEF vars
<1>2. CASE (\E f \in Files : Edit(f)) \/ Notify \/ Signal \/ Background \/ Builder \/ (\E kind \in Kinds : Begin(kind))
  BY <1>2 DEF Edit, Notify, Capture, CaptureLost, Signal, Background, JobRead, JobCommit, JobFail,
     Builder,
     BuilderResolve, BuilderFinish, Begin
<1>3. CASE Advance \/ TickStep
  BY <1>3 DEF Advance, AdvancePersist, AdvanceOverlay, AdvanceCanonicalize, AdvanceRebuild,
     ReapPersist,
     AbsorbCanonicalized, Restamped, TickStep, TickConsume, TickRest, TickStart
<1>4. CASE Refresh
  BY <1>4 DEF Refresh, CheckClean, CheckBackstop, CheckDirty, AdoptMoved, NotMoved, TakeChanges,
     Sweep, NoSweep,
     ProbeBusy, ProbeUnchanged, ProbeChanged, DrainCanonicalize, DrainPersist, Drained, Serve, ServeFails,
     BuildBehind, BuildCommitted, BuildSealed, BuildFails, ReapPersist, Restamped
<1>5. CASE Conclude
  BY <1>5 DEF Conclude, SettlePersist, SettleCanonicalize, Settled, Answer, ReapPersist,
     AbsorbCanonicalized, Restamped
<1> QED
  BY <1>1, <1>2, <1>3, <1>4, <1>5 DEF Next, CallStep

\* Every step keeps the agreement, or goes on record as a lapse.
LEMMA TruthStep ==
  ASSUME Types, Truth, [Next]_vars, lapses' = {}
  PROVE  Truth'
BY QuietTrue, EditTrue, ReadTrue, CommitTrue, FailTrue, BuilderTrue, ReapsTrue, MovedTrue,
   RefreshTrue, DropTrue,
   UnchangedTrue, ServeTrue, ServeFailsTrue, BuildBehindTrue, BuildCommittedTrue, BuildSealedTrue, SettledTrue
DEF Next, Background, CallStep, Refresh, Conclude

TruthInv == Types /\ (lapses = {} => Truth)

\* The agreement holds at the start, ...
LEMMA TruthInit == Init => TruthInv
<1> SUFFICES ASSUME Init PROVE TruthInv
  OBVIOUS
<1>1. Types
  BY TypesInit
<1>2. CurrentTrue
  <2> DEFINE zero == [f \in Files |-> 0]
  <2>1. current # None => current = Committed(zero)
    BY DEF Init
  <2>2. current # None => Sound(current) /\ current.man = zero
    BY <2>1, CommittedParts
  <2>3. Leq(zero, tree)
    BY <1>1, DaemonAssumption DEF Types, DataTypes, Stamps, Versions, Leq
  <2> QED
    BY <2>2, <2>3 DEF CurrentTrue
<1>3. PinTrue /\ OverlayTrue /\ BuildingTrue /\ RetainedTrue /\ Grounded
  BY DEF Init, PinTrue, OverlayTrue, BuildingTrue, RetainedTrue, Grounded, NoBuilder
<1>4. CommitsTrue /\ ServedTrue
  BY DEF Init, CommitsTrue, ServedTrue, NoJobs, Persist, Canon, Committers
<1>5. ProbeTrue
  BY DEF Init, ProbeTrue, Idle
<1> QED
  BY <1>1, <1>2, <1>3, <1>4, <1>5 DEF TruthInv, Truth

\* ... and in every step.
LEMMA TruthInvStep ==
  ASSUME TruthInv, [Next]_vars
  PROVE  TruthInv'
<1>1. Types'
  BY TypesStep DEF TruthInv
<1>2. lapses' = {} => lapses = {}
  BY LapsesStay DEF TruthInv
<1>3. lapses' = {} => Truth'
  BY <1>2, TruthStep DEF TruthInv
<1> QED
  BY <1>1, <1>3 DEF TruthInv

\* Unless a hand-over has gone wrong, the artifacts a tool answers from are those
\* of the graph it walks (kg_dir, server.rs 103-105).
THEOREM DaemonPinMatches == Spec => []PinMatches
<1>1. TruthInv => PinMatches
  BY DEF TruthInv, Truth, PinTrue, PinMatches, PinAlwaysMatches
<1> QED
  BY <1>1, TruthInit, TruthInvStep, PTL DEF Spec

\* Unless a hand-over has gone wrong, every generation that is committed shows one
\* tree, whichever of the ways to a generation it came by.
THEOREM DaemonOneTree == Spec => []OneTree
<1>1. TruthInv => OneTree
  <2> SUFFICES ASSUME TruthInv, lapses = {}, current # None
               PROVE  /\ current.graph = current.body
                      /\ \A f \in Files : current.body[f] = Text(current.man[f])
    BY DEF OneTree
  <2>1. current.graph = Show(current.man) /\ current.body = Show(current.man)
    BY SoundParts DEF TruthInv, Truth, CurrentTrue
  <2> QED
    BY <2>1 DEF Show
<1> QED
  BY <1>1, TruthInit, TruthInvStep, PTL DEF Spec

\* Unless a hand-over has gone wrong, the overlay retains what the served graph
\* shows (server.rs 855-858).
THEOREM DaemonOverlayTruthful == Spec => []OverlayTruthful
<1>1. TruthInv => OverlayTruthful
  BY DEF TruthInv, Truth, RetainedTrue, OverlayTruthful
<1> QED
  BY <1>1, TruthInit, TruthInvStep, PTL DEF Spec

\* Unless a hand-over has gone wrong, no commit takes a file of CURRENT back to an
\* older version (server.rs 1689-1691).
THEOREM DaemonCommitsNeverInvert == Spec => CommitsNeverInvert
<1>1. TruthInv /\ [Next]_vars => [(lapses = {} /\ current # None) => \A f \in Files : current'.man[f] >= current.man[f]]_current
  <2> SUFFICES ASSUME TruthInv, [Next]_vars, current' # current, lapses = {}, current # None, NEW f \in Files
               PROVE  current'.man[f] >= current.man[f]
    OBVIOUS
  <2>1. Types /\ Truth
    BY SMTT(60) DEF TruthInv
  <2>2. PICK man \in Stamps : current'.man = man /\ Leq(current.man, man)
    <3>1. CASE \E k \in Committers : JobCommit(k)
      <4>1. PICK k \in Committers : JobCommit(k)
        BY <3>1
      <4>2. job[k] # None /\ job[k].pc = "commit" /\ job[k].gen # None /\ current' = job[k].gen
        BY <2>1, <4>1, WorkerEnds DEF JobCommit
      <4> QED
        BY <2>1, <4>2, ManTypes DEF Truth, CommitsTrue
    <3>2. CASE BuildCommitted
      <4>1. PICK paths : current' = Built(Scanned(paths))
        BY <3>2 DEF BuildCommitted
      <4> QED
        BY <2>1, <4>1, BuiltSound, ScannedBetween, CommittedParts DEF Truth
    <3> QED
      BY <3>1, <3>2
      DEF Next, vars, Edit, Notify, Capture, CaptureLost, Signal, Background, JobRead, JobFail, Builder, BuilderResolve,
       BuilderFinish, Begin, CallStep, Advance, AdvancePersist, AdvanceOverlay, AdvanceCanonicalize, AdvanceRebuild,
       TickStep, TickConsume, TickRest, TickStart, Refresh, CheckClean, CheckBackstop, CheckDirty, AdoptMoved,
       NotMoved, TakeChanges, Sweep, NoSweep, ProbeBusy, ProbeUnchanged, ProbeChanged, DrainCanonicalize,
       DrainPersist, Drained, Serve, ServeFails, BuildBehind, BuildSealed, BuildFails, Conclude,
       SettlePersist, SettleCanonicalize, Settled, Answer
  <2>3. current.man \in Stamps
    BY <2>1, ManTypes
  <2> QED
    BY <2>2, <2>3, DaemonAssumption DEF Leq, Stamps, Versions
<1> QED
  BY <1>1, TruthInit, TruthInvStep, PTL DEF Spec, CommitsNeverInvert

-------------------------------------------------------------------------------
(* Freshness: every file is shown as it is, or something is still to happen  *)
(* that will show it.                                                        *)

\* A backstop pass is decided at the check, and not before.
Early == {"idle", "advance", "overlay", "canonicalize", "rebuild", "debounce", "check"}
BackstopLate == call.pc \in Early => ~call.backstop

\* The watch has an edit of f to tell, and refresh will be made to take it.
Queued(f) ==
  /\ captured = None \/ f \in captured
  /\ Pending \/ (call.pc \in {"moved", "changes"} /\ ~call.backstop)
Untold(f) == f \in unseen \/ Queued(f)

\* The call has taken an edit of f, ...
InHand(f) == call.pc \in Taken /\ (kg = None \/ call.paths = None \/ f \in call.paths)

\* ... a rebuild in flight shows f as it is, or has failed, ...
Rebuild == job["rebuilding"]
Rebuilt(f) == Rebuild # None /\ (Rebuild.pc \in {"read", "failed"} \/ Rebuild.gen.man[f] = tree[f])

\* ... an overtaken canonicalization has committed f as it is, ...
Canonical(f) ==
  /\ Canon # None /\ Canon.pc = "ok" /\ ~Canon.reused
  /\ Text(current.man[f]) = Text(tree[f])

\* ... or the served graph shows it.
Shown(f) == kg # None /\ kg[f] = Text(tree[f])

CoveredAt(f) == Untold(f) \/ InHand(f) \/ Rebuilt(f) \/ Canonical(f) \/ Shown(f)
Covered == \A f \in Files : CoveredAt(f)

\* What was probed is still so, or will be told.
ProbeCurrent ==
  call.probe # None /\ call.pc \in {"drain", "serve"} =>
    \A f \in call.paths : call.probe[f] = tree[f] \/ Untold(f)

\* The list of the steps, for what holds by each of them.
LEMMA StepCases ==
  ASSUME [Next]_vars
  PROVE  \/ UNCHANGED vars \/ (\E f \in Files : Edit(f)) \/ (\E f \in Files : Capture(f)) \/ CaptureLost \/ Signal
         \/ (\E k \in Committers : JobRead(k) \/ JobCommit(k) \/ JobFail(k)) \/ Builder
         \/ (\E kind \in Kinds : Begin(kind))
         \/ AdvancePersist \/ AdvanceOverlay \/ AdvanceCanonicalize \/ AdvanceRebuild
         \/ TickConsume \/ TickRest \/ TickStart
         \/ CheckClean \/ CheckBackstop \/ CheckDirty
         \/ AdoptMoved \/ NotMoved \/ TakeChanges \/ Sweep \/ NoSweep
         \/ ProbeBusy \/ ProbeUnchanged \/ ProbeChanged
         \/ DrainCanonicalize \/ DrainPersist \/ Drained
         \/ Serve \/ ServeFails \/ BuildBehind \/ BuildCommitted \/ BuildSealed \/ BuildFails
         \/ SettlePersist \/ SettleCanonicalize \/ Settled \/ Answer
BY DEF Next, Notify, Background, CallStep, Advance, TickStep, Refresh, Conclude

\* A call on its way to the check is in no backstop pass.
LEMMA BackstopStep ==
  ASSUME Types, BackstopLate, [Next]_vars
  PROVE  BackstopLate'
<1>1. CASE UNCHANGED call
  BY <1>1 DEF BackstopLate
<1>2. CASE call' = Idle \/ (\E kind \in Kinds : Begin(kind))
  <2>1. call'.backstop = FALSE
    <3>1. Idle.backstop = FALSE /\ \A kind : [Idle EXCEPT !.pc = "advance", !.kind = kind].backstop = FALSE
      BY DEF Idle
    <3> QED
      BY <1>2, <3>1 DEF Begin
  <2> QED
    BY <2>1 DEF BackstopLate
<1>3. CASE call.pc \in Early /\ call'.backstop = call.backstop
  BY <1>3 DEF BackstopLate
<1>4. CASE call'.pc \notin Early
  BY <1>4 DEF BackstopLate
<1>5. CASE Done
  <2>1. call' = Idle \/ call'.pc \notin Early
    <3>1. call' = Idle \/ Goto("answer") \/ Goto("settle")
      BY <1>5 DEF Done, Types, CommitInv, CallShape
    <3> QED
      BY <3>1, GotoPC DEF Early
  <2> QED
    BY <1>2, <1>4, <2>1
<1>6. CASE AdvancePersist \/ AdvanceOverlay \/ AdvanceCanonicalize \/ AdvanceRebuild \/ TickStart \/ CheckDirty
  <2>1. call.pc \in Early /\ \E pc : Goto(pc)
    BY <1>6 DEF AdvancePersist, AdvanceOverlay, AdvanceCanonicalize, AdvanceRebuild, TickStart,
       CheckDirty, Early
  <2> QED
    BY <1>3, <2>1, GotoPC
<1>7. CASE CheckBackstop \/ TakeChanges \/ Sweep \/ ProbeChanged
  <2>1. call'.pc \in {"moved", "sweep", "probe", "drain"} \/ Done
    BY <1>7 DEF CheckBackstop, TakeChanges, Sweep, ProbeChanged, Types, CommitInv, CallShape
  <2> QED
    BY <1>4, <1>5, <2>1 DEF Early
<1>8. CASE AdoptMoved \/ NotMoved \/ NoSweep \/ Drained \/ ServeFails \/ Settled
  <2>1. call' = Idle \/ \E pc \in {"changes", "probe", "drain", "serve", "build", "answer"} : Goto(pc)
    BY <1>8 DEF AdoptMoved, NotMoved, NoSweep, Drained, ServeFails, Settled, Error
  <2> QED
    BY <1>2, <1>4, <2>1, GotoPC DEF Early
<1> QED
  BY <1>1, <1>2, <1>5, <1>6, <1>7, <1>8, StepCases
  DEF vars, Edit, Capture, CaptureLost, Signal, JobRead, JobCommit, JobFail, Builder, BuilderResolve, BuilderFinish,
      TickConsume, TickRest, CheckClean, ProbeBusy, ProbeUnchanged, DrainCanonicalize, DrainPersist, Serve,
      BuildBehind, BuildCommitted, BuildSealed, BuildFails, Error, SettlePersist, SettleCanonicalize, Answer

\* What re-arms the watch makes every file told again.
LEMMA MarkedUntold ==
  ASSUME MarkDirty
  PROVE  \A f \in Files : Untold(f)'
BY DEF MarkDirty, Untold, Queued, Pending

\* What is to be told stays so until refresh takes it.
LEMMA UntoldStays ==
  ASSUME Types, BackstopLate, [Next]_vars, ~TakeChanges, NEW f \in Files, Untold(f)
  PROVE  Untold(f)'
<1>1. CASE MarkDirty
  BY <1>1, MarkedUntold
<1>2. CASE UNCHANGED <<unseen, captured, flagging, dirty, dirtySince>> /\ call.pc \notin {"moved", "changes"}
  BY <1>2 DEF Untold, Queued, Pending
<1>3. CASE UNCHANGED <<unseen, captured, flagging, dirty, dirtySince, call>>
  BY <1>3 DEF Untold, Queued, Pending
<1>4. CASE UNCHANGED vars \/ Edit(f) \/ (\E g \in Files : Edit(g) \/ Capture(g)) \/ CaptureLost \/ Signal
  BY <1>4 DEF vars, env, watch, Edit, Capture, CaptureLost, Signal, Untold, Queued, Pending
<1>5. CASE TickConsume
  BY <1>5 DEF TickConsume, env, Untold, Queued, Pending
<1>6. CASE CheckDirty
  <2>1. call'.pc = "moved" /\ ~call'.backstop
    BY <1>6, GotoPC DEF CheckDirty, BackstopLate, Early
  <2> QED
    BY <1>6, <2>1 DEF CheckDirty, env, Untold, Queued, Pending
<1>7. CASE AdoptMoved \/ NotMoved
  <2>1. CASE Goto("changes") /\ UNCHANGED <<unseen, captured, flagging, dirty, dirtySince>>
    BY <2>1, GotoPC DEF Untold, Queued, Pending
  <2>2. CASE MarkDirty
    BY <2>2, <1>1
  <2> QED
    BY <1>7, <2>1, <2>2 DEF AdoptMoved, NotMoved, Adopt, Fail, env, watch, Types
<1>8. CASE AdvanceRebuild
  <2>1. call.pc \notin {"moved", "changes"}
    BY <1>8 DEF AdvanceRebuild
  <2> QED
    BY <1>1, <1>2, <1>8, <2>1 DEF AdvanceRebuild, ReapRebuilding, Adopt, env, watch
<1>9. CASE AdvancePersist \/ AdvanceOverlay \/ AdvanceCanonicalize \/ DrainPersist \/ SettlePersist \/ SettleCanonicalize
  <2>1. call.pc \notin {"moved", "changes"}
    BY <1>9 DEF AdvancePersist, AdvanceOverlay, AdvanceCanonicalize, DrainPersist, SettlePersist,
       SettleCanonicalize
  <2>2. UNCHANGED <<unseen, captured, flagging, dirty, dirtySince>> \/ MarkDirty
    BY <1>9, ZenonT(90) DEF AdvancePersist, AdvanceOverlay, AdvanceCanonicalize, DrainPersist,
       SettlePersist, SettleCanonicalize,
       ReapPersist, AbsorbCanonicalized, Adopt, env, watch
  <2> QED
    BY <1>1, <1>2, <2>1, <2>2
<1>10. CASE (\E k \in Committers : JobRead(k) \/ JobCommit(k) \/ JobFail(k)) \/ Builder
  BY <1>3, <1>10, ZenonT(90) DEF JobRead, JobCommit, JobFail, Builder, BuilderResolve,
     BuilderFinish, env, watch
<1>11. CASE (\E kind \in Kinds : Begin(kind)) \/ TickRest \/ TickStart \/ CheckClean \/ CheckBackstop \/ Sweep \/ NoSweep
            \/ ProbeBusy \/ ProbeUnchanged \/ ProbeChanged \/ DrainCanonicalize \/ Drained \/ Serve \/ ServeFails
            \/ BuildBehind \/ BuildCommitted \/ BuildSealed \/ BuildFails \/ Settled \/ Answer
  BY <1>1, <1>2, <1>11
  DEF Begin, TickRest, TickStart, CheckClean, CheckBackstop, Sweep, NoSweep, ProbeBusy, ProbeUnchanged, ProbeChanged,
      DrainCanonicalize, Drained, Serve, ServeFails, BuildBehind, BuildCommitted, BuildSealed, BuildFails, Building,
      Settled, Answer, env, watch
<1> QED
  BY <1>4, <1>5, <1>6, <1>7, <1>8, <1>9, <1>10, <1>11, StepCases

\* The texts of an interval that ends where it began are all the same.
LEMMA Squeezed ==
  ASSUME NEW v \in Versions, NEW w \in Versions, NEW u \in Versions, v <= w, w <= u, Text(v) = Text(u)
  PROVE  Text(w) = Text(u)
<1>1. Text(v) <= Text(w) /\ Text(w) <= Text(u) /\ Text(v) \in Nat /\ Text(w) \in Nat /\ Text(u) \in Nat
  BY TextMonotone, TextType
<1> QED
  BY <1>1

\* A pinned graph that shows a file as it is agrees with CURRENT on it.
LEMMA PinnedShown ==
  ASSUME Types, Truth, kg # None, kgDir # None, NEW f \in Files, Shown(f)
  PROVE  current # None /\ current.graph[f] = Text(tree[f])
<1>1. /\ Leq(kgDir.man, current.man) /\ Leq(current.man, tree) /\ current # None
      /\ kg = Show(kgDir.man) /\ current.graph = Show(current.man)
  BY SoundParts DEF Truth, PinTrue, CurrentTrue
<1>2. kgDir.man[f] \in Versions /\ current.man[f] \in Versions /\ tree[f] \in Versions
  BY <1>1, ManTypes DEF Stamps
<1>3. kgDir.man[f] <= current.man[f] /\ current.man[f] <= tree[f] /\ Text(kgDir.man[f]) = Text(tree[f])
  BY <1>1 DEF Leq, Show, Shown
<1> QED
  BY <1>1, <1>2, <1>3, Squeezed DEF Show

\* An adoption shows what CURRENT has, or marks everything.
LEMMA AdoptCovers ==
  ASSUME NEW js, Adopt(js), UNCHANGED <<tree, current>>, NEW f \in Files,
         current # None => current.graph[f] = Text(tree[f]) /\ current.graph # None
  PROVE  Untold(f)' \/ Shown(f)'
<1>1. CASE MarkDirty
  BY <1>1, MarkedUntold
<1>2. CASE current # None /\ kg' = current.graph
  BY <1>2 DEF Shown
<1> QED
  BY <1>1, <1>2 DEF Adopt

\* The graph of a build shows what was scanned.
LEMMA BuildShows ==
  ASSUME Types, Truth, BuildCommitted \/ BuildSealed
  PROVE  \E paths \in Hints : kg' = Show(Scanned(paths)) /\ kg' # None
<1>1. CASE BuildSealed
  BY <1>1, BuiltSound, CommittedParts, BuildTyped, NoneApart DEF BuildSealed, Truth
<1>2. CASE BuildCommitted
  <2>1. PICK paths \in Hints :
          /\ current' = Built(Scanned(paths))
          /\ kg' = IF Reusable(Scanned(paths)) /\ kg # None THEN kg ELSE current'.graph
    BY <1>2 DEF BuildCommitted
  <2>2. kg # None => kg = current.graph
    BY <1>2, BuildGround DEF BuildCommitted
  <2>3. kg' = Built(Scanned(paths)).graph
    BY <2>1, <2>2, ReusedGraph, SMTT(60)
  <2> QED
    BY <2>3, BuiltSound, CommittedParts, BuildTyped, NoneApart DEF Truth
<1> QED
  BY <1>1, <1>2

\* What the served graph shows it goes on showing, or everything is looked at
\* again: an adoption, a serve and a build show later trees only.
LEMMA ShownStays ==
  ASSUME Types, Truth, [Next]_vars, tree' = tree, NEW f \in Files, Shown(f)
  PROVE  Untold(f)' \/ Shown(f)'
<1>a. kg # None /\ kg[f] = Text(tree[f]) /\ current # None
  BY DEF Shown, Types, DataTypes
<1>1. CASE kg' = kg
  BY <1>1 DEF Shown
<1>2. CASE \E js : Adopt(js) /\ UNCHANGED current /\ Persist = None
  <2>1. PICK js : Adopt(js) /\ UNCHANGED current /\ Persist = None
    BY <1>2
  <2>2. kgDir # None
    BY <1>a, <2>1 DEF Truth, ServedTrue
  <2>3. current.graph[f] = Text(tree[f])
    BY <1>a, <2>2, PinnedShown
  <2>4. current.graph # None
    BY <1>a, NoneApart DEF Types, DataTypes, Generations
  <2> QED
    BY <2>1, <2>3, <2>4, AdoptCovers
<1>3. CASE AbsorbCanonicalized /\ UNCHANGED current
  <2>1. Persist = None
    BY <1>3, ReapedAlone DEF AbsorbCanonicalized, Persist, Committers
  <2> QED
    BY <1>1, <1>2, <1>3, <2>1 DEF AbsorbCanonicalized, served
<1>4. CASE ReapRebuilding /\ UNCHANGED current
  <2>1. Persist = None
    BY <1>4, ReapedAlone DEF ReapRebuilding, Persist, Committers
  <2> QED
    BY <1>1, <1>2, <1>4, <2>1 DEF ReapRebuilding, served
<1>5. CASE AdoptMoved
  BY <1>2, <1>5 DEF AdoptMoved, Busy, Persist, Committers
<1>6. CASE Serve
  <2> DEFINE probe == call.probe
             ov == Absorbed(probe)
  <2>1. /\ call.pc = "serve" /\ overlay # None /\ probe # None /\ call.paths \subseteq Files
        /\ probe \in [call.paths -> Versions] /\ \A l \in Committers : job[l] = None
    BY <1>6, NoneLeft DEF Serve, Types, CallTypes, Clear
  <2>2. overlay.man = current.man /\ overlay.body = Show(current.man) /\ kg = Show(current.man)
    BY <1>a, <2>1, SoundParts DEF Truth, Grounded, Taken, OverlayTrue, Busy, CurrentTrue
  <2>3. kg' = ov.body /\ ov \in Overlays
    BY <1>6, ServeTyped DEF Serve
  <2>4. ov.body[f] = IF f \in call.paths THEN Text(probe[f]) ELSE Text(current.man[f])
    BY <2>1, <2>2 DEF Absorbed, Show
  <2>5. f \in call.paths => Text(probe[f]) = Text(tree[f])
    <3> SUFFICES ASSUME f \in call.paths PROVE Text(probe[f]) = Text(tree[f])
      OBVIOUS
    <3>1. current.man[f] \in Versions /\ probe[f] \in Versions /\ tree[f] \in Versions
      BY <1>a, <2>1, ManTypes DEF Stamps
    <3>2. current.man[f] <= probe[f] /\ probe[f] <= tree[f] /\ Text(current.man[f]) = Text(tree[f])
      BY <1>a, <2>1, <2>2 DEF Truth, ProbeTrue, Show
    <3> QED
      BY <3>1, <3>2, Squeezed
  <2>6. kg'[f] = Text(tree[f])
    BY <1>a, <2>2, <2>3, <2>4, <2>5 DEF Show
  <2>7. kg' # None
    BY <2>3, NoneApart DEF Overlays
  <2> QED
    BY <2>6, <2>7 DEF Shown
<1>7. CASE BuildCommitted \/ BuildSealed
  <2>1. PICK paths \in Hints : kg' = Show(Scanned(paths)) /\ kg' # None
    BY <1>7, BuildShows
  <2>2. kg = Show(current.man)
    BY <1>7, <1>a, BuildGround, SoundParts DEF BuildCommitted, BuildSealed, Truth, CurrentTrue
  <2>3. Scanned(paths)[f] = tree[f] \/ Scanned(paths)[f] = current.man[f]
    BY DEF Scanned
  <2> QED
    BY <1>a, <2>1, <2>2, <2>3 DEF Shown, Show
<1>8. CASE AdvanceCanonicalize \/ SettleCanonicalize \/ AdvanceRebuild
  BY <1>1, <1>3, <1>4, <1>8 DEF AdvanceCanonicalize, SettleCanonicalize, AdvanceRebuild, served
<1> QED
  BY <1>1, <1>5, <1>6, <1>7, <1>8, StepCases
  DEF vars, env, served, Edit, Capture, CaptureLost, Signal, JobRead, JobCommit, JobFail, Builder, BuilderResolve,
      BuilderFinish, Begin, AdvancePersist, AdvanceOverlay, ReapPersist, TickConsume, TickRest, TickStart, CheckClean,
      CheckBackstop, CheckDirty, NotMoved, TakeChanges, Sweep, NoSweep, ProbeBusy, ProbeUnchanged, ProbeChanged,
      DrainCanonicalize, DrainPersist, Drained, ServeFails, BuildBehind, BuildFails, SettlePersist, Settled, Answer


\* A sweep that finds a file as it was retained finds it shown, or committed by
\* a canonicalization that was overtaken.
LEMMA SweepShows ==
  ASSUME Types, Truth, call.pc = "sweep", kg # None, NEW f \in Files, f \notin Moved
  PROVE  Shown(f) \/ Canonical(f)
<1>1. /\ tree[f] = Retained[f] /\ current # None /\ Rebuild = None
      /\ tree[f] \in Versions /\ current.man[f] \in Versions
  BY ManTypes DEF Moved, Types, DataTypes, CommitInv, Refreshing, Rebuild, Stamps
<1>2. CASE overlay # None
  <2>1. overlay.body = kg /\ overlay.body = Show(overlay.man) /\ overlay.man[f] = tree[f]
    BY <1>1, <1>2 DEF Truth, RetainedTrue, OverlayTrue, Retained
  <2> QED
    BY <2>1 DEF Shown, Show
<1>3. CASE overlay = None /\ Persist # None
  <2>1. /\ kg = Persist.gen.graph /\ Persist.gen # None
        /\ Sound(Persist.gen) /\ Leq(Persist.gen.man, tree) /\ Leq(current.man, Persist.gen.man)
        /\ Persist.gen.man \in Stamps
    BY <1>1, <1>3, ManTypes DEF Truth, ServedTrue, CommitsTrue, Types, JobTypes, Persist, Committers
  <2>2. Persist.gen.man[f] = tree[f]
    <3>1. current.man[f] = tree[f] /\ Persist.gen.man[f] \in Versions
      BY <1>1, <1>3, <2>1 DEF Retained, Stamps
    <3>2. current.man[f] <= Persist.gen.man[f] /\ Persist.gen.man[f] <= tree[f]
      BY <2>1 DEF Leq
    <3> QED
      BY <1>1, <3>1, <3>2, DaemonAssumption DEF Versions
  <2>3. Persist.gen.graph = Show(Persist.gen.man)
    BY <2>1, SoundParts
  <2> QED
    BY <2>1, <2>2, <2>3 DEF Shown, Show
<1>4. CASE overlay = None /\ Persist = None
  <2>1. current.man[f] = tree[f] /\ current.graph = Show(current.man)
    BY <1>1, <1>4, SoundParts DEF Retained, Truth, CurrentTrue
  <2>2. CASE Canon # None /\ Canon.pc = "ok" /\ ~Canon.reused
    BY <2>1, <2>2 DEF Canonical
  <2>3. CASE Canon # None /\ ~(Canon.pc = "ok" /\ ~Canon.reused)
    BY <2>1, <2>3 DEF Truth, ServedTrue, Shown, Show
  <2>4. CASE Canon = None
    <3>1. ~Busy
      BY <1>1, <1>4, <2>4, SMTT(60) DEF Busy, Rebuild, Persist, Canon, Committers
    <3> QED
      BY <2>1, <3>1 DEF Truth, Grounded, Taken, Shown, Show
  <2> QED
    BY <2>2, <2>3, <2>4
<1> QED
  BY <1>2, <1>3, <1>4

\* A rebuild in flight ends in what it read, adopted, or in a new look.
LEMMA RebuiltStays ==
  ASSUME Types, Truth, [Next]_vars, tree' = tree, NEW f \in Files, Rebuilt(f)
  PROVE  Untold(f)' \/ Rebuilt(f)' \/ Shown(f)'
<1>a. job["rebuilding"] # None /\ (\A l \in Committers \ {"rebuilding"} : job[l] = None)
      /\ call.pc \notin Refreshing /\ call.pc \notin {"settle", "answer"}
  BY WorkerAlone DEF Rebuilt, Rebuild, Committers, Types, CommitInv, CallTypes
<1>1. CASE job'["rebuilding"] = job["rebuilding"]
  BY <1>1 DEF Rebuilt, Rebuild
<1>2. CASE \E k \in Committers : JobRead(k)
  <2>1. PICK k \in Committers : JobRead(k)
    BY <1>2
  <2>2. k = "rebuilding"
    BY <1>a, <2>1 DEF JobRead
  <2>3. job["rebuilding"].paths = None
    BY <1>a DEF Types, JobTypes
  <2>4. job'["rebuilding"] # None /\ job'["rebuilding"].gen = Built(Scanned(None))
    BY <2>1, <2>2, <2>3, WorkerReads DEF Committers
  <2>5. Built(Scanned(None)).man[f] = tree[f]
    BY BuiltSound, CommittedParts DEF Truth, Scanned
  <2> QED
    BY <2>4, <2>5 DEF Rebuilt, Rebuild
<1>3. CASE \E k \in Committers : JobCommit(k) \/ JobFail(k)
  <2>1. PICK k \in Committers : JobCommit(k) \/ JobFail(k)
    BY <1>3
  <2>2. k = "rebuilding"
    BY <1>a, <2>1 DEF JobCommit, JobFail
  <2> QED
    BY <2>1, <2>2, WorkerEnds DEF Rebuilt, Rebuild
<1>4. CASE AdvanceRebuild
  <2>1. UNCHANGED current
    BY <1>4 DEF AdvanceRebuild
  <2>2. CASE job["rebuilding"].pc = "ok" /\ ReapRebuilding
    <3>1. Adopt(job')
      BY <2>2 DEF ReapRebuilding
    <3>2. job["rebuilding"].gen # None /\ current = job["rebuilding"].gen /\ current.man[f] = tree[f]
      BY <1>a, <2>2 DEF Types, JobTypes, Committers, Rebuilt, Rebuild
    <3>3. current.graph[f] = Text(tree[f]) /\ current.graph # None
      <4>1. current # None /\ current \in Generations /\ current.graph = Show(current.man)
        BY <3>2, SoundParts, NoneApart DEF Truth, CurrentTrue, Types, DataTypes
      <4> QED
        BY <3>2, <4>1, NoneApart DEF Show, Generations
    <3> QED
      BY <2>1, <3>1, <3>3, AdoptCovers
  <2>3. CASE MarkDirty
    BY <2>3, MarkedUntold
  <2> QED
    BY <1>1, <1>4, <2>2, <2>3 DEF AdvanceRebuild, ReapRebuilding
<1>5. CASE AdvancePersist \/ AdvanceCanonicalize
  <2>1. job["persisting"] = None /\ job["canonicalizing"] = None
    BY <1>a DEF Committers
  <2>2. UNCHANGED job
    BY <1>5, <2>1, SMTT(60) DEF AdvancePersist, AdvanceCanonicalize, ReapPersist,
       AbsorbCanonicalized, Finished
  <2> QED
    BY <1>1, <2>2
<1> QED
  BY <1>a, <1>1, <1>2, <1>3, <1>4, <1>5, StepCases
  DEF vars, Edit, Capture, CaptureLost, Signal, Builder, BuilderResolve, BuilderFinish, Begin, AdvanceOverlay,
      TickConsume, TickRest, TickStart, Refreshing, CheckClean, CheckBackstop, CheckDirty, AdoptMoved, NotMoved,
      TakeChanges, Sweep, NoSweep, ProbeBusy, ProbeUnchanged, ProbeChanged, DrainCanonicalize, DrainPersist, Drained,
      Serve, ServeFails, BuildBehind, BuildCommitted, BuildSealed, BuildFails, Building, SettlePersist,
      SettleCanonicalize, Settled, Answer

\* An overtaken canonicalization ends in the adoption of what it committed.
LEMMA CanonicalStays ==
  ASSUME Types, Truth, [Next]_vars, lapses' = {}, tree' = tree, NEW f \in Files, Canonical(f)
  PROVE  Untold(f)' \/ Canonical(f)' \/ Shown(f)'
<1>a. /\ job["canonicalizing"] # None /\ job["canonicalizing"].pc = "ok" /\ ~job["canonicalizing"].reused
      /\ (\A l \in Committers \ {"canonicalizing"} : job[l] = None)
      /\ Text(current.man[f]) = Text(tree[f]) /\ call.pc \notin Clear /\ Busy
  BY WorkerAlone DEF Canonical, Canon, Committers, Types, CommitInv, Busy
<1>1. CASE job'["canonicalizing"] = job["canonicalizing"] /\ UNCHANGED current
  BY <1>1 DEF Canonical, Canon
<1>2. CASE AbsorbCanonicalized /\ UNCHANGED current
  <2>1. Adopt(job')
    BY <1>a, <1>2 DEF AbsorbCanonicalized
  <2>2. current # None => current.graph[f] = Text(tree[f]) /\ current.graph # None
    <3> SUFFICES ASSUME current # None
                 PROVE  current.graph[f] = Text(tree[f]) /\ current.graph # None
      OBVIOUS
    <3>1. current \in Generations /\ current.graph = Show(current.man)
      BY SoundParts DEF Truth, CurrentTrue, Types, DataTypes
    <3> QED
      BY <1>a, <3>1, NoneApart DEF Show, Generations
  <2> QED
    BY <1>2, <2>1, <2>2, AdoptCovers
<1>3. CASE \E k \in Committers : JobRead(k) \/ JobCommit(k) \/ JobFail(k)
  BY <1>a, <1>3 DEF JobRead, JobCommit, JobFail
<1>4. CASE DrainCanonicalize
  BY <1>a, <1>4 DEF DrainCanonicalize
<1>5. CASE AdvancePersist \/ AdvanceRebuild \/ DrainPersist \/ SettlePersist
  <2>1. job["persisting"] = None /\ job["rebuilding"] = None
    BY <1>a DEF Committers
  <2>2. UNCHANGED <<job, current>>
    BY <1>5, <2>1 DEF AdvancePersist, AdvanceRebuild, DrainPersist, SettlePersist, ReapPersist,
       ReapRebuilding, Finished
  <2> QED
    BY <1>1, <2>2
<1>6. CASE AdvanceCanonicalize \/ SettleCanonicalize
  BY <1>1, <1>2, <1>6, SMTT(60) DEF AdvanceCanonicalize, SettleCanonicalize
<1> QED
  BY <1>a, <1>1, <1>3, <1>4, <1>5, <1>6, StepCases
  DEF vars, Edit, Capture, CaptureLost, Signal, Builder, BuilderResolve, BuilderFinish, Begin, AdvanceOverlay,
      TickConsume, TickRest, TickStart, Clear, CheckClean, CheckBackstop, CheckDirty, AdoptMoved, NotMoved,
      TakeChanges, Sweep, NoSweep, ProbeBusy, ProbeUnchanged, ProbeChanged, Drained,
      Serve, ServeFails, BuildBehind, BuildCommitted, BuildSealed, BuildFails, Building, Settled, Answer


\* A change set that a refresh has taken is shown by it, whichever way it ends,
\* or goes back to the watch.
LEMMA InHandStays ==
  ASSUME Types, Truth, BackstopLate, ProbeCurrent, [Next]_vars, lapses' = {}, tree' = tree,
         NEW f \in Files, InHand(f)
  PROVE  CoveredAt(f)'
<1>a. /\ call.pc \in Taken /\ (kg = None \/ call.paths = None \/ f \in call.paths)
      /\ call.pc # "changes"
  BY DEF InHand, Taken
<1>1. CASE UNCHANGED <<call, kg>>
  BY <1>1 DEF InHand, CoveredAt
<1>2. CASE MarkDirty
  BY <1>2, MarkedUntold DEF CoveredAt
<1>3. CASE UNCHANGED kg /\ \E pc \in Taken : Goto(pc)
  <2>1. call'.pc \in Taken /\ call'.paths = call.paths
    BY <1>3, GotoPC
  <2> QED
    BY <1>a, <1>3, <2>1 DEF InHand, CoveredAt
<1>4. CASE Sweep
  <2>1. UNCHANGED <<kg, job, current>> /\ kg # None /\ call.pc = "sweep"
    BY <1>4 DEF Sweep, served
  <2>2. CASE f \notin Moved
    <3>1. Shown(f) \/ Canonical(f)
      BY <2>1, <2>2, SweepShows
    <3> QED
      BY <2>1, <3>1 DEF Shown, Canonical, Canon, CoveredAt
  <2>3. CASE f \in Moved
    <3>1. call' = [call EXCEPT !.pc = "probe", !.paths = Moved]
      BY <1>4, <2>3 DEF Sweep
    <3>2. call'.pc = "probe" /\ call'.paths = Moved
      BY <3>1 DEF Types, CommitInv, CallShape
    <3> QED
      BY <2>3, <3>2 DEF InHand, CoveredAt, Taken
  <2> QED
    BY <2>2, <2>3
<1>5. CASE ProbeUnchanged
  <2>1. /\ call.pc = "probe" /\ kg # None /\ f \in call.paths /\ ~Busy /\ Text(tree[f]) = Reference[f]
        /\ UNCHANGED kg /\ current # None
    BY <1>a, <1>5 DEF ProbeUnchanged, Types, CallTypes, DataTypes, Unchanged, served
  <2>2. kg = current.graph /\ current.graph = current.body /\ (overlay # None => overlay.body = kg)
    BY <2>1, SoundParts DEF Truth, Grounded, Taken, CurrentTrue, RetainedTrue
  <2> QED
    BY <2>1, <2>2 DEF Reference, Shown, CoveredAt
<1>6. CASE ProbeChanged
  <2>1. call'.pc = "drain" /\ call'.paths = call.paths /\ UNCHANGED kg
    BY <1>6 DEF ProbeChanged, Types, CommitInv, CallShape, served
  <2> QED
    BY <1>a, <2>1 DEF InHand, CoveredAt, Taken
<1>7. CASE Serve
  <2> DEFINE probe == call.probe
             ov == Absorbed(probe)
  <2>1. /\ call.pc = "serve" /\ probe # None /\ f \in call.paths /\ probe \in [call.paths -> Versions]
    BY <1>a, <1>7 DEF Serve, Types, CallTypes
  <2>2. kg' = ov.body /\ ov \in Overlays
    BY <1>7, ServeTyped DEF Serve
  <2>3. kg'[f] = Text(probe[f]) /\ kg' # None
    BY <2>1, <2>2, NoneApart DEF Absorbed, Overlays
  <2>4. CASE probe[f] = tree[f]
    BY <2>3, <2>4 DEF Shown, CoveredAt
  <2>5. CASE Untold(f)
    <3>1. ~TakeChanges
      BY <2>1 DEF TakeChanges
    <3> QED
      BY <2>5, <3>1, UntoldStays DEF CoveredAt
  <2> QED
    BY <2>1, <2>4, <2>5 DEF ProbeCurrent
<1>8. CASE BuildBehind
  <2>1. job'["rebuilding"] # None /\ job'["rebuilding"].pc = "read"
    BY <1>8, SpawnJob DEF BuildBehind, Types, JobTypes, Committers
  <2> QED
    BY <2>1 DEF Rebuilt, Rebuild, CoveredAt
<1>9. CASE BuildCommitted \/ BuildSealed
  <2>1. PICK paths \in Hints : kg' = Show(Scanned(paths)) /\ kg' # None
    BY <1>9, BuildShows
  <2>2. call.pc = "build" /\ (kg # None => f \in call.paths)
    BY <1>a, <1>9 DEF BuildCommitted, BuildSealed, Building, Types, CallTypes
  <2>3. Scanned(paths)[f] = tree[f]
    BY <2>2 DEF Hints, Scanned
  <2> QED
    BY <2>1, <2>3 DEF Show, Shown, CoveredAt
<1>10. CASE NoSweep \/ Drained \/ ServeFails
  <2>1. UNCHANGED kg /\ \E pc \in Taken : Goto(pc)
    BY <1>10 DEF NoSweep, Drained, ServeFails, served, Taken
  <2> QED
    BY <2>1, <1>3
<1>11. CASE ProbeBusy \/ BuildFails
  BY <1>2, <1>11 DEF ProbeBusy, BuildFails
<1> QED
  BY <1>a, <1>1, <1>4, <1>5, <1>6, <1>7, <1>8, <1>9, <1>10, <1>11, StepCases
  DEF vars, env, served, Edit, Capture, CaptureLost, Signal, JobRead, JobCommit, JobFail, Builder, BuilderResolve,
      BuilderFinish, Begin, AdvancePersist, AdvanceOverlay, AdvanceCanonicalize, AdvanceRebuild, ReapPersist,
      TickConsume, TickRest, TickStart, CheckClean, CheckBackstop, CheckDirty, AdoptMoved, NotMoved, TakeChanges,
      DrainCanonicalize, DrainPersist, SettlePersist, SettleCanonicalize, Settled, Answer, Taken

\* Taking the change set puts every file of it in the refresh's hand.
LEMMA TakenCovers ==
  ASSUME Types, TakeChanges, NEW f \in Files, Untold(f)
  PROVE  CoveredAt(f)'
<1>1. /\ call'.pc = "sweep" /\ call'.paths = IF call.backstop THEN None ELSE captured
      /\ captured' = IF call.backstop THEN captured ELSE {}
      /\ UNCHANGED <<unseen, dirty, flagging, dirtySince>>
  BY DEF TakeChanges, env, Types, CommitInv, CallShape
<1> QED
  BY <1>1 DEF Untold, Queued, Pending, InHand, Taken, CoveredAt

\* A file that is edited is untold; the others are covered as before.
LEMMA EditCovers ==
  ASSUME Types, NEW g \in Files, Edit(g), NEW f \in Files, CoveredAt(f)
  PROVE  CoveredAt(f)'
<1>1. CASE f = g
  BY <1>1 DEF Edit, CoveredAt, Untold
<1>2. CASE f # g
  <2>1. tree'[f] = tree[f]
    BY <1>2 DEF Edit, Types, DataTypes, Stamps
  <2> QED
    BY <2>1 DEF Edit, watch, served, CoveredAt, Untold, Queued, Pending, InHand, Rebuilt, Rebuild,
       Canonical, Canon, Shown
<1> QED
  BY <1>1, <1>2

\* No step leaves an edit that nothing is to show.
LEMMA CoveredStep ==
  ASSUME Types, Truth, BackstopLate, ProbeCurrent, [Next]_vars, lapses' = {}, NEW f \in Files, CoveredAt(f)
  PROVE  CoveredAt(f)'
<1>1. CASE \E g \in Files : Edit(g)
  BY <1>1, EditCovers
<1>2. CASE ~ \E g \in Files : Edit(g)
  <2>1. tree' = tree
    BY <1>2, StepCases
    DEF vars, env, Capture, CaptureLost, Signal, JobRead, JobCommit, JobFail, Builder, BuilderResolve,
      BuilderFinish, Begin, AdvancePersist, AdvanceOverlay, AdvanceCanonicalize, AdvanceRebuild,
      TickConsume, TickRest, TickStart, CheckClean, CheckBackstop, CheckDirty, AdoptMoved, NotMoved, TakeChanges,
      Sweep, NoSweep, ProbeBusy, ProbeUnchanged, ProbeChanged, DrainCanonicalize, DrainPersist, Drained,
      Serve, ServeFails, BuildBehind, BuildCommitted, BuildSealed, BuildFails,
      SettlePersist, SettleCanonicalize, Settled, Answer
  <2>2. CASE Untold(f)
    <3>1. CASE TakeChanges
      BY <2>2, <3>1, TakenCovers
    <3>2. CASE ~TakeChanges
      BY <2>2, <3>2, UntoldStays DEF CoveredAt
    <3> QED
      BY <3>1, <3>2
  <2>3. CASE InHand(f)
    BY <2>1, <2>3, InHandStays
  <2>4. CASE Rebuilt(f)
    BY <2>1, <2>4, RebuiltStays DEF CoveredAt
  <2>5. CASE Canonical(f)
    BY <2>1, <2>5, CanonicalStays DEF CoveredAt
  <2>6. CASE Shown(f)
    BY <2>1, <2>6, ShownStays, SMTT(60) DEF CoveredAt
  <2> QED
    BY <2>2, <2>3, <2>4, <2>5, <2>6, SMTT(60) DEF CoveredAt
<1> QED
  BY <1>1, <1>2

\* A probe stays current: what is edited after it will be told.
LEMMA ProbeCurrentStep ==
  ASSUME Types, BackstopLate, ProbeCurrent, [Next]_vars
  PROVE  ProbeCurrent'
<1>1. CASE call'.pc \notin {"drain", "serve"} \/ call'.probe = None
  BY <1>1 DEF ProbeCurrent
<1>2. CASE ProbeChanged
  <2>1. call'.probe = [f \in call.paths |-> tree[f]] /\ call'.paths = call.paths /\ UNCHANGED tree
    BY <1>2 DEF ProbeChanged, env, Types, CommitInv, CallShape
  <2> QED
    BY <2>1 DEF ProbeCurrent
<1>3. CASE call.pc \in {"drain", "serve"} /\ call'.probe = call.probe /\ call'.paths = call.paths
  <2> SUFFICES ASSUME call.probe # None, NEW f \in call.paths, ~(call.probe[f] = tree'[f])
               PROVE  Untold(f)'
    BY <1>3 DEF ProbeCurrent
  <2>1. f \in Files /\ ~TakeChanges
    BY <1>3 DEF Types, CallTypes, TakeChanges
  <2>2. CASE Untold(f)
    BY <2>1, <2>2, UntoldStays
  <2>3. CASE tree'[f] # tree[f]
    <3>1. Edit(f)
      BY <2>1, <2>3, StepCases
      DEF vars, env, Edit, Types, DataTypes, Stamps, Capture, CaptureLost, Signal, JobRead, JobCommit, JobFail, Builder,
        BuilderResolve, BuilderFinish, Begin, AdvancePersist, AdvanceOverlay, AdvanceCanonicalize, AdvanceRebuild,
        TickConsume, TickRest, TickStart, CheckClean, CheckBackstop, CheckDirty, AdoptMoved, NotMoved, TakeChanges,
        Sweep, NoSweep, ProbeBusy, ProbeUnchanged, ProbeChanged, DrainCanonicalize, DrainPersist, Drained,
        Serve, ServeFails, BuildBehind, BuildCommitted, BuildSealed, BuildFails,
        SettlePersist, SettleCanonicalize, Settled, Answer
    <3> QED
      BY <3>1, SMTT(60) DEF Edit, Untold
  <2> QED
    BY <1>3, <2>2, <2>3 DEF ProbeCurrent
<1>4. CASE UNCHANGED call
  BY <1>1, <1>3, <1>4
<1>5. CASE NoSweep
  <2>1. call'.probe = None
    BY <1>5, GotoPC DEF NoSweep, Types, CallTypes, Probed
  <2> QED
    BY <1>1, <2>1
<1>6. CASE Drained
  <2>1. call.pc = "drain" /\ call'.probe = call.probe /\ call'.paths = call.paths
    BY <1>6, GotoPC DEF Drained
  <2> QED
    BY <1>3, <2>1
<1>7. CASE \E pc : Goto(pc) /\ pc \notin {"drain", "serve"}
  BY <1>1, <1>7, GotoPC
<1>8. CASE Done
  BY <1>1, <1>8, DonePC
<1>9. CASE CheckBackstop \/ TakeChanges \/ Sweep \/ call' = Idle \/ (\E kind \in Kinds : Begin(kind))
  <2>1. Idle.pc = "idle" /\ \A kind : [Idle EXCEPT !.pc = "advance", !.kind = kind].pc = "advance"
    BY DEF Idle
  <2>2. call'.pc \notin {"drain", "serve"} \/ Done
    BY <1>9, <2>1 DEF CheckBackstop, TakeChanges, Sweep, Begin, Types, CommitInv, CallShape
  <2> QED
    BY <1>1, <1>8, <2>2
<1>10. CASE AdvancePersist \/ AdvanceOverlay \/ AdvanceCanonicalize \/ AdvanceRebuild \/ TickStart \/ CheckDirty
            \/ AdoptMoved \/ NotMoved \/ ServeFails \/ Settled
  <2>1. call' = Idle \/ \E pc \in {"overlay", "canonicalize", "rebuild", "debounce", "check", "moved", "changes", "build",
                                   "answer"} : Goto(pc)
    BY <1>10 DEF AdvancePersist, AdvanceOverlay, AdvanceCanonicalize, AdvanceRebuild, TickStart,
       CheckDirty, AdoptMoved,
       NotMoved, ServeFails, Settled, Error
  <2>2. CASE \E pc \in {"overlay", "canonicalize", "rebuild", "debounce", "check", "moved", "changes", "build",
                        "answer"} : Goto(pc)
    BY <1>7, <2>2
  <2> QED
    BY <1>9, <2>1, <2>2
<1> QED
  BY <1>2, <1>4, <1>5, <1>6, <1>8, <1>9, <1>10, StepCases
  DEF vars, Edit, Capture, CaptureLost, Signal, JobRead, JobCommit, JobFail, Builder, BuilderResolve, BuilderFinish,
      TickConsume, TickRest, CheckClean, Error, ProbeBusy, ProbeUnchanged, DrainCanonicalize, DrainPersist,
      Serve, BuildBehind, BuildCommitted, BuildSealed, BuildFails, SettlePersist, SettleCanonicalize, Answer


\* The whole invariant: the types, and while no hand-over has gone wrong, the
\* agreement of what is served and the coverage of every edit.
FreshInv ==
  /\ Types /\ BackstopLate
  /\ lapses = {} => Truth /\ Covered /\ ProbeCurrent

\* It holds at the start, ...
LEMMA FreshInvInit == Init => FreshInv
<1> SUFFICES ASSUME Init PROVE FreshInv
  OBVIOUS
<1>1. Types /\ Truth
  BY TruthInit DEF TruthInv, Init
<1>2. BackstopLate /\ ProbeCurrent
  BY DEF Init, Idle, BackstopLate, ProbeCurrent
<1>3. Covered
  BY DEF Init, Covered, CoveredAt, Untold, Queued, Pending
<1> QED
  BY <1>1, <1>2, <1>3 DEF FreshInv

\* ... and in every step.
LEMMA FreshInvStep ==
  ASSUME FreshInv, [Next]_vars
  PROVE  FreshInv'
<1>1. Types' /\ BackstopLate'
  BY TypesStep, BackstopStep DEF FreshInv
<1>2. lapses' = {} => lapses = {}
  BY LapsesStay DEF FreshInv
<1>3. lapses' = {} => Truth' /\ ProbeCurrent'
  BY <1>2, TruthStep, ProbeCurrentStep DEF FreshInv
<1>4. ASSUME lapses' = {}, NEW f \in Files
      PROVE  CoveredAt(f)'
  <2>1. CoveredAt(f)
    BY <1>2, <1>4 DEF FreshInv, Covered
  <2> QED
    BY <1>2, <1>4, <2>1, CoveredStep DEF FreshInv
<1> QED
  BY <1>1, <1>3, <1>4 DEF FreshInv, Covered

\* No query answers from before an edit the daemon has been told of (ensure_fresh,
\* server.rs 1350-1845): where the flag is down, or a refresh has taken the edit,
\* nothing but the served graph is left to show it.
THEOREM DaemonAnswersAreFresh == Spec => []AnswersAreFresh
<1>1. FreshInv => AnswersAreFresh
  <2> SUFFICES ASSUME FreshInv PROVE AnswersAreFresh
    OBVIOUS
  <2>1. TypeOK
    BY DEF FreshInv, Types, CallTypes, DataTypes, WatchTypes, TypeOK
  <2>2. ASSUME call.pc = "answer", lapses = {}, ~Overtaken, NEW f \in Files, Told(f) \/ (f \notin unseen /\ ~Pending)
        PROVE  kg[f] = Text(tree[f])
    <3>1. Types /\ Truth /\ CoveredAt(f)
      BY <2>2 DEF FreshInv, Covered
    <3>2. ~Untold(f)
      BY <2>2 DEF Told, Untold, Queued
    <3>3. ~InHand(f) /\ ~Rebuilt(f)
      BY <2>2, <3>1 DEF InHand, Taken, Rebuilt, Rebuild, Types, CallTypes
    <3>4. Canonical(f) => Shown(f)
      <4> SUFFICES ASSUME Canonical(f) PROVE Shown(f)
        OBVIOUS
      <4>1. /\ Canon # None /\ Canon.pc = "ok" /\ Canon.gen # None /\ current = Canon.gen
            /\ kg # None /\ current # None
        BY <3>1 DEF Canonical, Canon, Types, JobTypes, Committers
      <4>2. current.graph = kg
        BY <2>2, <4>1 DEF Overtaken, Canon
      <4>3. current.graph = Show(current.man)
        BY <3>1, <4>1, SoundParts DEF Truth, CurrentTrue
      <4> QED
        BY <4>1, <4>2, <4>3 DEF Canonical, Shown, Show
    <3> QED
      BY <3>1, <3>2, <3>3, <3>4 DEF CoveredAt, Shown
  <2> QED
    BY <2>1, <2>2 DEF AnswersAreFresh
<1> QED
  BY <1>1, FreshInvInit, FreshInvStep, PTL DEF Spec
===============================================================================
