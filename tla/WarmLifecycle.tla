---------------------------- MODULE WarmLifecycle ----------------------------
(* When the daemon warms the vector tier, and when it keeps a live one instead:*)
(* the warm policy of crates/mcp/src/server.rs (request, deadline, preemption),*)
(* the live tier's adoption, its edits and retirement, and the latch that      *)
(* bounds the attempts.                                                        *)
(*                                                                             *)
(* The daemon thread runs one handler at a time, and a handler only ever looks *)
(* at whether a thread has finished: a handler is one step, composed of the    *)
(* functions the code composes it of, each from daemon to daemon.  The threads *)
(* (committers, warms, tier tasks) finish between the steps.                   *)
(*                                                                             *)
(* Abstractions.  A graph is the set of symbols in it.  Only CURRENT's tier is *)
(* kept, as the graph it was built of: every commit is of a generation not     *)
(* seen before, and carries the prior tier forward.  Clocks are choices.       *)
(* Queued churn keeps each symbol's last entry, which decides what it amounts  *)
(* to.  The state of the daemon begins once its graph is loaded.               *)
EXTENDS Naturals, FiniteSets

CONSTANTS
  Syms,         \* symbols that come and go
  Modes,        \* the cases: the corpus is above the quantized-graph floor, so that
                \* a live tier is possible, what happens besides edits, and a bound
                \* on the threads that fail
  None

Kinds == {"touch", "query", "index", "reconcile", "compact", "deadline", "calm"}

Graphs  == SUBSET Syms
Runs    == [pc : {"spawned", "running", "done"}, here : BOOLEAN, cancel : BOOLEAN,
            completed : BOOLEAN, preemptible : BOOLEAN]
Tasks   == [kind : {"adopt", "update"}, pc : {"running", "ready", "declined"},
            graph : Graphs, compact : BOOLEAN, rows : Graphs]
Tiers   == [rows : Graphs, compact : BOOLEAN]
Latches == [attempts : Nat, rearmed : BOOLEAN]

ASSUME WarmAssumption ==
  /\ Modes \subseteq [big : BOOLEAN, events : SUBSET Kinds, faults : Nat]
  /\ None \notin Runs \cup Tasks \cup Tiers \cup Latches

VARIABLES
  mode,     \* the case at hand
  tree,     \* the symbols of the source tree
  disk,     \* CURRENT: its graph, and the graph its tier was built of
  d,        \* the daemon: the fields of Server this module is about
  calm,     \* the edits are over
  faults    \* what has failed: "warm", "job", "task"

vars == <<mode, tree, disk, d, calm, faults>>

NoChurn == [s \in Syms |-> "none"]
NoJob   == [kind |-> "none", pc |-> "ok", graph |-> {}, reused |-> FALSE, reconcile |-> FALSE]
Budget  == 2                  \* LIVE_ANN_ATTEMPTS_PER_GENERATION

(* The boot: a tier that looks reconcilable suppresses the boot warm.  Three   *)
(* fields are no field of Server: touched, a change of stamps nothing has taken*)
(* up; waiting, the call that joins a committer; and the histories stale, churn*)
(* that outlived the graph it was of, and declines, the adoptions of CURRENT's *)
(* tier declined since it was committed or one succeeded.                      *)
Init ==
  /\ mode \in Modes
  /\ tree \in Graphs
  /\ disk \in [graph : {tree}, base : Graphs \cup {None}]
  /\ d = [kg |-> tree, job |-> NoJob, run |-> None,
          boot |-> IF disk.base = None THEN "running" ELSE "none",
          pending |-> FALSE, overdue |-> FALSE, quiet |-> TRUE,
          live |-> None, task |-> None, discard |-> FALSE, churn |-> NoChurn,
          latch |-> None, dirty |-> FALSE, dirtySince |-> FALSE, touched |-> FALSE,
          waiting |-> FALSE, stale |-> FALSE, declines |-> 0]
  /\ calm = FALSE /\ faults = {}

(*--------------------------------- the warm ---------------------------------*)

Rearmed(latch) == IF latch = None THEN None ELSE [latch EXCEPT !.rearmed = TRUE]

(* Fault: a completed warm forgets the latch, budget and all.                  *)
ReapWarmForgetting(s) ==
  LET a == IF s.run # None /\ s.run.pc = "done"
           THEN [s EXCEPT !.run = None, !.latch = IF s.run.completed THEN None ELSE @]
           ELSE s
  IN IF a.boot = "done" THEN [a EXCEPT !.boot = "none", !.latch = None] ELSE a

(* A completed warm re-arms one retry; an error counts as completed.           *)
ReapWarm(s) ==
  LET a == IF s.run # None /\ s.run.pc = "done"
           THEN [s EXCEPT !.run = None, !.latch = IF s.run.completed THEN Rearmed(@) ELSE @]
           ELSE s
  IN IF a.boot = "done" THEN [a EXCEPT !.boot = "none", !.latch = Rearmed(@)] ELSE a

CommitterBusy(s) == s.job # NoJob

(* Fault: the deadline is looked at behind the dirt.                           *)
DueUnlessDirty(s) ==
  \/ disk.base = None
  \/ ~CommitterBusy(s) /\ ~s.dirty /\ ~s.dirtySince /\ (s.overdue \/ s.quiet)

(* warm_spawn_due                                                              *)
Due(s) ==
  \/ disk.base = None
  \/ ~CommitterBusy(s) /\ (s.overdue \/ (~s.dirty /\ ~s.dirtySince /\ s.quiet))

MaybeSpawnWarm(s) ==
  LET a == ReapWarm(s) IN
  IF ~s.pending THEN s
  ELSE IF a.boot # "none" \/ a.run # None \/ ~Due(a) THEN a
  ELSE [a EXCEPT !.pending = FALSE, !.overdue = FALSE,
                 !.run = [pc |-> "spawned", here |-> TRUE, cancel |-> FALSE, completed |-> FALSE,
                          preemptible |-> disk.base = None \/ ~a.overdue]]

(* A healthy live tier, or a tier task in flight, stands for the warm tier.    *)
RequestWarm(s) ==
  IF (s.live # None /\ ~s.live.compact) \/ s.task # None THEN s
  ELSE MaybeSpawnWarm([ReapWarm(s) EXCEPT !.quiet = FALSE, !.pending = TRUE])

(* A save stops a preemptible warm and asks for another.                       *)
PreemptWarm(s) ==
  IF s.run # None /\ s.run.preemptible /\ s.run.pc # "done"
  THEN [s EXCEPT !.run.cancel = TRUE, !.pending = TRUE] ELSE s

(*------------------------------- the live tier ------------------------------*)

(* The tier travels into the update task; without a tier the churn is queued.  *)
SpawnUpdate(s, churn) ==
  IF s.live # None
  THEN [s EXCEPT !.live = None,
          !.task = [kind |-> "update", pc |-> "running", graph |-> {}, compact |-> s.live.compact,
                    rows |-> (s.live.rows \ {x \in Syms : churn[x] = "removed"})
                             \cup {x \in s.kg : churn[x] = "added"}]]
  ELSE IF mode.big
  THEN [s EXCEPT !.churn = [x \in Syms |-> IF churn[x] = "none" THEN @[x] ELSE churn[x]]]
  ELSE s

(* The budgeted latch: whether this generation may be tried.                   *)
MayTry(s) ==
  \/ s.latch = None
  \/ s.latch.attempts < Budget /\ s.latch.rearmed

Latched(s) == IF s.latch = None THEN None ELSE [s.latch EXCEPT !.rearmed = FALSE]

(* Never over a tier, a task, a committer that writes or the boot's warm; below*)
(* the floor the verdict is known.                                             *)
SpawnAdopt(s) ==
  IF \/ s.live # None \/ s.task # None
     \/ s.job.kind \in {"canonicalizing", "persisting"} \/ s.boot # "none"
  THEN s
  ELSE IF ~mode.big
  THEN [s EXCEPT !.latch = IF @ = None THEN [attempts |-> Budget, rearmed |-> FALSE] ELSE @]
  ELSE IF ~MayTry(s) THEN s
  ELSE [s EXCEPT !.latch = Latched(s),
                 !.task = [kind |-> "adopt", pc |-> "running", graph |-> s.kg, compact |-> FALSE, rows |-> {}]]

(* Fault: the task in flight is forgotten.                                     *)
RetireInstalledOnly(s) ==
  IF s.live = None /\ s.task = None THEN [s EXCEPT !.stale = s.churn # NoChurn]
  ELSE [s EXCEPT !.live = None, !.churn = NoChurn, !.stale = FALSE]

(* retire_live_ann_for_resync.  With neither tier nor task it returns early    *)
(* and leaves the queued churn, which "stale" (history) records.               *)
Retire(s) ==
  IF s.live = None /\ s.task = None THEN [s EXCEPT !.stale = s.churn # NoChurn]
  ELSE [s EXCEPT !.live = None, !.churn = NoChurn, !.stale = FALSE, !.discard = @ \/ s.task # None]

(* Fault: the generation is not handed back to the classic warm.               *)
DeclinedQuietly(s) ==
  {[s EXCEPT !.task = None, !.declines = @ + 1,
      !.latch = [rearmed |-> FALSE, attempts |-> 1 + IF @ # None THEN @.attempts ELSE 0]]}

(* A panicked task counts as declined, like an adoption that gave up.          *)
Declined(s) ==
  {RequestWarm(a) : a \in
    {[s EXCEPT !.task = None, !.declines = @ + 1,
        !.latch = [rearmed |-> FALSE, attempts |-> 1 + IF @ # None THEN @.attempts ELSE 0]]}}

Installed(s) ==
  {IF s.churn = NoChurn THEN a ELSE SpawnUpdate([a EXCEPT !.churn = NoChurn], s.churn) : a \in
    {[s EXCEPT !.task = None, !.latch = None, !.declines = 0,
        !.live = [rows |-> s.task.rows, compact |-> s.task.compact]]}}

ReapLive(s) ==
  IF s.task = None \/ s.task.pc = "running" THEN {s}
  ELSE IF s.discard THEN {[s EXCEPT !.task = None, !.discard = FALSE]}
  ELSE IF s.task.pc = "ready" THEN Installed(s)
  ELSE Declined(s)

(* Tombstone debt or lost recall: the tier retires to the classic warm.        *)
Compact(s) ==
  IF s.live # None /\ s.live.compact THEN RequestWarm([s EXCEPT !.live = None]) ELSE s

(*------------------------------- the committers -----------------------------*)

Finished(s, kind) == s.job.kind = kind /\ s.job.pc # "running"
NoMoreJob(s) == [s EXCEPT !.job = NoJob]

(* CURRENT names another generation: what was resolved before is of the old,   *)
(* and a latch on the old one stops nothing.                                   *)
Moved(s) ==
  [s EXCEPT !.declines = 0, !.latch = None,
            !.run = IF @ = None \/ @.pc = "spawned" THEN @ ELSE [@ EXCEPT !.here = FALSE],
            !.boot = IF @ = "running" THEN "elsewhere" ELSE @]

(* Adoption first, warm second.                                                *)
AdoptThenWarm(s) == {RequestWarm(a) : a \in {SpawnAdopt(s)}}

(* adopt_committed_generation: a graph without a ledger of its churn.          *)
AdoptCommitted(s) == AdoptThenWarm([Retire(NoMoreJob(s)) EXCEPT !.kg = disk.graph])

ReapPersist(s) ==
  IF ~Finished(s, "persisting") THEN {s}
  ELSE IF s.job.pc = "ok" THEN AdoptThenWarm(NoMoreJob(s))
  ELSE {[NoMoreJob(s) EXCEPT !.dirty = TRUE]}

ReapCanonicalizing(s) ==
  IF ~Finished(s, "canonicalizing") THEN {s}
  ELSE IF s.job.pc = "failed" THEN {[NoMoreJob(s) EXCEPT !.dirty = TRUE]}
  ELSE IF s.job.reused THEN {NoMoreJob(s)} ELSE AdoptCommitted(s)

(* A failed reconcile is no evidence of dirt; one that found the served        *)
(* generation as it was leaves the live tier alone.                            *)
ReapRebuilding(s) ==
  IF ~Finished(s, "rebuilding") THEN {s}
  ELSE IF s.job.pc = "failed"
  THEN IF s.job.reconcile THEN {NoMoreJob(s)}
       ELSE {[NoMoreJob(s) EXCEPT !.dirty = TRUE, !.dirtySince = TRUE]}
  ELSE IF s.job.reconcile /\ s.job.reused /\ s.kg = disk.graph THEN {NoMoreJob(s)}
  ELSE AdoptCommitted(s)

(* advance_background, in its order.                                           *)
Then(S, F(_)) == UNION {F(s) : s \in S}

AdvanceTier(s) == {SpawnAdopt(b) : b \in {Compact(a) : a \in ReapLive(s)}}

Advanced ==
  Then(Then(Then(Then({MaybeSpawnWarm(ReapWarm(d))}, ReapPersist), AdvanceTier),
            ReapCanonicalizing), ReapRebuilding)

(*--------------------------------- refresh ----------------------------------*)

Spawned(s, kind, graph) ==
  [s EXCEPT !.touched = FALSE,
            !.job = [NoJob EXCEPT !.kind = kind, !.pc = "running", !.graph = graph]]

Ledger(old, new) ==
  [x \in Syms |-> IF x \in old \ new THEN "removed" ELSE IF x \in new \ old THEN "added" ELSE "none"]

(* The overlay serves the change and persists it; the churn feeds the tier.    *)
ServeOverlay(s) == {SpawnUpdate(Spawned([s EXCEPT !.kg = tree], "persisting", tree), Ledger(s.kg, tree))}

(* build_index_live: a graph without a ledger, persisted behind the answer; if *)
(* CURRENT has the tree's graph already, the served one is kept.               *)
ServePipeline(s) ==
  IF tree = disk.graph
  THEN AdoptThenWarm(IF s.touched THEN Moved([s EXCEPT !.touched = FALSE]) ELSE s)
  ELSE {Spawned([Retire(s) EXCEPT !.kg = tree], "persisting", tree)}

(* What a pass over the change can do: nothing changed, only stamps moved, the *)
(* overlay takes it, or the pipeline does, behind a tick or within a query.    *)
Refreshed(s, background) ==
  IF tree = s.kg /\ ~s.touched THEN {s}
  ELSE IF tree = s.kg THEN {Spawned(s, "canonicalizing", {})}
  ELSE ServeOverlay(s) \cup (IF background THEN {Spawned(s, "rebuilding", {})} ELSE ServePipeline(s))

(*---------------------------- the daemon's handlers -------------------------*)

Handles(next) ==
  /\ d' = next
  /\ UNCHANGED <<mode, tree, disk, calm, faults>>

(* The pulse between requests takes the dirt; the burst is not debounced yet,  *)
(* or a committer is at work.                                                  *)
Tick ==
  /\ ~d.waiting
  /\ \E s \in Advanced :
       Handles(IF s.dirty THEN PreemptWarm([s EXCEPT !.dirty = FALSE, !.dirtySince = TRUE]) ELSE s)

(* The pulse that finds the burst over builds it.                              *)
TickServes ==
  /\ ~d.waiting /\ d.dirtySince /\ ~d.dirty
  /\ \E s \in Advanced :
       /\ ~s.dirty /\ ~CommitterBusy(s)
       /\ \E next \in Refreshed([s EXCEPT !.dirtySince = FALSE], TRUE) : Handles(next)

(* The pulse that finds the hourly reconcile due.                              *)
TickReconciles ==
  /\ "reconcile" \in mode.events /\ ~d.waiting
  /\ \E s \in Advanced :
       /\ ~s.dirty /\ ~s.dirtySince /\ ~CommitterBusy(s)
       /\ s.run # None => s.run.pc = "done"
       /\ Handles([s EXCEPT !.job = [NoJob EXCEPT !.kind = "rebuilding", !.pc = "running", !.reconcile = TRUE]])

(* ensure_fresh for a tool call, when no committer holds it up: nothing is     *)
(* dirty, or a change of stamps is put off behind the committer at work.       *)
Query ==
  /\ "query" \in mode.events /\ ~d.waiting
  /\ \E s \in Advanced :
       /\ s.job.kind = "rebuilding" => s.job.reconcile /\ ~s.dirty
       /\ s.dirty /\ CommitterBusy(s) => tree = s.kg
       /\ \E next \in IF ~s.dirty \/ (CommitterBusy(s) /\ s.touched) THEN {s}
                      ELSE Refreshed([s EXCEPT !.dirty = FALSE], FALSE) : Handles(next)

(* ... when it first waits for a rebuild, or for the committer of the graph it *)
(* is about to replace, ...                                                    *)
QueryWaits ==
  /\ "query" \in mode.events /\ ~d.waiting
  /\ \E s \in Advanced :
       \/ /\ s.job.kind = "rebuilding" /\ (~s.job.reconcile \/ s.dirty)
          /\ Handles([s EXCEPT !.waiting = TRUE])
       \/ /\ s.job.kind \in {"canonicalizing", "persisting"} /\ s.dirty /\ tree # s.kg
          /\ Handles([s EXCEPT !.waiting = TRUE, !.dirty = FALSE])

(* ... and what it does then.  A canonicalization is joined for its end alone. *)
QueryResumes ==
  LET a == [d EXCEPT !.waiting = FALSE]
      joined == IF d.job.kind = "canonicalizing" THEN {NoMoreJob(a)}
                ELSE Then(ReapPersist(a), ReapRebuilding)
  IN /\ d.waiting /\ d.job.pc # "running"
     /\ \E s \in joined :
          \E next \in IF d.job.kind # "rebuilding" THEN Refreshed(s, FALSE)
                     ELSE IF s.dirty THEN Refreshed([s EXCEPT !.dirty = FALSE], FALSE)
                     ELSE {s} : Handles(next)

(* The index tool waits for every committer, commits, and retires the tier; no *)
(* adoption and no warm is asked for here.                                     *)
IndexTool ==
  /\ "index" \in mode.events /\ ~d.waiting /\ d.job.pc # "running"
  /\ \E s \in Then(Then(ReapPersist(d), ReapCanonicalizing), ReapRebuilding) :
       LET a == IF tree = disk.graph /\ ~s.touched THEN s ELSE Moved([s EXCEPT !.touched = FALSE])
       IN d' = Retire([a EXCEPT !.kg = tree])
  /\ disk' = [disk EXCEPT !.graph = tree]
  /\ UNCHANGED <<mode, tree, calm, faults>>

(*--------------------------------- the threads ------------------------------*)

Fails(who) == Cardinality(faults) < mode.faults /\ who \notin faults /\ faults' = faults \cup {who}

(* A committer ends.  A persist commits the graph it was given, the others what*)
(* they read of the tree; the tier of the prior generation is carried along.   *)
JobEnds ==
  LET graph == IF d.job.kind = "persisting" THEN d.job.graph ELSE tree
      same  == d.job.reconcile /\ tree = disk.graph /\ ~d.touched
      ended == [d EXCEPT !.touched = @ /\ d.job.kind # "rebuilding",
                         !.job.pc = "ok", !.job.graph = {},
                         !.job.reused = same \/ (d.job.kind = "canonicalizing" /\ tree = disk.graph)]
  IN /\ d.job.pc = "running"
     /\ disk' = [disk EXCEPT !.graph = graph]
     /\ d' = IF same THEN ended ELSE Moved(ended)
     /\ UNCHANGED <<mode, tree, calm, faults>>

JobFails ==
  /\ d.job.pc = "running" /\ Fails("job")
  /\ d' = [d EXCEPT !.job.pc = "failed"]
  /\ UNCHANGED <<mode, tree, disk, calm>>

Over(completed) ==
  [pc |-> "done", here |-> FALSE, cancel |-> FALSE, completed |-> completed, preemptible |-> FALSE]

(* A warm resolves CURRENT when it starts, and writes where that generation is.*)
WarmStarts ==
  /\ d.run # None /\ d.run.pc = "spawned"
  /\ d' = [d EXCEPT !.run.pc = "running"]
  /\ UNCHANGED <<mode, tree, disk, calm, faults>>

WarmEnds ==
  /\ d.run # None /\ d.run.pc = "running"
  /\ d' = [d EXCEPT !.run = Over(TRUE)]
  /\ disk' = [disk EXCEPT !.base = IF d.run.here THEN disk.graph ELSE @]
  /\ UNCHANGED <<mode, tree, calm, faults>>

(* The next phase boundary after the daemon asked the warm to stop.            *)
WarmStops ==
  /\ d.run # None /\ d.run.pc = "running" /\ d.run.cancel
  /\ d' = [d EXCEPT !.run = Over(FALSE)]
  /\ UNCHANGED <<mode, tree, disk, calm, faults>>

(* A failed warm reports itself completed.                                     *)
WarmFails ==
  /\ d.run # None /\ d.run.pc = "running" /\ Fails("warm")
  /\ d' = [d EXCEPT !.run = Over(TRUE)]
  /\ UNCHANGED <<mode, tree, disk, calm>>

BootWarmEnds ==
  /\ d.boot \in {"running", "elsewhere"}
  /\ d' = [d EXCEPT !.boot = "done"]
  /\ disk' = [disk EXCEPT !.base = IF d.boot = "running" THEN disk.graph ELSE @]
  /\ UNCHANGED <<mode, tree, calm, faults>>

(* An adoption reconciles whatever tier it finds, unless there is none or too  *)
(* much has changed since; an update may leave a tier that wants compaction.   *)
TaskEnds ==
  /\ d.task # None /\ d.task.pc = "running"
  /\ d' \in IF d.task.kind = "update"
            THEN {[d EXCEPT !.task.pc = "ready", !.task.compact = @ \/ c] : c \in {FALSE, "compact" \in mode.events}}
            ELSE (IF disk.base # None
                  THEN {[d EXCEPT !.task.pc = "ready", !.task.rows = d.task.graph, !.task.graph = {}]} ELSE {})
                 \cup (IF disk.base # disk.graph THEN {[d EXCEPT !.task.pc = "declined"]} ELSE {})
  /\ UNCHANGED <<mode, tree, disk, calm, faults>>

TaskPanics ==
  /\ d.task # None /\ d.task.pc = "running" /\ Fails("task")
  /\ d' = [d EXCEPT !.task.pc = "declined"]
  /\ UNCHANGED <<mode, tree, disk, calm>>

(*------------------------------- edits and clocks ---------------------------*)

(* An edit that falls into a wait of the daemon counts as made after it.       *)
Edit ==
  /\ ~calm /\ ~d.waiting
  /\ \E x \in Syms : tree' = IF x \in tree THEN tree \ {x} ELSE tree \cup {x}
  /\ d' = [d EXCEPT !.dirty = TRUE]
  /\ UNCHANGED <<mode, disk, calm, faults>>

(* A save that changes nothing the extraction sees.                            *)
Touch ==
  /\ "touch" \in mode.events /\ ~calm /\ ~d.waiting
  /\ d' = [d EXCEPT !.dirty = TRUE, !.touched = TRUE]
  /\ UNCHANGED <<mode, tree, disk, calm, faults>>

Calm ==
  /\ "calm" \in mode.events /\ ~calm /\ calm' = TRUE
  /\ UNCHANGED <<mode, tree, disk, d, faults>>

(* Five seconds without a commit; two minutes since the warm was asked for.    *)
Quiet ==
  /\ ~d.quiet /\ d' = [d EXCEPT !.quiet = TRUE]
  /\ UNCHANGED <<mode, tree, disk, calm, faults>>

Deadline ==
  /\ "deadline" \in mode.events /\ d.pending /\ ~d.overdue /\ d' = [d EXCEPT !.overdue = TRUE]
  /\ UNCHANGED <<mode, tree, disk, calm, faults>>

Next ==
  \/ Tick \/ TickServes \/ TickReconciles \/ Query \/ QueryWaits \/ QueryResumes \/ IndexTool
  \/ JobEnds \/ JobFails \/ WarmStarts \/ WarmEnds \/ WarmStops \/ WarmFails
  \/ BootWarmEnds \/ TaskEnds \/ TaskPanics
  \/ Edit \/ Touch \/ Calm \/ Quiet \/ Deadline

Spec == Init /\ [][Next]_vars

(* The pulse keeps coming, threads end, the clock runs; calls and edits need   *)
(* not.                                                                        *)
Fairness ==
  /\ WF_vars(Tick) /\ WF_vars(TickServes) /\ WF_vars(QueryResumes)
  /\ WF_vars(JobEnds) /\ WF_vars(WarmStarts) /\ WF_vars(WarmEnds) /\ WF_vars(BootWarmEnds)
  /\ WF_vars(TaskEnds) /\ WF_vars(Quiet) /\ WF_vars(Deadline)

FairSpec == Spec /\ Fairness

(*--------------------------------- properties -------------------------------*)

(* The shape of the state, and what keeps it in one piece: a tier is installed *)
(* or with a task, never both, and a result to discard is a task's.            *)
TypeOK ==
  /\ mode \in Modes /\ tree \in Graphs /\ calm \in BOOLEAN /\ faults \subseteq {"warm", "job", "task"}
  /\ disk \in [graph : Graphs, base : Graphs \cup {None}]
  /\ d.kg \in Graphs /\ d.run \in Runs \cup {None} /\ d.boot \in {"none", "running", "elsewhere", "done"}
  /\ d.live \in Tiers \cup {None} /\ d.task \in Tasks \cup {None}
  /\ d.live = None \/ d.task = None
  /\ d.discard => d.task # None
  /\ d.waiting => d.job # NoJob

(* LIVE_ANN_ATTEMPTS_PER_GENERATION bounds every class of decline: between two *)
(* commits, and without a success, the tier is judged at most twice, however   *)
(* many warms re-arm the question.                                             *)
LatchBudget == d.declines <= Budget

(* Law 5 of the lifecycle and the comment on retire_live_ann_for_resync: an    *)
(* installed tier is that of the served graph, whatever replaced the graph.    *)
LiveTierExact == d.live # None => d.live.rows = d.kg

(* The same but for churn that the early return of the retirement left queued; *)
(* and the tier is in one place, as TypeOK says.                               *)
LiveTierExactUnlessStale == TypeOK /\ (~d.stale => LiveTierExact)

HasTier == disk.base = disk.graph \/ (d.live # None /\ d.live.rows = d.kg)

(* Once the edits are over a corpus above the floor gets its tier, adopted or  *)
(* warmed, through declines, discards, preemptions and carried-over requests.  *)
EventuallyTier == (mode.big /\ calm) ~> (HasTier \/ "warm" \in faults \/ d.stale)

(* warm_deadline: a warm that stays asked for is started, however the saves    *)
(* come.                                                                       *)
DeadlineForces == (~mode.big /\ d.pending /\ disk.base # None) ~> (~d.pending \/ disk.base = disk.graph)

(* The comment on WarmRun: a forced warm cannot be preempted, so a save burst  *)
(* cannot starve the tier forever.                                             *)
SavesDontStarve ==
  (~mode.big /\ d.pending /\ disk.base # None)
    ~> \/ disk.base = disk.graph
       \/ d.run # None /\ (d.run.completed \/ (d.run.pc # "done" /\ ~d.run.preemptible))
===============================================================================
