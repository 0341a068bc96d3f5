------------------------ MODULE WarmLifecycleProofs ------------------------
(***************************************************************************)
(* The warm lifecycle, for every set of symbols and every case: the tier   *)
(* is judged at most Budget times between two commits, and an installed    *)
(* live tier is that of the served graph unless queued churn outlived the  *)
(* graph it was of.                                                        *)
(*                                                                         *)
(* A handler is a composition of functions from daemon to daemon, and so   *)
(* is its proof: Good is what every function keeps, with one lemma for     *)
(* each, Keeps; the fields the live tier has nothing to do with are left   *)
(* aside at once by Same.  Two things make LiveTierExactUnlessStale        *)
(* inductive: what a task in flight will end in, once the queued churn is  *)
(* applied to it, is the served graph; and the queued churn is consistent  *)
(* with that graph even when there is nothing to apply it to, so that an   *)
(* adoption of the graph may start over it.                                *)
(***************************************************************************)
EXTENDS WarmLifecycle, TLAPS

Jobs == [kind : {"none", "persisting", "canonicalizing", "rebuilding"}, pc : {"running", "ok", "failed"},
         graph : Graphs, reused : BOOLEAN, reconcile : BOOLEAN]
Entries == {"none", "added", "removed"}

\* The fields of the daemon.
Daemons ==
  [kg : Graphs, job : Jobs, run : Runs \cup {None}, boot : {"none", "running", "elsewhere", "done"},
   pending : BOOLEAN, overdue : BOOLEAN, quiet : BOOLEAN,
   live : Tiers \cup {None}, task : Tasks \cup {None}, discard : BOOLEAN,
   churn : [Syms -> Entries], latch : Latches \cup {None},
   dirty : BOOLEAN, dirtySince : BOOLEAN, touched : BOOLEAN, waiting : BOOLEAN, stale : BOOLEAN, declines : Nat]

\* A tier is installed or in a task, never both, and never below the floor.
Placed(s) ==
  /\ s.live = None \/ s.task = None
  /\ s.discard => s.task # None
  /\ s.live # None \/ s.task # None \/ s.churn # NoChurn => mode.big

\* The latch counts the declines; a task in flight has an attempt left.
Budgeted(s) ==
  /\ s.latch = None => s.declines = 0
  /\ s.latch # None => s.declines <= s.latch.attempts /\ s.latch.attempts <= Budget
  /\ s.live # None => s.latch = None
  /\ s.task # None /\ s.latch # None => s.latch.attempts < Budget

\* What queued churn makes of a tier, and what a task ends in.
Applied(rows, churn) ==
  (rows \ {x \in Syms : churn[x] = "removed"}) \cup {x \in Syms : churn[x] = "added"}
Result(task) == IF task.kind = "adopt" /\ task.pc = "running" THEN task.graph ELSE task.rows

\* Unless churn outlived its graph: the tier that is installed, or will be, is
\* that of the served graph, and the queued churn leads to that graph.
Exact(s) ==
  ~s.stale =>
    /\ s.live # None => s.live.rows = s.kg /\ s.churn = NoChurn
    /\ s.task # None /\ ~s.discard /\ s.task.pc # "declined" => Applied(Result(s.task), s.churn) = s.kg
    /\ \A x \in Syms : (s.churn[x] = "added" => x \in s.kg) /\ (s.churn[x] = "removed" => x \notin s.kg)

Good(s) == s \in Daemons /\ Placed(s) /\ Budgeted(s) /\ Exact(s)

\* None is apart from what it stands for.
LEMMA Apart ==
  /\ \A r \in Runs : r # None
  /\ \A t \in Tasks : t # None
  /\ \A t \in Tiers : t # None
  /\ \A l \in Latches : l # None
BY WarmAssumption

\* A re-armed latch keeps its count.
LEMMA RearmedGood ==
  ASSUME NEW latch \in Latches \cup {None}
  PROVE  /\ Rearmed(latch) \in Latches \cup {None}
         /\ Rearmed(latch) = None <=> latch = None
         /\ latch # None => Rearmed(latch).attempts = latch.attempts
BY Apart DEF Rearmed, Latches

\* A step that leaves the fields of the live tier alone.
Same(s, t) ==
  /\ t \in Daemons
  /\ t.live = s.live /\ t.task = s.task /\ t.discard = s.discard /\ t.churn = s.churn /\ t.kg = s.kg
  /\ t.stale = s.stale /\ t.declines = s.declines
  /\ t.latch \in Latches \cup {None}
  /\ t.latch = None <=> s.latch = None
  /\ t.latch # None => t.latch.attempts = s.latch.attempts
  /\ t.waiting = s.waiting

\* A function of the daemon keeps it good, and leaves it waiting as it was.
Keeps(s, t) == Good(t) /\ t.waiting = s.waiting

\* Leaving those fields alone keeps the daemon good.
LEMMA SameKeeps ==
  ASSUME NEW s, NEW t, Good(s), Same(s, t)
  PROVE  Keeps(s, t)
BY DEF Good, Same, Placed, Budgeted, Exact, Keeps

\* The warm that is reaped.
LEMMA ReapWarmSame ==
  ASSUME NEW s, Good(s)
  PROVE  Same(s, ReapWarm(s))
<1> DEFINE a == IF s.run # None /\ s.run.pc = "done"
                THEN [s EXCEPT !.run = None, !.latch = IF s.run.completed THEN Rearmed(@) ELSE @]
                ELSE s
<1>0. s \in Daemons /\ s.latch \in Latches \cup {None}
  BY DEF Good, Daemons
<1>1. Same(s, a)
  <2>1. CASE s.run # None /\ s.run.pc = "done"
    <3>1. a = [s EXCEPT !.run = None, !.latch = IF s.run.completed THEN Rearmed(s.latch) ELSE s.latch]
      BY <2>1
    <3> HIDE DEF a
    <3> QED
      BY <1>0, <3>1, RearmedGood, ZenonT(90) DEF Same, Daemons
  <2>2. CASE ~(s.run # None /\ s.run.pc = "done")
    BY <1>0, <2>2 DEF Same
  <2> QED
    BY <2>1, <2>2
<1>2. ReapWarm(s) = IF a.boot = "done" THEN [a EXCEPT !.boot = "none", !.latch = Rearmed(@)] ELSE a
  BY DEF ReapWarm
<1> HIDE DEF a
<1>3. a.latch \in Latches \cup {None} /\ a \in Daemons
  BY <1>1 DEF Same
<1> QED
  BY <1>1, <1>2, <1>3, RearmedGood, ZenonT(90) DEF Same, Daemons

\* The warm's request, its start and its preemption.
LEMMA MaybeSpawnWarmSame ==
  ASSUME NEW s, Good(s)
  PROVE  Same(s, MaybeSpawnWarm(s))
<1> DEFINE a == ReapWarm(s)
           run == [pc |-> "spawned", here |-> TRUE, cancel |-> FALSE, completed |-> FALSE,
                   preemptible |-> disk.base = None \/ ~a.overdue]
<1>1. Same(s, s)
  BY DEF Same, Good, Daemons
<1>2. Same(s, a)
  BY ReapWarmSame
<1>3. run \in Runs
  BY DEF Runs
<1> HIDE DEF a, run
<1>4. Same(s, [a EXCEPT !.pending = FALSE, !.overdue = FALSE, !.run = run])
  BY <1>2, <1>3, ZenonT(90) DEF Same, Daemons
<1> QED
  BY <1>1, <1>2, <1>4 DEF MaybeSpawnWarm, a, run

\* A request for a warm keeps the tier.
LEMMA RequestWarmKeeps ==
  ASSUME NEW s, Good(s)
  PROVE  Keeps(s, RequestWarm(s))
<1> DEFINE a == [ReapWarm(s) EXCEPT !.quiet = FALSE, !.pending = TRUE]
<1>1. Same(s, ReapWarm(s))
  BY ReapWarmSame
<1>2. Same(s, a)
  BY <1>1, ZenonT(90) DEF Same, Daemons
<1>3. Keeps(s, a)
  BY <1>2, SameKeeps
<1> HIDE DEF a
<1>4. Keeps(a, MaybeSpawnWarm(a))
  BY <1>3, MaybeSpawnWarmSame, SameKeeps DEF Keeps
<1> QED
  BY <1>3, <1>4 DEF RequestWarm, Keeps, a

\* So does the preemption of one.
LEMMA PreemptWarmKeeps ==
  ASSUME NEW s, Good(s)
  PROVE  Keeps(s, PreemptWarm(s))
<1>1. Same(s, s)
  BY DEF Same, Good, Daemons
<1>2. s.run # None => [s.run EXCEPT !.cancel = TRUE] \in Runs
  BY DEF Good, Daemons, Runs
<1>3. s.run # None => Same(s, [s EXCEPT !.run.cancel = TRUE, !.pending = TRUE])
  BY <1>1, <1>2 DEF Same, Daemons
<1> QED
  BY <1>1, <1>3, SameKeeps DEF PreemptWarm

-----------------------------------------------------------------------------
\* Churn that leads from a graph to the served one is consistent with it.
LEMMA AppliedFacts ==
  ASSUME NEW rows \in Graphs, NEW churn \in [Syms -> Entries]
  PROVE  /\ Applied(rows, churn) \in Graphs
         /\ \A x \in Syms : x \in Applied(rows, churn) <=> churn[x] = "added" \/ (x \in rows /\ churn[x] # "removed")
         /\ Applied(rows, NoChurn) = rows
BY DEF Applied, Graphs, NoChurn, Entries

\* The served graph moves with its churn: the tier, the task or the queue take
\* the churn up.
LEMMA SpawnUpdateKeeps ==
  ASSUME NEW s \in Daemons, NEW old \in Graphs, NEW churn \in [Syms -> Entries],
         Good([s EXCEPT !.kg = old]), ~s.stale => Applied(old, churn) = s.kg
  PROVE  Keeps(s, SpawnUpdate(s, churn))
<1> DEFINE p == [s EXCEPT !.kg = old]
<1>1. /\ p.live = s.live /\ p.task = s.task /\ p.discard = s.discard /\ p.churn = s.churn /\ p.kg = old
      /\ p.stale = s.stale /\ p.declines = s.declines /\ p.latch = s.latch
  BY DEF Daemons
<1>2. Good(p)
  OBVIOUS
<1> HIDE DEF p
<1>3. Placed(s) /\ Budgeted(s)
  BY <1>1, <1>2 DEF Good, Placed, Budgeted
<1>4. s.kg \in Graphs /\ s.churn \in [Syms -> Entries] /\ s.stale \in BOOLEAN
  BY DEF Daemons
<1>5. CASE s.live # None
  <2> DEFINE rows == (s.live.rows \ {x \in Syms : churn[x] = "removed"}) \cup {x \in s.kg : churn[x] = "added"}
             task == [kind |-> "update", pc |-> "running", graph |-> {}, compact |-> s.live.compact, rows |-> rows]
             t == [s EXCEPT !.live = None, !.task = task]
  <2>1. SpawnUpdate(s, churn) = t
    BY <1>5 DEF SpawnUpdate
  <2>2. s.live \in Tiers
    BY <1>5 DEF Daemons
  <2>3. rows \in Graphs
    BY <1>4, <2>2 DEF Tiers, Graphs
  <2>4. ~s.stale => rows = s.kg /\ s.churn = NoChurn
    <3> SUFFICES ASSUME ~s.stale PROVE rows = s.kg /\ s.churn = NoChurn
      OBVIOUS
    <3>1. s.live.rows = old /\ s.churn = NoChurn /\ Applied(old, churn) = s.kg
      BY <1>1, <1>2, <1>5 DEF Good, Exact
    <3>2. \A x \in Syms : x \in s.kg <=> churn[x] = "added" \/ (x \in old /\ churn[x] # "removed")
      BY <3>1, AppliedFacts
    <3>3. \A x \in Syms : x \in rows <=> x \in s.kg
      BY <1>4, <3>1, <3>2 DEF Graphs
    <3> QED
      BY <1>4, <2>3, <3>1, <3>3 DEF Graphs
  <2> HIDE DEF rows
  <2>5. task \in Tasks
    BY <2>2, <2>3 DEF Tasks, Tiers, Graphs
  <2>6. task.kind = "update" /\ task.pc = "running" /\ task.rows = rows
    OBVIOUS
  <2> HIDE DEF task
  <2>7. /\ t \in Daemons /\ t.live = None /\ t.task = task /\ t.discard = s.discard /\ t.churn = s.churn /\ t.kg = s.kg
        /\ t.stale = s.stale /\ t.declines = s.declines /\ t.latch = s.latch /\ t.waiting = s.waiting
    BY <2>5 DEF Daemons
  <2> HIDE DEF t
  <2>8. task # None /\ ~s.discard /\ mode.big
    BY <1>3, <1>5, <2>5, Apart DEF Placed
  <2>9. Placed(t) /\ Budgeted(t)
    BY <1>3, <1>5, <2>7, <2>8 DEF Placed, Budgeted
  <2>10. Exact(t)
    <3>1. ~s.stale => Applied(Result(task), NoChurn) = s.kg
      BY <2>3, <2>4, <2>6, AppliedFacts DEF NoChurn, Entries, Result
    <3> QED
      BY <2>4, <2>7, <3>1 DEF Exact, NoChurn
  <2> QED
    BY <2>1, <2>7, <2>9, <2>10 DEF Keeps, Good
<1>6. CASE s.live = None /\ mode.big
  <2> DEFINE merged == [x \in Syms |-> IF churn[x] = "none" THEN s.churn[x] ELSE churn[x]]
             t == [s EXCEPT !.churn = merged]
  <2>1. SpawnUpdate(s, churn) = t
    BY <1>6 DEF SpawnUpdate
  <2>2. merged \in [Syms -> Entries]
    BY <1>4
  <2>3. /\ t \in Daemons /\ t.live = s.live /\ t.task = s.task /\ t.discard = s.discard /\ t.churn = merged /\ t.kg = s.kg
        /\ t.stale = s.stale /\ t.declines = s.declines /\ t.latch = s.latch /\ t.waiting = s.waiting
    BY <2>2 DEF Daemons
  <2> HIDE DEF t
  <2>4. Placed(t) /\ Budgeted(t)
    BY <1>3, <1>6, <2>3 DEF Placed, Budgeted
  <2>5. ASSUME ~s.stale
        PROVE  /\ s.task # None /\ ~s.discard /\ s.task.pc # "declined" => Applied(Result(s.task), merged) = s.kg
               /\ \A x \in Syms : (merged[x] = "added" => x \in s.kg) /\ (merged[x] = "removed" => x \notin s.kg)
    <3>1. \A x \in Syms : x \in s.kg <=> churn[x] = "added" \/ (x \in old /\ churn[x] # "removed")
      BY <2>5, AppliedFacts
    <3>2. \A x \in Syms : (s.churn[x] = "added" => x \in old) /\ (s.churn[x] = "removed" => x \notin old)
      BY <1>1, <1>2, <2>5 DEF Good, Exact
    <3>3. \A x \in Syms : (merged[x] = "added" => x \in s.kg) /\ (merged[x] = "removed" => x \notin s.kg)
      BY <1>4, <3>1, <3>2 DEF Entries
    <3>4. ASSUME s.task # None, ~s.discard, s.task.pc # "declined"
          PROVE  Applied(Result(s.task), merged) = s.kg
      <4>1. Result(s.task) \in Graphs
        BY <3>4 DEF Result, Daemons, Tasks
      <4>2. Applied(Result(s.task), s.churn) = old
        BY <1>1, <1>2, <2>5, <3>4 DEF Good, Exact
      <4>3. \A x \in Syms : x \in old <=> s.churn[x] = "added" \/ (x \in Result(s.task) /\ s.churn[x] # "removed")
        BY <1>4, <4>1, <4>2, AppliedFacts
      <4>4. /\ Applied(Result(s.task), merged) \in Graphs
            /\ \A x \in Syms : x \in Applied(Result(s.task), merged)
                                 <=> merged[x] = "added" \/ (x \in Result(s.task) /\ merged[x] # "removed")
        BY <2>2, <4>1, AppliedFacts
      <4>5. \A x \in Syms : x \in Applied(Result(s.task), merged) <=> x \in s.kg
        BY <1>4, <3>1, <4>3, <4>4 DEF Entries
      <4> QED
        BY <1>4, <4>4, <4>5 DEF Graphs
    <3> QED
      BY <3>3, <3>4
  <2>6. Exact(t)
    BY <1>6, <2>3, <2>5 DEF Exact
  <2> QED
    BY <2>1, <2>3, <2>4, <2>6 DEF Keeps, Good
<1>7. CASE s.live = None /\ ~mode.big
  <2>1. SpawnUpdate(s, churn) = s
    BY <1>7 DEF SpawnUpdate
  <2>2. Exact(s)
    BY <1>3, <1>7 DEF Placed, Exact, NoChurn
  <2> QED
    BY <1>3, <2>1, <2>2 DEF Keeps, Good
<1> QED
  BY <1>5, <1>6, <1>7

-----------------------------------------------------------------------------
\* An adoption is tried on the served graph, while the latch has an attempt left.
LEMMA SpawnAdoptKeeps ==
  ASSUME NEW s, Good(s)
  PROVE  Keeps(s, SpawnAdopt(s))
<1>0. s \in Daemons /\ Placed(s) /\ Budgeted(s) /\ Exact(s)
  BY DEF Good
<1>1. Keeps(s, s)
  BY DEF Keeps
<1>2. CASE s.live = None /\ s.task = None /\ ~mode.big
  <2> DEFINE latch == IF s.latch = None THEN [attempts |-> Budget, rearmed |-> FALSE] ELSE s.latch
             t == [s EXCEPT !.latch = latch]
  <2>1. latch \in Latches /\ latch # None /\ (s.latch = None => latch.attempts = Budget) /\ (s.latch # None => latch = s.latch)
    BY <1>0, Apart DEF Daemons, Latches, Budget
  <2>2. /\ t \in Daemons /\ t.live = s.live /\ t.task = s.task /\ t.discard = s.discard /\ t.churn = s.churn /\ t.kg = s.kg
        /\ t.stale = s.stale /\ t.declines = s.declines /\ t.latch = latch /\ t.waiting = s.waiting
    BY <1>0, <2>1, ZenonT(90) DEF Daemons
  <2>3. Placed(t) /\ Exact(t)
    BY <1>0, <2>2 DEF Placed, Exact
  <2>4. Budgeted(t)
    BY <1>0, <1>2, <2>1, <2>2 DEF Budgeted, Budget
  <2>5. Keeps(s, t)
    BY <2>2, <2>3, <2>4 DEF Keeps, Good
  <2> QED
    BY <1>1, <1>2, <2>5 DEF SpawnAdopt
<1>3. CASE s.live = None /\ s.task = None /\ mode.big /\ MayTry(s)
  <2> DEFINE task == [kind |-> "adopt", pc |-> "running", graph |-> s.kg, compact |-> FALSE, rows |-> {}]
             t == [s EXCEPT !.latch = Latched(s), !.task = task]
  <2>1. /\ Latched(s) \in Latches \cup {None} /\ (Latched(s) = None <=> s.latch = None)
        /\ s.latch # None => Latched(s).attempts = s.latch.attempts
    BY <1>0, Apart, ZenonT(90) DEF Latched, Latches, Daemons
  <2>2. task \in Tasks /\ task # None /\ Result(task) = s.kg
    BY <1>0, Apart DEF Tasks, Daemons, Graphs, Result
  <2> HIDE DEF task
  <2>3. /\ t \in Daemons /\ t.live = s.live /\ t.task = task /\ t.discard = s.discard /\ t.churn = s.churn /\ t.kg = s.kg
        /\ t.stale = s.stale /\ t.declines = s.declines /\ t.latch = Latched(s) /\ t.waiting = s.waiting
    BY <1>0, <2>1, <2>2, ZenonT(90) DEF Daemons
  <2>4. Placed(t) /\ Budgeted(t)
    BY <1>0, <1>3, <2>1, <2>3 DEF Placed, Budgeted, MayTry
  <2>5. ~s.stale => Applied(s.kg, s.churn) = s.kg
    <3> SUFFICES ASSUME ~s.stale PROVE Applied(s.kg, s.churn) = s.kg
      OBVIOUS
    <3>1. s.kg \in Graphs /\ s.churn \in [Syms -> Entries]
      BY <1>0 DEF Daemons
    <3>2. \A x \in Syms : (s.churn[x] = "added" => x \in s.kg) /\ (s.churn[x] = "removed" => x \notin s.kg)
      BY <1>0 DEF Exact
    <3>3. \A x \in Syms : x \in Applied(s.kg, s.churn) <=> x \in s.kg
      BY <3>1, <3>2, AppliedFacts
    <3> QED
      BY <3>1, <3>3, AppliedFacts DEF Graphs
  <2>6. Exact(t)
    BY <1>0, <1>3, <2>2, <2>3, <2>5 DEF Exact
  <2>7. Keeps(s, t)
    BY <2>3, <2>4, <2>6 DEF Keeps, Good
  <2> QED
    BY <1>1, <1>3, <2>7 DEF SpawnAdopt, task
<1> QED
  BY <1>1, <1>2, <1>3 DEF SpawnAdopt

\* A retirement leaves nothing that the next graph could contradict.
LEMMA RetireKeeps ==
  ASSUME NEW s \in Daemons, Placed(s), Budgeted(s)
  PROVE  /\ Keeps(s, Retire(s))
         /\ \A graph \in Graphs : Keeps(s, [Retire(s) EXCEPT !.kg = graph])
<1> DEFINE t == Retire(s)
<1>1. NoChurn \in [Syms -> Entries]
  BY DEF NoChurn, Entries
<1>2. /\ t \in Daemons /\ t.live = None /\ t.task = s.task /\ t.declines = s.declines /\ t.latch = s.latch
      /\ t.waiting = s.waiting /\ t.kg = s.kg
      /\ t.churn = NoChurn \/ (t.churn = s.churn /\ t.stale = TRUE)
      /\ t.task = None \/ t.discard
      /\ t.discard => t.task # None
  <2>1. CASE s.live = None /\ s.task = None
    <3>1. t = [s EXCEPT !.stale = (s.churn # NoChurn)]
      BY <2>1 DEF Retire
    <3> QED
      BY <2>1, <3>1, ZenonT(90) DEF Daemons, Placed
  <2>2. CASE ~(s.live = None /\ s.task = None)
    <3>1. t = [s EXCEPT !.live = None, !.churn = NoChurn, !.stale = FALSE, !.discard = s.discard \/ s.task # None]
      BY <2>2 DEF Retire
    <3>2. NoChurn \in [Syms -> Entries] /\ (s.discard \/ s.task # None) \in BOOLEAN
      BY DEF NoChurn, Entries, Daemons
    <3> HIDE DEF t
    <3> QED
      BY <2>2, <3>1, <3>2, ZenonT(90) DEF Daemons, Placed
  <2> QED
    BY <2>1, <2>2
<1> HIDE DEF t
<1>3. ASSUME NEW u \in Daemons, u.live = None, u.task = t.task, u.declines = t.declines, u.latch = t.latch,
             u.waiting = t.waiting, u.churn = t.churn, u.stale = t.stale, u.discard = t.discard
      PROVE  Keeps(s, u)
  <2>1. Placed(u) /\ Budgeted(u)
    BY <1>2, <1>3 DEF Placed, Budgeted
  <2>2. Exact(u)
    BY <1>2, <1>3 DEF Exact, NoChurn
  <2> QED
    BY <1>2, <1>3, <2>1, <2>2 DEF Keeps, Good
<1>4. Keeps(s, t)
  BY <1>2, <1>3
<1>5. ASSUME NEW graph \in Graphs
      PROVE  Keeps(s, [t EXCEPT !.kg = graph])
  <2> DEFINE u == [t EXCEPT !.kg = graph]
  <2>1. /\ u \in Daemons /\ u.live = None /\ u.task = t.task /\ u.declines = t.declines /\ u.latch = t.latch
        /\ u.waiting = t.waiting /\ u.churn = t.churn /\ u.stale = t.stale /\ u.discard = t.discard
    BY <1>2 DEF Daemons
  <2> HIDE DEF u
  <2>2. Keeps(s, u)
    BY <1>3, <2>1
  <2> QED
    BY <2>2 DEF u
<1> QED
  BY <1>4, <1>5 DEF t

\* A declined task costs an attempt.
LEMMA DeclinedKeeps ==
  ASSUME NEW s, Good(s), s.task # None, ~s.discard, NEW t \in Declined(s)
  PROVE  Keeps(s, t)
<1> DEFINE latch == [rearmed |-> FALSE, attempts |-> 1 + IF s.latch # None THEN s.latch.attempts ELSE 0]
           n == s.declines + 1
           a == [s EXCEPT !.task = None, !.declines = n, !.latch = latch]
<1>0. s \in Daemons /\ Placed(s) /\ Budgeted(s) /\ Exact(s)
  BY DEF Good
<1>1. t = RequestWarm(a)
  BY DEF Declined
<1>2. latch \in Latches /\ latch # None /\ n \in Nat
      /\ n <= latch.attempts /\ latch.attempts <= Budget
  <2>1. s.latch # None => s.latch \in Latches
    BY <1>0 DEF Daemons
  <2>2. latch \in Latches
    BY <2>1 DEF Latches
  <2>3. latch.attempts = 1 + IF s.latch # None THEN s.latch.attempts ELSE 0
    OBVIOUS
  <2> HIDE DEF latch
  <2>4. s.declines \in Nat
    BY <1>0 DEF Daemons
  <2> QED
    BY <1>0, <2>1, <2>2, <2>3, <2>4, Apart DEF Budgeted, Budget, Latches
<1> HIDE DEF latch, n
<1>3. /\ a \in Daemons /\ a.live = s.live /\ a.task = None /\ a.discard = s.discard /\ a.churn = s.churn /\ a.kg = s.kg
      /\ a.stale = s.stale /\ a.declines = n /\ a.latch = latch /\ a.waiting = s.waiting
  BY <1>0, <1>2 DEF Daemons
<1> HIDE DEF a
<1>4. s.live = None
  BY <1>0 DEF Placed
<1>5. Placed(a) /\ Budgeted(a) /\ Exact(a)
  BY <1>0, <1>2, <1>3, <1>4 DEF Placed, Budgeted, Exact
<1>6. Keeps(a, RequestWarm(a))
  BY <1>3, <1>5, RequestWarmKeeps DEF Good
<1> QED
  BY <1>1, <1>3, <1>6 DEF Keeps

\* An installed tier takes the queued churn up.
LEMMA InstalledKeeps ==
  ASSUME NEW s, Good(s), s.task # None, ~s.discard, s.task.pc = "ready", NEW t \in Installed(s)
  PROVE  Keeps(s, t)
<1> DEFINE live == [rows |-> s.task.rows, compact |-> s.task.compact]
           a == [s EXCEPT !.task = None, !.latch = None, !.declines = 0, !.live = live]
           b == [a EXCEPT !.churn = NoChurn]
<1>0. s \in Daemons /\ Placed(s) /\ Budgeted(s) /\ Exact(s)
  BY DEF Good
<1>1. t = IF s.churn = NoChurn THEN a ELSE SpawnUpdate(b, s.churn)
  BY DEF Installed
<1>2. s.task \in Tasks
  BY <1>0 DEF Daemons
<1>3. live \in Tiers /\ live # None /\ live.rows = s.task.rows /\ live.rows \in Graphs
  BY <1>2, Apart DEF Tiers, Tasks
<1> HIDE DEF live
<1>4. /\ a \in Daemons /\ a.live = live /\ a.task = None /\ a.discard = s.discard /\ a.churn = s.churn /\ a.kg = s.kg
      /\ a.stale = s.stale /\ a.declines = 0 /\ a.latch = None /\ a.waiting = s.waiting
  BY <1>0, <1>3 DEF Daemons
<1> HIDE DEF a
<1>5. ~s.stale => Applied(s.task.rows, s.churn) = s.kg
  BY <1>0 DEF Exact, Result
<1>6. mode.big
  BY <1>0 DEF Placed
<1>7. CASE s.churn = NoChurn
  <2>1. ~s.stale => s.task.rows = s.kg
    BY <1>3, <1>5, <1>7, AppliedFacts DEF NoChurn, Entries
  <2>2. Placed(a) /\ Budgeted(a) /\ Exact(a)
    BY <1>3, <1>4, <1>6, <1>7, <2>1 DEF Placed, Budgeted, Exact, NoChurn
  <2> QED
    BY <1>1, <1>4, <1>7, <2>2 DEF Keeps, Good
<1>8. CASE s.churn # NoChurn
  <2> DEFINE p == [b EXCEPT !.kg = live.rows]
  <2>1. /\ b \in Daemons /\ b.kg = s.kg /\ b.stale = s.stale /\ b.waiting = s.waiting
        /\ b.live = live /\ b.task = None /\ b.discard = s.discard /\ b.churn = NoChurn
        /\ b.declines = 0 /\ b.latch = None
    <3>1. NoChurn \in [Syms -> Entries]
      BY DEF NoChurn, Entries
    <3> QED
      BY <1>4, <3>1 DEF Daemons
  <2> HIDE DEF b
  <2>2. /\ p \in Daemons /\ p.kg = live.rows /\ p.stale = s.stale
        /\ p.live = live /\ p.task = None /\ p.discard = s.discard /\ p.churn = NoChurn
        /\ p.declines = 0 /\ p.latch = None
    BY <1>3, <2>1 DEF Daemons
  <2> HIDE DEF p
  <2>3. Good(p)
    BY <1>3, <1>6, <2>2 DEF Good, Placed, Budgeted, Exact, NoChurn
  <2>4. s.churn \in [Syms -> Entries]
    BY <1>0 DEF Daemons
  <2>5. Keeps(b, SpawnUpdate(b, s.churn))
    BY <1>3, <1>5, <2>1, <2>3, <2>4, SpawnUpdateKeeps DEF p
  <2> QED
    BY <1>1, <1>8, <2>1, <2>5 DEF Keeps
<1> QED
  BY <1>7, <1>8

\* A tier task is reaped.
LEMMA ReapLiveKeeps ==
  ASSUME NEW s, Good(s), NEW t \in ReapLive(s)
  PROVE  Keeps(s, t)
<1>1. CASE s.task = None \/ s.task.pc = "running"
  BY <1>1 DEF ReapLive, Keeps
<1>2. CASE s.task # None /\ s.task.pc # "running" /\ s.discard
  <2> DEFINE a == [s EXCEPT !.task = None, !.discard = FALSE]
  <2>1. t = a
    BY <1>2 DEF ReapLive
  <2>2. /\ a \in Daemons /\ a.live = s.live /\ a.task = None /\ a.discard = FALSE /\ a.churn = s.churn /\ a.kg = s.kg
        /\ a.stale = s.stale /\ a.declines = s.declines /\ a.latch = s.latch /\ a.waiting = s.waiting
    BY ZenonT(90) DEF Good, Daemons
  <2> HIDE DEF a
  <2>3. Placed(a) /\ Budgeted(a) /\ Exact(a)
    BY <2>2 DEF Good, Placed, Budgeted, Exact
  <2> QED
    BY <2>1, <2>2, <2>3 DEF Keeps, Good
<1>3. CASE s.task # None /\ s.task.pc # "running" /\ ~s.discard
  BY <1>3, InstalledKeeps, DeclinedKeeps DEF ReapLive
<1> QED
  BY <1>1, <1>2, <1>3

\* A tier that wants compaction goes.
LEMMA CompactKeeps ==
  ASSUME NEW s, Good(s)
  PROVE  Keeps(s, Compact(s))
<1>1. CASE s.live # None /\ s.live.compact
  <2> DEFINE a == [s EXCEPT !.live = None]
  <2>1. /\ a \in Daemons /\ a.live = None /\ a.task = s.task /\ a.discard = s.discard /\ a.churn = s.churn /\ a.kg = s.kg
        /\ a.stale = s.stale /\ a.declines = s.declines /\ a.latch = s.latch /\ a.waiting = s.waiting
    BY DEF Good, Daemons
  <2> HIDE DEF a
  <2>2. Good(a)
    BY <2>1 DEF Good, Placed, Budgeted, Exact
  <2>3. Keeps(a, RequestWarm(a))
    BY <2>2, RequestWarmKeeps
  <2> QED
    BY <1>1, <2>1, <2>3 DEF Compact, Keeps, a
<1>2. CASE ~(s.live # None /\ s.live.compact)
  BY <1>2 DEF Compact, Keeps
<1> QED
  BY <1>1, <1>2

-----------------------------------------------------------------------------
\* The committers: one that is reaped leaves the tier as it was, ...
LEMMA NoMoreJobKeeps ==
  ASSUME NEW s, Good(s)
  PROVE  /\ Keeps(s, NoMoreJob(s))
         /\ \A b \in BOOLEAN : Keeps(s, [NoMoreJob(s) EXCEPT !.dirty = b])
         /\ \A b, c \in BOOLEAN : Keeps(s, [NoMoreJob(s) EXCEPT !.dirty = b, !.dirtySince = c])
<1> DEFINE a == NoMoreJob(s)
<1>1. NoJob \in Jobs
  BY DEF NoJob, Jobs, Graphs
<1>2. Same(s, a)
  BY <1>1 DEF NoMoreJob, Same, Good, Daemons
<1> HIDE DEF a
<1>3. \A b \in BOOLEAN : Same(s, [a EXCEPT !.dirty = b])
  BY <1>2 DEF Same, Daemons
<1>4. ASSUME NEW b \in BOOLEAN, NEW c \in BOOLEAN
      PROVE  Same(s, [a EXCEPT !.dirty = b, !.dirtySince = c])
  BY <1>2, ZenonT(90) DEF Same, Daemons
<1> QED
  BY <1>2, <1>3, <1>4, SameKeeps DEF a

\* ... and one that has committed clears what was held against CURRENT.
LEMMA MovedKeeps ==
  ASSUME NEW s, Good(s)
  PROVE  Keeps(s, Moved(s))
<1> DEFINE run == IF s.run = None \/ s.run.pc = "spawned" THEN s.run ELSE [s.run EXCEPT !.here = FALSE]
           boot == IF s.boot = "running" THEN "elsewhere" ELSE s.boot
           a == [s EXCEPT !.declines = 0, !.latch = None, !.run = run, !.boot = boot]
<1>1. run \in Runs \cup {None} /\ boot \in {"none", "running", "elsewhere", "done"}
  BY DEF Good, Daemons, Runs
<1>2. Moved(s) = a
  BY DEF Moved
<1> HIDE DEF run, boot
<1>3. /\ a \in Daemons /\ a.live = s.live /\ a.task = s.task /\ a.discard = s.discard /\ a.churn = s.churn /\ a.kg = s.kg
      /\ a.stale = s.stale /\ a.declines = 0 /\ a.latch = None /\ a.waiting = s.waiting
  BY <1>1, ZenonT(90) DEF Good, Daemons
<1> HIDE DEF a
<1> QED
  BY <1>2, <1>3 DEF Keeps, Good, Placed, Budgeted, Exact

\* Adoption first, warm second.
LEMMA AdoptThenWarmKeeps ==
  ASSUME NEW s, Good(s), NEW t \in AdoptThenWarm(s)
  PROVE  Keeps(s, t)
<1>1. t = RequestWarm(SpawnAdopt(s))
  BY DEF AdoptThenWarm
<1> QED
  BY <1>1, SpawnAdoptKeeps, RequestWarmKeeps DEF Keeps

\* An adopted generation comes without a ledger: the tier is retired.
LEMMA AdoptCommittedKeeps ==
  ASSUME NEW s, Good(s), disk.graph \in Graphs, NEW t \in AdoptCommitted(s)
  PROVE  Keeps(s, t)
<1> DEFINE a == NoMoreJob(s)
           b == [Retire(a) EXCEPT !.kg = disk.graph]
<1>1. Keeps(s, a)
  BY NoMoreJobKeeps
<1> HIDE DEF a
<1>2. Keeps(a, b)
  BY <1>1, RetireKeeps DEF Keeps, Good
<1>3. t \in AdoptThenWarm(b)
  BY DEF AdoptCommitted, a
<1> HIDE DEF b
<1>4. Keeps(b, t)
  BY <1>2, <1>3, AdoptThenWarmKeeps DEF Keeps
<1> QED
  BY <1>1, <1>2, <1>4 DEF Keeps

\* A reap of any committer.
LEMMA ReapsKeep ==
  ASSUME NEW s, Good(s), disk.graph \in Graphs,
         NEW t \in ReapPersist(s) \cup ReapCanonicalizing(s) \cup ReapRebuilding(s)
  PROVE  Keeps(s, t)
<1>1. Keeps(s, s)
  BY DEF Keeps
<1>2. Keeps(s, NoMoreJob(s)) /\ Keeps(s, [NoMoreJob(s) EXCEPT !.dirty = TRUE])
      /\ Keeps(s, [NoMoreJob(s) EXCEPT !.dirty = TRUE, !.dirtySince = TRUE])
  BY NoMoreJobKeeps
<1>3. \A u \in AdoptThenWarm(NoMoreJob(s)) : Keeps(s, u)
  BY <1>2, AdoptThenWarmKeeps DEF Keeps
<1>4. \A u \in AdoptCommitted(s) : Keeps(s, u)
  BY AdoptCommittedKeeps
<1> QED
  BY <1>1, <1>2, <1>3, <1>4 DEF ReapPersist, ReapCanonicalizing, ReapRebuilding

\* The work at the start of a call, in its order.
LEMMA AdvancedKeeps ==
  ASSUME Good(d), disk.graph \in Graphs, NEW t \in Advanced
  PROVE  Keeps(d, t)
<1>1. PICK a : a = MaybeSpawnWarm(ReapWarm(d))
  OBVIOUS
<1>2. Keeps(d, a)
  <2>1. Keeps(d, ReapWarm(d))
    BY ReapWarmSame, SameKeeps
  <2> QED
    BY <1>1, <2>1, MaybeSpawnWarmSame, SameKeeps DEF Keeps
<1>3. Advanced = Then(Then(Then(Then({a}, ReapPersist), AdvanceTier), ReapCanonicalizing), ReapRebuilding)
  BY <1>1 DEF Advanced
<1>4. PICK b, c, e : b \in ReapPersist(a) /\ c \in AdvanceTier(b) /\ e \in ReapCanonicalizing(c) /\ t \in ReapRebuilding(e)
  BY <1>3 DEF Then
<1>5. Keeps(d, b)
  BY <1>2, <1>4, ReapsKeep DEF Keeps
<1>6. Keeps(d, c)
  <2>1. PICK f : f \in ReapLive(b) /\ c = SpawnAdopt(Compact(f))
    BY <1>4 DEF AdvanceTier
  <2>2. Keeps(d, f)
    BY <1>5, <2>1, ReapLiveKeeps DEF Keeps
  <2> QED
    BY <2>1, <2>2, CompactKeeps, SpawnAdoptKeeps DEF Keeps
<1>7. Keeps(d, e)
  BY <1>4, <1>6, ReapsKeep DEF Keeps
<1> QED
  BY <1>4, <1>7, ReapsKeep DEF Keeps

-----------------------------------------------------------------------------
\* The ledger of a change leads from the old graph to the new one.
LEMMA LedgerLeads ==
  ASSUME NEW old \in Graphs, NEW new \in Graphs
  PROVE  Ledger(old, new) \in [Syms -> Entries] /\ Applied(old, Ledger(old, new)) = new
<1>1. Ledger(old, new) \in [Syms -> Entries]
  BY DEF Ledger, Entries
<1>2. \A x \in Syms : x \in Applied(old, Ledger(old, new)) <=> x \in new
  BY <1>1, AppliedFacts DEF Ledger
<1> QED
  BY <1>1, <1>2, AppliedFacts DEF Graphs

\* A committer that is started.
LEMMA SpawnedSame ==
  ASSUME NEW s, Good(s), NEW kind \in {"persisting", "canonicalizing", "rebuilding"}, NEW graph \in Graphs
  PROVE  Same(s, Spawned(s, kind, graph))
<1> DEFINE job == [NoJob EXCEPT !.kind = kind, !.pc = "running", !.graph = graph]
<1>1. job \in Jobs
  BY DEF NoJob, Jobs, Graphs
<1>2. Spawned(s, kind, graph) = [s EXCEPT !.touched = FALSE, !.job = job]
  BY DEF Spawned
<1> HIDE DEF job
<1> QED
  BY <1>1, <1>2, ZenonT(90) DEF Same, Good, Daemons

\* The committer of a graph that is about to be served.
LEMMA SpawnedBehind ==
  ASSUME NEW s, Good(s), NEW g \in Graphs, NEW u, u = Spawned([s EXCEPT !.kg = g], "persisting", g)
  PROVE  /\ u \in Daemons /\ u.kg = g /\ u.stale = s.stale /\ u.waiting = s.waiting
         /\ Same(s, [u EXCEPT !.kg = s.kg])
<1> DEFINE job == [NoJob EXCEPT !.kind = "persisting", !.pc = "running", !.graph = g]
           a == [s EXCEPT !.kg = g]
<1>1. job \in Jobs
  BY DEF NoJob, Jobs, Graphs
<1>2. u = [a EXCEPT !.touched = FALSE, !.job = job]
  BY DEF Spawned
<1> HIDE DEF job
<1>3. /\ a \in Daemons /\ a.kg = g /\ a.stale = s.stale /\ a.waiting = s.waiting
      /\ a.live = s.live /\ a.task = s.task /\ a.discard = s.discard /\ a.churn = s.churn
      /\ a.declines = s.declines /\ a.latch = s.latch
  BY DEF Good, Daemons
<1> HIDE DEF a
<1>4. /\ u \in Daemons /\ u.kg = g /\ u.stale = s.stale /\ u.waiting = s.waiting
      /\ u.live = s.live /\ u.task = s.task /\ u.discard = s.discard /\ u.churn = s.churn
      /\ u.declines = s.declines /\ u.latch = s.latch
  BY <1>1, <1>2, <1>3, ZenonT(90) DEF Daemons
<1> QED
  BY <1>4 DEF Same, Good, Daemons

\* What a refresh can come to keeps the tier with the graph.
LEMMA RefreshedKeeps ==
  ASSUME NEW s, Good(s), tree \in Graphs, NEW background \in BOOLEAN, NEW t \in Refreshed(s, background)
  PROVE  Keeps(s, t)
<1>1. CASE t = s
  BY <1>1 DEF Keeps
<1>2. CASE t \in {Spawned(s, "canonicalizing", {}), Spawned(s, "rebuilding", {})}
  <2>1. {} \in Graphs
    BY DEF Graphs
  <2> QED
    BY <1>2, <2>1, SpawnedSame, SameKeeps
<1>3. CASE t \in ServeOverlay(s)
  <2>1. PICK u : u = Spawned([s EXCEPT !.kg = tree], "persisting", tree)
    OBVIOUS
  <2>2. t = SpawnUpdate(u, Ledger(s.kg, tree))
    BY <1>3, <2>1 DEF ServeOverlay
  <2>3. /\ u \in Daemons /\ u.kg = tree /\ u.stale = s.stale /\ u.waiting = s.waiting
        /\ Same(s, [u EXCEPT !.kg = s.kg]) /\ s.kg \in Graphs
    BY <2>1, SpawnedBehind DEF Good, Daemons
  <2>4. Good([u EXCEPT !.kg = s.kg])
    BY <2>3, SameKeeps DEF Keeps
  <2>5. Keeps(u, t)
    BY <2>2, <2>3, <2>4, LedgerLeads, SpawnUpdateKeeps
  <2> QED
    BY <2>3, <2>5 DEF Keeps
<1>4. CASE t \in ServePipeline(s)
  <2>1. CASE tree = disk.graph
    <3>1. Keeps(s, Moved([s EXCEPT !.touched = FALSE]))
      <4>1. Same(s, [s EXCEPT !.touched = FALSE])
        BY ZenonT(90) DEF Same, Good, Daemons
      <4> QED
        BY <4>1, SameKeeps, MovedKeeps DEF Keeps
    <3>2. Keeps(s, s)
      BY DEF Keeps
    <3>3. PICK a : t \in AdoptThenWarm(a) /\ Keeps(s, a)
      BY <1>4, <2>1, <3>1, <3>2 DEF ServePipeline
    <3> QED
      BY <3>3, AdoptThenWarmKeeps DEF Keeps
  <2>2. CASE tree # disk.graph
    <3> DEFINE a == [Retire(s) EXCEPT !.kg = tree]
    <3>1. Keeps(s, a)
      BY RetireKeeps DEF Good
    <3>2. t = Spawned(a, "persisting", tree)
      BY <1>4, <2>2 DEF ServePipeline
    <3> HIDE DEF a
    <3> QED
      BY <3>1, <3>2, SpawnedSame, SameKeeps DEF Keeps
  <2> QED
    BY <2>1, <2>2
<1> QED
  BY <1>1, <1>2, <1>3, <1>4 DEF Refreshed

-----------------------------------------------------------------------------
\* The inductive invariant: the daemon is good, and one that waits does so for
\* a committer.
WarmInv ==
  /\ mode \in Modes /\ tree \in Graphs /\ calm \in BOOLEAN /\ faults \subseteq {"warm", "job", "task"}
  /\ disk \in [graph : Graphs, base : Graphs \cup {None}]
  /\ Good(d)
  /\ d.waiting => d.job.kind # "none"

\* It holds at the boot.
LEMMA WarmInit == Init => WarmInv
<1> SUFFICES ASSUME Init PROVE WarmInv
  OBVIOUS
<1>1. /\ mode \in Modes /\ tree \in Graphs /\ calm \in BOOLEAN /\ faults \subseteq {"warm", "job", "task"}
      /\ disk \in [graph : Graphs, base : Graphs \cup {None}]
  BY DEF Init
<1>2. NoJob \in Jobs /\ NoChurn \in [Syms -> Entries]
  BY DEF NoJob, Jobs, Graphs, NoChurn, Entries
<1>3. /\ d \in Daemons /\ d.live = None /\ d.task = None /\ d.discard = FALSE /\ d.churn = NoChurn /\ d.latch = None
      /\ d.declines = 0 /\ d.waiting = FALSE
  BY <1>1, <1>2 DEF Init, Daemons
<1>4. Good(d)
  BY <1>3 DEF Good, Placed, Budgeted, Exact, NoChurn
<1> QED
  BY <1>1, <1>3, <1>4 DEF WarmInv

\* A handler ends in a daemon that is good and waits for nobody, ...
LEMMA HandledKeeps ==
  ASSUME WarmInv, NEW next, Handles(next), Good(next), next.waiting => next.job.kind # "none"
  PROVE  WarmInv'
BY DEF Handles, WarmInv, Good, Placed, Budgeted, Exact

\* The flags of the watch.
LEMMA SetsKeep ==
  ASSUME NEW s, Good(s), NEW b \in BOOLEAN, NEW c \in BOOLEAN
  PROVE  /\ Keeps(s, [s EXCEPT !.dirty = b]) /\ Keeps(s, [s EXCEPT !.dirtySince = b])
         /\ Keeps(s, [s EXCEPT !.dirty = b, !.dirtySince = c])
         /\ Keeps(s, [s EXCEPT !.dirty = b, !.touched = c])
<1>1. Same(s, [s EXCEPT !.dirty = b])
  BY DEF Same, Good, Daemons
<1>2. Same(s, [s EXCEPT !.dirtySince = b])
  BY DEF Same, Good, Daemons
<1>3. Same(s, [s EXCEPT !.dirty = b, !.dirtySince = c])
  BY ZenonT(90) DEF Same, Good, Daemons
<1>4. Same(s, [s EXCEPT !.dirty = b, !.touched = c])
  BY ZenonT(90) DEF Same, Good, Daemons
<1> QED
  BY <1>1, <1>2, <1>3, <1>4, SameKeeps

\* The ticks and the calls.
LEMMA TicksKeep ==
  ASSUME WarmInv, Tick \/ TickServes \/ TickReconciles
  PROVE  WarmInv'
<1>1. PICK s \in Advanced :
        \/ Handles(IF s.dirty THEN PreemptWarm([s EXCEPT !.dirty = FALSE, !.dirtySince = TRUE]) ELSE s)
        \/ \E next \in Refreshed([s EXCEPT !.dirtySince = FALSE], TRUE) : Handles(next)
        \/ Handles([s EXCEPT !.job = [NoJob EXCEPT !.kind = "rebuilding", !.pc = "running", !.reconcile = TRUE]])
  BY DEF Tick, TickServes, TickReconciles
<1>2. Good(s) /\ ~s.waiting
  BY <1>1, AdvancedKeeps DEF WarmInv, Keeps, Tick, TickServes, TickReconciles
<1>3. CASE Handles(IF s.dirty THEN PreemptWarm([s EXCEPT !.dirty = FALSE, !.dirtySince = TRUE]) ELSE s)
  <2>1. Keeps(s, IF s.dirty THEN PreemptWarm([s EXCEPT !.dirty = FALSE, !.dirtySince = TRUE]) ELSE s)
    BY <1>2, SetsKeep, PreemptWarmKeeps DEF Keeps
  <2> QED
    BY <1>2, <1>3, <2>1, HandledKeeps DEF Keeps
<1>4. CASE \E next \in Refreshed([s EXCEPT !.dirtySince = FALSE], TRUE) : Handles(next)
  <2>1. PICK next \in Refreshed([s EXCEPT !.dirtySince = FALSE], TRUE) : Handles(next)
    BY <1>4
  <2>2. Keeps(s, [s EXCEPT !.dirtySince = FALSE])
    BY <1>2, SetsKeep
  <2>3. Keeps([s EXCEPT !.dirtySince = FALSE], next)
    BY <2>1, <2>2, RefreshedKeeps DEF Keeps, WarmInv
  <2> QED
    BY <1>2, <2>1, <2>2, <2>3, HandledKeeps DEF Keeps
<1>5. CASE Handles([s EXCEPT !.job = [NoJob EXCEPT !.kind = "rebuilding", !.pc = "running", !.reconcile = TRUE]])
  <2> DEFINE job == [NoJob EXCEPT !.kind = "rebuilding", !.pc = "running", !.reconcile = TRUE]
  <2>1. job \in Jobs
    BY DEF NoJob, Jobs, Graphs
  <2> HIDE DEF job
  <2>2. Same(s, [s EXCEPT !.job = job])
    BY <1>2, <2>1 DEF Same, Good, Daemons
  <2>3. Handles([s EXCEPT !.job = job])
    BY <1>5 DEF job
  <2> QED
    BY <1>2, <2>2, <2>3, SameKeeps, HandledKeeps DEF Keeps
<1> QED
  BY <1>1, <1>3, <1>4, <1>5

\* A call that no committer holds up.
LEMMA QueryKeeps ==
  ASSUME WarmInv, Query
  PROVE  WarmInv'
<1>1. PICK s \in Advanced :
        \E next \in IF ~s.dirty \/ (CommitterBusy(s) /\ s.touched) THEN {s}
                    ELSE Refreshed([s EXCEPT !.dirty = FALSE], FALSE) : Handles(next)
  BY DEF Query
<1>2. Good(s) /\ ~s.waiting
  BY <1>1, AdvancedKeeps DEF WarmInv, Keeps, Query
<1>3. PICK next : Handles(next) /\ (next = s \/ next \in Refreshed([s EXCEPT !.dirty = FALSE], FALSE))
  BY <1>1
<1>4. Keeps(s, [s EXCEPT !.dirty = FALSE])
  BY <1>2, SetsKeep
<1>5. Good(next) /\ ~next.waiting
  <2>1. CASE next = s
    BY <1>2, <2>1
  <2>2. CASE next \in Refreshed([s EXCEPT !.dirty = FALSE], FALSE)
    BY <1>2, <1>4, <2>2, RefreshedKeeps DEF Keeps, WarmInv
  <2> QED
    BY <1>3, <2>1, <2>2
<1> QED
  BY <1>3, <1>5, HandledKeeps

\* ... or for the committer it has found.
LEMMA QueryWaitsKeeps ==
  ASSUME WarmInv, QueryWaits
  PROVE  WarmInv'
<1>1. PICK s \in Advanced, dirty \in BOOLEAN :
        /\ s.job.kind \in {"rebuilding", "canonicalizing", "persisting"}
        /\ Handles([s EXCEPT !.waiting = TRUE]) \/ Handles([s EXCEPT !.waiting = TRUE, !.dirty = FALSE])
  BY DEF QueryWaits
<1>2. Good(s)
  BY <1>1, AdvancedKeeps DEF WarmInv, Keeps
<1>3. ASSUME NEW u \in {[s EXCEPT !.waiting = TRUE], [s EXCEPT !.waiting = TRUE, !.dirty = FALSE]}
      PROVE  Good(u) /\ u.job.kind # "none"
  <2>1. /\ u \in Daemons /\ u.live = s.live /\ u.task = s.task /\ u.discard = s.discard /\ u.churn = s.churn /\ u.kg = s.kg
        /\ u.stale = s.stale /\ u.declines = s.declines /\ u.latch = s.latch /\ u.job = s.job
    BY <1>2, ZenonT(90) DEF Good, Daemons
  <2> QED
    BY <1>1, <1>2, <2>1 DEF Good, Placed, Budgeted, Exact
<1> QED
  BY <1>1, <1>3, HandledKeeps

\* The waiting is over.
LEMMA QueryResumesKeeps ==
  ASSUME WarmInv, QueryResumes
  PROVE  WarmInv'
<1> DEFINE a == [d EXCEPT !.waiting = FALSE]
<1>1. PICK s, next :
        /\ s = NoMoreJob(a) \/ s \in Then(ReapPersist(a), ReapRebuilding)
        /\ next = s \/ next \in Refreshed(s, FALSE) \/ next \in Refreshed([s EXCEPT !.dirty = FALSE], FALSE)
        /\ Handles(next)
  BY DEF QueryResumes
<1>2. /\ a \in Daemons /\ a.live = d.live /\ a.task = d.task /\ a.discard = d.discard /\ a.churn = d.churn /\ a.kg = d.kg
      /\ a.stale = d.stale /\ a.declines = d.declines /\ a.latch = d.latch /\ a.waiting = FALSE
  BY ZenonT(90) DEF WarmInv, Good, Daemons
<1> HIDE DEF a
<1>3. Good(a) /\ ~a.waiting /\ tree \in Graphs /\ disk.graph \in Graphs
  BY <1>2 DEF WarmInv, Good, Placed, Budgeted, Exact
<1>4. Good(s) /\ ~s.waiting
  <2>1. CASE s = NoMoreJob(a)
    BY <1>3, <2>1, NoMoreJobKeeps DEF Keeps
  <2>2. CASE s \in Then(ReapPersist(a), ReapRebuilding)
    <3>1. PICK b \in ReapPersist(a) : s \in ReapRebuilding(b)
      BY <2>2, SMTT(60) DEF Then
    <3> QED
      BY <1>3, <3>1, ReapsKeep DEF Keeps
  <2> QED
    BY <1>1, <2>1, <2>2
<1>5. Keeps(s, [s EXCEPT !.dirty = FALSE])
  BY <1>4, SetsKeep
<1>6. Good(next) /\ ~next.waiting
  BY <1>1, <1>3, <1>4, <1>5, RefreshedKeeps DEF Keeps
<1> QED
  BY <1>1, <1>6, HandledKeeps

\* The index tool retires the tier.
LEMMA IndexToolKeeps ==
  ASSUME WarmInv, IndexTool
  PROVE  WarmInv'
<1>1. PICK s, a :
        /\ s \in Then(Then(ReapPersist(d), ReapCanonicalizing), ReapRebuilding)
        /\ a = s \/ a = Moved([s EXCEPT !.touched = FALSE])
        /\ d' = Retire([a EXCEPT !.kg = tree])
  BY DEF IndexTool
<1>2. tree \in Graphs /\ disk.graph \in Graphs /\ Good(d) /\ ~d.waiting
  BY DEF WarmInv, IndexTool
<1>3. Good(s) /\ ~s.waiting
  <2>1. PICK b, c : b \in ReapPersist(d) /\ c \in ReapCanonicalizing(b) /\ s \in ReapRebuilding(c)
    BY <1>1 DEF Then
  <2>2. Keeps(d, b)
    BY <1>2, <2>1, ReapsKeep
  <2>3. Keeps(b, c)
    BY <1>2, <2>1, <2>2, ReapsKeep DEF Keeps
  <2> QED
    BY <1>2, <2>1, <2>2, <2>3, ReapsKeep DEF Keeps
<1>4. Good(a) /\ ~a.waiting
  <2>1. Same(s, [s EXCEPT !.touched = FALSE])
    BY <1>3, ZenonT(90) DEF Same, Good, Daemons
  <2> QED
    BY <1>1, <1>3, <2>1, SameKeeps, MovedKeeps DEF Keeps
<1>5. Good(d') /\ ~d'.waiting
  <2> DEFINE b == [a EXCEPT !.kg = tree]
  <2>1. /\ b \in Daemons /\ b.live = a.live /\ b.task = a.task /\ b.discard = a.discard /\ b.churn = a.churn
        /\ b.declines = a.declines /\ b.latch = a.latch /\ b.waiting = a.waiting
    BY <1>2, <1>4 DEF Good, Daemons
  <2>2. d' = Retire(b)
    BY <1>1
  <2> HIDE DEF b
  <2>3. Placed(b) /\ Budgeted(b)
    BY <1>4, <2>1 DEF Good, Placed, Budgeted
  <2> QED
    BY <1>4, <2>1, <2>2, <2>3, RetireKeeps DEF Keeps
<1>6. disk' \in [graph : Graphs, base : Graphs \cup {None}] /\ UNCHANGED <<mode, tree, calm, faults>>
  BY <1>2 DEF IndexTool, WarmInv
<1> QED
  BY <1>5, <1>6 DEF WarmInv, Good, Placed, Budgeted, Exact

-----------------------------------------------------------------------------
\* The threads: a committer that ends or fails stays to be reaped, ...
LEMMA JobKeeps ==
  ASSUME WarmInv, JobEnds \/ JobFails
  PROVE  WarmInv'
<1>0. d \in Daemons /\ d.job \in Jobs /\ Good(d) /\ tree \in Graphs
  BY DEF WarmInv, Good, Daemons
<1>1. ASSUME NEW a, Same(d, a), a.job.kind = d.job.kind
      PROVE  Good(a) /\ (a.waiting => a.job.kind # "none") /\ (Good(Moved(a)) /\ (Moved(a).waiting => Moved(a).job.kind # "none"))
  <2>1. Keeps(d, a)
    BY <1>0, <1>1, SameKeeps
  <2>2. Keeps(a, Moved(a))
    BY <2>1, MovedKeeps DEF Keeps
  <2>3. a \in Daemons
    BY <1>1 DEF Same
  <2>4. Moved(a).job = a.job
    BY <2>3 DEF Moved, Daemons
  <2> QED
    BY <1>1, <2>1, <2>2, <2>4 DEF Keeps, WarmInv
<1>2. CASE JobFails
  <2> DEFINE job == [d.job EXCEPT !.pc = "failed"]
             a == [d EXCEPT !.job = job]
  <2>1. job \in Jobs /\ job.kind = d.job.kind
    BY <1>0 DEF Jobs
  <2>2. d' = a
    BY <1>2 DEF JobFails
  <2> HIDE DEF job
  <2>3. Same(d, a) /\ a.job = job
    BY <1>0, <2>1 DEF Same, Daemons
  <2>4. Good(d') /\ (d'.waiting => d'.job.kind # "none")
    BY <1>1, <2>1, <2>2, <2>3
  <2> QED
    BY <1>2, <2>4 DEF JobFails, Fails, WarmInv, Good, Placed, Budgeted, Exact
<1>3. CASE JobEnds
  <2> DEFINE same == d.job.reconcile /\ tree = disk.graph /\ ~d.touched
             touched == d.touched /\ d.job.kind # "rebuilding"
             reused == same \/ (d.job.kind = "canonicalizing" /\ tree = disk.graph)
             job == [d.job EXCEPT !.pc = "ok", !.graph = {}, !.reused = reused]
             a == [d EXCEPT !.touched = touched, !.job = job]
  <2>1. touched \in BOOLEAN /\ reused \in BOOLEAN
    OBVIOUS
  <2>2. d' = IF same THEN [d EXCEPT !.touched = @ /\ d.job.kind # "rebuilding",
                         !.job.pc = "ok", !.job.graph = {}, !.job.reused = reused]
             ELSE Moved([d EXCEPT !.touched = @ /\ d.job.kind # "rebuilding",
                         !.job.pc = "ok", !.job.graph = {}, !.job.reused = reused])
    BY <1>3 DEF JobEnds
  <2>3. [d EXCEPT !.touched = @ /\ d.job.kind # "rebuilding", !.job.pc = "ok", !.job.graph = {}, !.job.reused = reused] = a
    BY <1>0, ZenonT(90) DEF Daemons, Jobs
  <2>4. disk' \in [graph : Graphs, base : Graphs \cup {None}]
    BY <1>0, <1>3 DEF JobEnds, WarmInv, Jobs
  <2> HIDE DEF same, touched, reused
  <2>5. job \in Jobs /\ job.kind = d.job.kind
    BY <1>0, <2>1 DEF Jobs, Graphs
  <2> HIDE DEF job
  <2>6. Same(d, a) /\ a.job = job
    BY <1>0, <2>1, <2>5, ZenonT(90) DEF Same, Daemons
  <2> HIDE DEF a
  <2>7. Good(d') /\ (d'.waiting => d'.job.kind # "none")
    BY <1>1, <2>2, <2>3, <2>5, <2>6
  <2> QED
    BY <1>3, <2>4, <2>7 DEF JobEnds, WarmInv, Good, Placed, Budgeted, Exact
<1> QED
  BY <1>2, <1>3

\* ... a warm touches the tier on disk alone, ...
LEMMA WarmKeeps ==
  ASSUME WarmInv, WarmStarts \/ WarmEnds \/ WarmStops \/ WarmFails \/ BootWarmEnds
  PROVE  WarmInv'
<1>0. d \in Daemons /\ Good(d)
  BY DEF WarmInv, Good
<1>1. PICK run \in Runs \cup {None}, boot \in {"none", "running", "elsewhere", "done"} :
        d' = [d EXCEPT !.run = run] \/ d' = [d EXCEPT !.boot = boot]
  <2>1. CASE WarmStarts
    <3>1. d.run \in Runs /\ d' = [d EXCEPT !.run = [d.run EXCEPT !.pc = "running"]]
      BY <1>0, <2>1 DEF WarmStarts, Daemons
    <3>2. [d.run EXCEPT !.pc = "running"] \in Runs
      BY <3>1 DEF Runs
    <3> QED
      BY <3>1, <3>2
  <2>2. CASE WarmEnds \/ WarmStops \/ WarmFails
    <3>1. Over(TRUE) \in Runs /\ Over(FALSE) \in Runs
      BY DEF Over, Runs
    <3> QED
      BY <2>2, <3>1 DEF WarmEnds, WarmStops, WarmFails
  <2>3. CASE BootWarmEnds
    BY <2>3 DEF BootWarmEnds
  <2> QED
    BY <2>1, <2>2, <2>3
<1>2. Same(d, d') /\ d'.job = d.job
  <2>1. Same(d, [d EXCEPT !.run = run]) /\ [d EXCEPT !.run = run].job = d.job
    BY <1>0 DEF Same, Daemons
  <2>2. Same(d, [d EXCEPT !.boot = boot]) /\ [d EXCEPT !.boot = boot].job = d.job
    BY <1>0 DEF Same, Daemons
  <2> QED
    BY <1>1, <2>1, <2>2
<1>3. Keeps(d, d')
  BY <1>0, <1>2, SameKeeps
<1>4. disk' \in [graph : Graphs, base : Graphs \cup {None}] /\ UNCHANGED <<mode, tree, calm>>
      /\ faults' \subseteq {"warm", "job", "task"}
  BY DEF WarmInv, WarmStarts, WarmEnds, WarmStops, WarmFails, Fails, BootWarmEnds
<1> QED
  BY <1>2, <1>3, <1>4 DEF WarmInv, Keeps, Good, Placed, Budgeted, Exact

\* ... and a tier task ends in the tier it was for, or is declined.
LEMMA TaskKeeps ==
  ASSUME WarmInv, TaskEnds \/ TaskPanics
  PROVE  WarmInv'
<1>0. d \in Daemons /\ Placed(d) /\ Budgeted(d) /\ Exact(d) /\ d.task # None /\ d.task.pc = "running" /\ d.task \in Tasks
  BY DEF WarmInv, Good, TaskEnds, TaskPanics, Daemons
<1>1. PICK task \in Tasks : /\ d' = [d EXCEPT !.task = task]
                            /\ task.pc # "declined" => Result(task) = Result(d.task)
  <2>1. CASE d' = [d EXCEPT !.task.pc = "declined"]
    <3>1. [d.task EXCEPT !.pc = "declined"] \in Tasks /\ [d.task EXCEPT !.pc = "declined"].pc = "declined"
      BY <1>0 DEF Tasks
    <3> QED
      BY <2>1, <3>1
  <2>2. CASE d.task.kind = "update" /\ \E c \in BOOLEAN : d' = [d EXCEPT !.task.pc = "ready", !.task.compact = @ \/ c]
    <3>1. PICK c \in BOOLEAN : d' = [d EXCEPT !.task.pc = "ready", !.task.compact = @ \/ c]
      BY <2>2
    <3> DEFINE compact == d.task.compact \/ c
               task == [d.task EXCEPT !.pc = "ready", !.compact = compact]
    <3>2. d' = [d EXCEPT !.task = task]
      BY <1>0, <3>1 DEF Daemons, Tasks
    <3>3. compact \in BOOLEAN
      OBVIOUS
    <3> HIDE DEF compact
    <3>4. task \in Tasks /\ task.kind = "update" /\ task.rows = d.task.rows
      BY <1>0, <2>2, <3>3 DEF Tasks
    <3> QED
      BY <2>2, <3>2, <3>4 DEF Result
  <2>3. CASE d.task.kind = "adopt" /\ d' = [d EXCEPT !.task.pc = "ready", !.task.rows = d.task.graph, !.task.graph = {}]
    <3> DEFINE task == [d.task EXCEPT !.pc = "ready", !.rows = d.task.graph, !.graph = {}]
    <3>1. d' = [d EXCEPT !.task = task]
      BY <1>0, <2>3 DEF Daemons, Tasks
    <3>2. task \in Tasks /\ task.pc = "ready" /\ task.rows = d.task.graph
      BY <1>0 DEF Tasks, Graphs
    <3> QED
      BY <1>0, <2>3, <3>1, <3>2 DEF Result
  <2> QED
    BY <1>0, <2>1, <2>2, <2>3 DEF TaskEnds, TaskPanics, Tasks
<1>2. /\ d' \in Daemons /\ d'.live = d.live /\ d'.task = task /\ d'.discard = d.discard /\ d'.churn = d.churn /\ d'.kg = d.kg
      /\ d'.stale = d.stale /\ d'.declines = d.declines /\ d'.latch = d.latch /\ d'.waiting = d.waiting /\ d'.job = d.job
  BY <1>0, <1>1 DEF Daemons
<1>3. task # None
  BY Apart
<1>4. Good(d')
  BY <1>0, <1>1, <1>2, <1>3 DEF Good, Placed, Budgeted, Exact
<1>5. UNCHANGED <<mode, tree, disk, calm>> /\ faults' \subseteq {"warm", "job", "task"}
  BY DEF WarmInv, TaskEnds, TaskPanics, Fails
<1> QED
  BY <1>2, <1>4, <1>5 DEF WarmInv, Good, Placed, Budgeted, Exact

\* Edits and clocks.
LEMMA WorldKeeps ==
  ASSUME WarmInv, Edit \/ Touch \/ Calm \/ Quiet \/ Deadline \/ UNCHANGED vars
  PROVE  WarmInv'
<1>0. d \in Daemons /\ Good(d)
  BY DEF WarmInv, Good
<1>1. Same(d, d') /\ d'.job = d.job
  <2>1. CASE d' = d
    BY <1>0, <2>1 DEF Same, Daemons
  <2>2. CASE d' = [d EXCEPT !.dirty = TRUE]
    BY <1>0, <2>2, ZenonT(90) DEF Same, Daemons
  <2>3. CASE d' = [d EXCEPT !.dirty = TRUE, !.touched = TRUE]
    BY <1>0, <2>3, ZenonT(90) DEF Same, Daemons
  <2>4. CASE d' = [d EXCEPT !.quiet = TRUE] \/ d' = [d EXCEPT !.overdue = TRUE]
    BY <1>0, <2>4, ZenonT(90) DEF Same, Daemons
  <2> QED
    BY <2>1, <2>2, <2>3, <2>4 DEF Edit, Touch, Calm, Quiet, Deadline, vars
<1>2. Keeps(d, d')
  BY <1>0, <1>1, SameKeeps
<1>3. tree' \in Graphs /\ UNCHANGED <<mode, disk, faults>> /\ calm' \in BOOLEAN
  BY DEF WarmInv, Edit, Touch, Calm, Quiet, Deadline, vars, Graphs
<1> QED
  BY <1>1, <1>2, <1>3 DEF WarmInv, Keeps, Good, Placed, Budgeted, Exact

\* Every step keeps the invariant.
LEMMA WarmStep ==
  ASSUME WarmInv, [Next]_vars
  PROVE  WarmInv'
BY TicksKeep, QueryKeeps, QueryWaitsKeeps, QueryResumesKeeps, IndexToolKeeps, JobKeeps, WarmKeeps, TaskKeeps, WorldKeeps
DEF Next

\* LIVE_ANN_ATTEMPTS_PER_GENERATION bounds the declines of a generation, however
\* many warms re-arm the latch (server.rs 618-706).
THEOREM WarmLatchBudget == Spec => []LatchBudget
<1>1. WarmInv => LatchBudget
  <2> SUFFICES ASSUME WarmInv PROVE LatchBudget
    OBVIOUS
  <2>1. d.declines \in Nat /\ (d.latch # None => d.latch \in Latches)
    BY DEF WarmInv, Good, Daemons
  <2> QED
    BY <2>1 DEF WarmInv, Good, Budgeted, LatchBudget, Budget, Latches
<1> QED
  BY <1>1, WarmInit, WarmStep, PTL DEF Spec

\* An installed tier is that of the served graph, whatever replaced the graph,
\* unless churn outlived its graph in the queue; and the tier is in one place.
THEOREM WarmLiveTierExact == Spec => []LiveTierExactUnlessStale
<1>1. WarmInv => LiveTierExactUnlessStale
  <2> SUFFICES ASSUME WarmInv PROVE LiveTierExactUnlessStale
    OBVIOUS
  <2>1. TypeOK
    BY DEF WarmInv, Good, Daemons, Placed, TypeOK, NoJob
  <2> QED
    BY <2>1 DEF WarmInv, Good, Exact, LiveTierExactUnlessStale, LiveTierExact
<1> QED
  BY <1>1, WarmInit, WarmStep, PTL DEF Spec
===============================================================================
