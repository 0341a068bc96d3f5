--------------------------- MODULE FreshnessDaemon ---------------------------
(***************************************************************************)
(* The daemon that serves a code graph and keeps it fresh: the source      *)
(* watch (crates/mcp/src/watch.rs), the freshness path of the server       *)
(* (tick, ensure_fresh, refresh, the reaps and adopt_committed_generation  *)
(* of crates/mcp/src/server.rs) and the live overlay                       *)
(* (crates/index/src/live.rs).                                             *)
(*                                                                         *)
(* The daemon handles one call at a time: a tool call ("query", or "bound" *)
(* when it answers from committed artifacts) or the pulse between calls    *)
(* ("tick").  The watch callback, the background committers and the        *)
(* overlay's builder are threads of their own, so a call is a sequence of  *)
(* steps between which any of them, and any edit, may happen.              *)
(*                                                                         *)
(* Abstractions.  A version of a file stands for its stamp (size and       *)
(* mtime); what extraction sees of it is Text(v): Grain versions in a row  *)
(* differ by a touch or a comment only.  A generation is its               *)
(* manifest (versions), its product pack (stamps and bodies) and its       *)
(* graph; it is its own content id.  A scan or a probe reads the files at  *)
(* one instant.  Clocks and sizes are choices: the debounce may or may not *)
(* have run out, a sweep may or may not be due, a change set may or may    *)
(* not fit the overlay's absorb budget.                                    *)
(* Left out: the ANN tier and its warms, the hourly reconcile, the index   *)
(* tool, files that appear or vanish, VORPAL_NO_RETAINED_PERSIST.          *)
(*                                                                         *)
(* lapses records five hand-overs at which the code lets two pieces of its *)
(* state part (README, findings): "dropped", a canonicalization joined     *)
(* without its outcome; "restamped", one that failed, or read later stamps *)
(* than the overlay noted; "late overlay", an overlay adopted after        *)
(* CURRENT or the graph moved on; "unabsorbed", an overlay that did not    *)
(* absorb what a build committed; "unpersisted", a served graph never      *)
(* committed.                                                              *)
(***************************************************************************)
EXTENDS Naturals, FiniteSetsExt

CONSTANTS Files,
          Grain,         \* versions of a file with the same text
          MaxVersion,    \* bound: versions a file goes through
          MaxEdits,      \* bound: edits of the whole tree
          Modes,         \* the daemon's settings: [overlay, proactive : BOOLEAN]
          Kinds,         \* the kinds of call that happen
          MaxFailures,   \* bound: builds, commits and loads that fail
          None

Versions == 0 .. MaxVersion
Text(v) == v \div Grain
Texts == {Text(v) : v \in Versions}
Stamps == [Files -> Versions]
Bodies == [Files -> Texts]
Edits(t) == MapThenSumSet(LAMBDA f : t[f], Files)

\* A generation; an overlay is the manifest and the bodies it retains.
Generations == [man : Stamps, pack : Stamps, body : Bodies, graph : Bodies]
Overlays == [man : Stamps, body : Bodies]
Committers == {"canonicalizing", "persisting", "rebuilding"}
Jobs == [pc : {"read", "commit", "ok", "failed"}, gen : Generations \union {None},
         paths : (SUBSET Files) \union {None}, reused : BOOLEAN]

ASSUME DaemonAssumption ==
  /\ None \notin Generations \union Overlays \union Bodies \union Jobs
  /\ \A S \in SUBSET Files : S # None
  /\ Grain \in Nat \ {0} /\ MaxVersion \in Nat /\ MaxEdits \in Nat /\ MaxFailures \in Nat
  /\ Kinds \subseteq {"tick", "query", "bound"}
  /\ Modes \subseteq [overlay : BOOLEAN, proactive : BOOLEAN]

VARIABLES mode,
          tree,       \* tree[f]: the version of f on disk
          unseen,     \* files with an edit the watch has not been told of
          flagging,   \* the callback holds the capture lock, the flag not yet set
          dirty, captured,   \* the watch: the flag, and the change set or None
          current,    \* the generation CURRENT names, or None
          kg,         \* the served graph, or None
          kgDir,      \* the generation it is pinned to, or None
          overlay,    \* the live overlay, or None
          building,   \* its builder: where it is and what it holds
          job,        \* job[k]: the background committer k, or None
          dirtySince, \* tick has consumed dirt and debounces it
          call,       \* the call being handled
          failures,
          lapses      \* history, for the properties: hand-overs that went wrong

watch == <<dirty, captured>>
served == <<kg, kgDir>>
env == <<mode, tree, unseen, flagging>>
vars == <<env, watch, current, served, overlay, building, job, dirtySince, call, failures, lapses>>

Idle == [pc |-> "idle", kind |-> "tick", backstop |-> FALSE, paths |-> None, probe |-> None]
NoBuilder == [pc |-> "none", got |-> None]
NoJobs == [k \in Committers |-> None]
Committed(v) ==
  [man |-> v, pack |-> v, body |-> [f \in Files |-> Text(v[f])], graph |-> [f \in Files |-> Text(v[f])]]

\* The daemon starts on a tree that may have changed since it was indexed.
Init ==
  /\ mode \in Modes
  /\ tree \in {t \in Stamps : Edits(t) <= MaxEdits}
  /\ unseen = {}
  /\ flagging = FALSE
  /\ dirty = TRUE
  /\ captured = None
  /\ current \in {None, Committed([f \in Files |-> 0])}
  /\ kg = None
  /\ kgDir = None
  /\ overlay = None
  /\ building = [NoBuilder EXCEPT !.pc = IF mode.overlay THEN "started" ELSE "none"]
  /\ job = NoJobs
  /\ dirtySince = FALSE
  /\ call = Idle
  /\ failures = 0
  /\ lapses = {}

Goto(pc) == call' = [call EXCEPT !.pc = pc]

\* The end of refresh: a tick is over, a tool call goes on.
Done ==
  CASE call.kind = "tick" -> call' = Idle
    [] call.kind = "query" -> Goto("answer")
    [] call.kind = "bound" -> Goto("settle")

\* An error: the tool call fails.
Error == call' = Idle

Fail == failures < MaxFailures /\ failures' = failures + 1

-------------------------------------------------------------------------------
(* The source tree and the watch *)

Edit(f) ==
  /\ tree[f] < MaxVersion /\ Edits(tree) < MaxEdits
  /\ tree' = [tree EXCEPT ![f] = @ + 1]
  /\ unseen' = unseen \union {f}
  /\ UNCHANGED <<mode, lapses, flagging, watch, current, served, overlay, building, job, dirtySince, call, failures>>

\* The callback captures a file's path, holding the lock up to Signal.
Capture(f) ==
  /\ f \in unseen /\ ~flagging
  /\ unseen' = unseen \ {f}
  /\ captured' = IF captured = None THEN None ELSE captured \union {f}
  /\ flagging' = TRUE
  /\ UNCHANGED <<mode, lapses, tree, dirty, current, served, overlay, building, job, dirtySince, call, failures>>

\* An event that itemizes nothing: a directory, an overflow, a watcher error.
CaptureLost ==
  /\ unseen # {} /\ ~flagging
  /\ unseen' = {}
  /\ captured' = None
  /\ flagging' = TRUE
  /\ UNCHANGED <<mode, lapses, tree, dirty, current, served, overlay, building, job, dirtySince, call, failures>>

Signal ==
  /\ flagging
  /\ flagging' = FALSE
  /\ dirty' = TRUE
  /\ UNCHANGED <<mode, lapses, tree, unseen, captured, current, served, overlay, building, job, dirtySince, call, failures>>

\* Fault: the flag is set, the change set keeps its claim to be complete.
MarkFlagOnly == dirty' = TRUE /\ UNCHANGED captured

\* mark_dirty takes the lock the callback holds.
MarkDirty ==
  /\ ~flagging
  /\ captured' = None
  /\ dirty' = TRUE

-------------------------------------------------------------------------------
(* Builds *)

\* The manifest of a build: the prior one patched with a change set, or a scan.
Scanned(paths) ==
  [f \in Files |-> IF current = None \/ paths = None THEN tree[f]
                   ELSE IF f \in paths THEN tree[f] ELSE current.man[f]]

\* Fault: the graph carries over whenever the files are the same.
ReusableAnyway(man) == current # None

\* Every file whose stamp moved re-extracts to its cached product: the graph
\* carries over (the whole tree is unchanged, or the stamp-only cutoff).
Reusable(man) ==
  /\ current # None
  /\ \A f \in Files : man[f] # current.man[f] => Text(tree[f]) = current.body[f]

\* What a build of that manifest commits.  A product is replayed when its
\* stamp is the manifest's, and extracted from the tree when not.
Built(man) ==
  IF Reusable(man)
  THEN [current EXCEPT !.man = man,
                       !.pack = [f \in Files |-> IF man[f] = current.man[f] THEN @[f] ELSE man[f]]]
  ELSE LET body == [f \in Files |-> IF current # None /\ current.pack[f] = man[f]
                                    THEN current.body[f] ELSE Text(tree[f])]
       IN [man |-> man, pack |-> man, body |-> body, graph |-> body]

Spawn(k, pc, gen, paths) ==
  job' = [job EXCEPT ![k] = [pc |-> pc, gen |-> gen, paths |-> paths, reused |-> FALSE]]

Finished(k) == job[k] # None /\ job[k].pc \in {"ok", "failed"}
Joinable(k) == job[k] = None \/ Finished(k)
Busy == \E k \in Committers : job[k] # None

\* A canonicalizing or rebuilding thread reads the tree ...
JobRead(k) ==
  /\ job[k] # None /\ job[k].pc = "read"
  /\ LET man == Scanned(job[k].paths) IN
       job' = [job EXCEPT ![k].gen = Built(man), ![k].reused = Reusable(man),
                          ![k].pc = IF Built(man) = current THEN "ok" ELSE "commit"]
  /\ UNCHANGED <<env, lapses, watch, current, served, overlay, building, dirtySince, call, failures>>

\* ... and every committer ends by swapping CURRENT.
JobCommit(k) ==
  /\ job[k] # None /\ job[k].pc = "commit"
  /\ current' = job[k].gen
  /\ job' = [job EXCEPT ![k].pc = "ok"]
  /\ UNCHANGED <<env, lapses, watch, served, overlay, building, dirtySince, call, failures>>

JobFail(k) ==
  /\ job[k] # None /\ job[k].pc \in {"read", "commit"}
  /\ Fail
  /\ job' = [job EXCEPT ![k].pc = "failed"]
  /\ UNCHANGED <<env, lapses, watch, current, served, overlay, building, dirtySince, call>>

-------------------------------------------------------------------------------
(* The overlay's builder *)

\* spawn_overlay_build, in a state with overlay ov and committers js.
SpawnOverlay(ov, js) ==
  building' = IF mode.overlay /\ ov = None /\ building.pc = "none" /\ js = NoJobs
              THEN [pc |-> "started", got |-> None]
              ELSE building

\* LiveOverlay::build resolves CURRENT once, then replays the pack for long.
BuilderResolve ==
  /\ building.pc = "started"
  /\ building' = [pc |-> "replaying",
                   got |-> IF current = None THEN None
                           ELSE [man |-> current.man, body |-> current.body]]
  /\ UNCHANGED <<env, lapses, watch, current, served, overlay, job, dirtySince, call, failures>>

BuilderFinish ==
  /\ building.pc = "replaying"
  /\ building' = [building EXCEPT !.pc = "done"]
  /\ UNCHANGED <<env, lapses, watch, current, served, overlay, job, dirtySince, call, failures>>

-------------------------------------------------------------------------------
(* Reaping: what the daemon does with a finished thread *)

\* Fault: the overlay stays behind the graph that is adopted.
AdoptBesideOverlay(js) ==
  /\ current # None
  /\ kg' = current.graph
  /\ kgDir' = current
  /\ UNCHANGED <<watch, overlay, building, failures>>

\* adopt_committed_generation, with committers js.
Adopt(js) ==
  \/ /\ current # None
     /\ kg' = current.graph
     /\ kgDir' = current
     /\ overlay' = None
     /\ SpawnOverlay(None, js)
     /\ UNCHANGED <<watch, failures>>
  \/ /\ Fail /\ MarkDirty
     /\ UNCHANGED <<served, overlay, building>>

\* reap_persist
ReapPersist ==
  /\ Finished("persisting")
  /\ job' = [job EXCEPT !["persisting"] = None]
  /\ IF job["persisting"].pc = "ok"
     THEN /\ kgDir' = job["persisting"].gen
          /\ SpawnOverlay(overlay, job')
          /\ UNCHANGED <<watch, lapses>>
     ELSE /\ MarkDirty
          /\ lapses' = lapses \union {"unpersisted"}
          /\ UNCHANGED <<kgDir, building>>
  /\ UNCHANGED <<kg, overlay, failures>>

\* A canonicalization leaves the overlay as the probe stamped it, and CURRENT
\* as it read the tree itself.
Restamped ==
  lapses' = IF overlay # None /\ overlay.man # current.man
            THEN lapses \union {"restamped"} ELSE lapses

\* Fault: the outcome does not tell a carried graph from a new one.
AbsorbAsReused ==
  /\ Finished("canonicalizing")
  /\ job' = [job EXCEPT !["canonicalizing"] = None]
  /\ kgDir' = IF job["persisting"] = None THEN current ELSE kgDir
  /\ SpawnOverlay(overlay, job')
  /\ Restamped
  /\ UNCHANGED <<kg, overlay, watch, failures>>

\* absorb_canonicalize_outcome
AbsorbCanonicalized ==
  /\ Finished("canonicalizing")
  /\ job' = [job EXCEPT !["canonicalizing"] = None]
  /\ \/ /\ job["canonicalizing"].pc = "ok" /\ job["canonicalizing"].reused
        /\ kgDir' = IF job["persisting"] = None THEN current ELSE kgDir
        /\ SpawnOverlay(overlay, job')
        /\ Restamped
        /\ UNCHANGED <<kg, overlay, watch, failures>>
     \/ /\ job["canonicalizing"].pc = "ok" /\ ~job["canonicalizing"].reused
        /\ Adopt(job')
        /\ UNCHANGED lapses
     \/ /\ job["canonicalizing"].pc = "failed"
        /\ MarkDirty
        /\ Restamped
        /\ UNCHANGED <<served, overlay, building, failures>>

\* reap_rebuilding
ReapRebuilding ==
  /\ Finished("rebuilding")
  /\ job' = [job EXCEPT !["rebuilding"] = None]
  /\ \/ /\ job["rebuilding"].pc = "ok"
        /\ Adopt(job')
        /\ UNCHANGED dirtySince
     \/ /\ job["rebuilding"].pc = "failed"
        /\ MarkDirty
        /\ dirtySince' = TRUE
        /\ UNCHANGED <<served, overlay, building, failures>>

\* reap_overlay_build: a failed build leaves things as they are.
ReapOverlay ==
  /\ building.pc = "done"
  /\ overlay' = IF building.got = None THEN overlay ELSE building.got
  /\ building' = NoBuilder

-------------------------------------------------------------------------------
(* A call: advance_background first, in its order *)

Begin(kind) ==
  /\ call.pc = "idle"
  /\ call' = [Idle EXCEPT !.pc = "advance", !.kind = kind]
  /\ UNCHANGED <<env, lapses, watch, current, served, overlay, building, job, dirtySince, failures>>

AdvancePersist ==
  /\ call.pc = "advance"
  /\ Goto("overlay")
  /\ ReapPersist \/ (~Finished("persisting") /\ UNCHANGED <<watch, served, overlay, building, job, failures, lapses>>)
  /\ UNCHANGED <<env, current, dirtySince>>

AdvanceOverlay ==
  /\ call.pc = "overlay"
  /\ Goto("canonicalize")
  /\ ReapOverlay \/ (building.pc # "done" /\ UNCHANGED <<overlay, building>>)
  /\ lapses' = IF overlay' # overlay /\ kg # None /\ (Busy \/ overlay' # [man |-> current.man, body |-> kg])
               THEN lapses \union {"late overlay"} ELSE lapses
  /\ UNCHANGED <<env, watch, current, served, job, dirtySince, failures>>

AdvanceCanonicalize ==
  /\ call.pc = "canonicalize"
  /\ Goto("rebuild")
  /\ AbsorbCanonicalized \/ (~Finished("canonicalizing") /\ UNCHANGED <<watch, served, overlay, building, job, failures, lapses>>)
  /\ UNCHANGED <<env, current, dirtySince>>

\* Fault: a tool call goes on beside a running rebuild.
AdvancePastRebuild ==
  /\ call.pc = "rebuild"
  /\ Goto(IF call.kind = "tick" THEN "debounce" ELSE "check")
  /\ ReapRebuilding \/ (~Finished("rebuilding") /\ UNCHANGED <<watch, served, overlay, building, job, dirtySince, failures>>)
  /\ UNCHANGED <<env, lapses, current>>

\* A tick reaps a finished rebuild; a tool call waits for it.
AdvanceRebuild ==
  /\ call.pc = "rebuild"
  /\ call.kind = "tick" \/ Joinable("rebuilding")
  /\ Goto(IF call.kind = "tick" THEN "debounce" ELSE "check")
  /\ ReapRebuilding \/ (~Finished("rebuilding") /\ UNCHANGED <<watch, served, overlay, building, job, dirtySince, failures>>)
  /\ UNCHANGED <<env, lapses, current>>

-------------------------------------------------------------------------------
(* tick_inner *)

\* What a tick takes for new dirt: the flag, or a start on a tree never served.
NewDirt == dirty \/ (kg = None /\ ~dirtySince /\ job["rebuilding"] = None)

\* The dirt is consumed; the debounce starts.
TickConsume ==
  /\ call.pc = "debounce" /\ mode.proactive /\ NewDirt
  /\ dirty' = FALSE
  /\ dirtySince' = TRUE
  /\ call' = Idle
  /\ UNCHANGED <<env, lapses, captured, current, served, overlay, building, job, failures>>

\* Nothing to do, the debounce still runs, or a committer is in flight.
TickRest ==
  /\ call.pc = "debounce"
  /\ mode.proactive => ~NewDirt
  /\ call' = Idle
  /\ UNCHANGED <<env, lapses, watch, current, served, overlay, building, job, dirtySince, failures>>

\* The dirt goes back to the flag, and refresh runs in the background.
TickStart ==
  /\ call.pc = "debounce" /\ mode.proactive /\ ~NewDirt
  /\ dirtySince /\ ~Busy
  /\ dirtySince' = FALSE
  /\ MarkDirty
  /\ Goto("check")
  /\ UNCHANGED <<env, lapses, current, served, overlay, building, job, failures>>

-------------------------------------------------------------------------------
(* refresh *)

\* A clean flag answers at once, unless the backstop sweep is due.
CheckClean ==
  /\ call.pc = "check" /\ kg # None /\ ~dirty
  /\ Done
  /\ UNCHANGED <<env, lapses, watch, current, served, overlay, building, job, dirtySince, failures>>

CheckBackstop ==
  /\ call.pc = "check" /\ kg # None /\ ~dirty
  /\ call' = [call EXCEPT !.pc = "moved", !.backstop = TRUE]
  /\ UNCHANGED <<env, lapses, watch, current, served, overlay, building, job, dirtySince, failures>>

CheckDirty ==
  /\ call.pc = "check" /\ (kg = None \/ dirty)
  /\ dirty' = IF kg = None THEN dirty ELSE FALSE
  /\ Goto("moved")
  /\ UNCHANGED <<env, lapses, captured, current, served, overlay, building, job, dirtySince, failures>>

\* CURRENT names a generation the daemon does not serve: adopt it first.
AdoptMoved ==
  /\ call.pc = "moved"
  /\ ~Busy /\ kgDir # None /\ kgDir # current
  /\ Adopt(job)
  /\ IF failures' = failures THEN Goto("changes") ELSE Error
  /\ UNCHANGED <<env, lapses, current, job, dirtySince>>

NotMoved ==
  /\ call.pc = "moved"
  /\ Busy \/ kgDir = None \/ kgDir = current
  /\ Goto("changes")
  /\ UNCHANGED <<env, lapses, watch, current, served, overlay, building, job, dirtySince, failures>>

\* take_changes, except in a backstop pass.
TakeChanges ==
  /\ call.pc = "changes"
  /\ call.backstop \/ ~flagging
  /\ captured' = IF call.backstop THEN captured ELSE {}
  /\ call' = [call EXCEPT !.pc = "sweep", !.paths = IF call.backstop THEN None ELSE captured]
  /\ UNCHANGED <<env, lapses, dirty, current, served, overlay, building, job, dirtySince, failures>>

\* The stat sweep: against the overlay's manifest, or the committed one.
Retained == IF overlay # None THEN overlay.man ELSE current.man
Moved == {f \in Files : tree[f] # Retained[f]}

Sweep ==
  /\ call.pc = "sweep" /\ call.paths = None /\ kg # None
  /\ IF Moved = {} THEN Done ELSE call' = [call EXCEPT !.pc = "probe", !.paths = Moved]
  /\ UNCHANGED <<env, lapses, watch, current, served, overlay, building, job, dirtySince, failures>>

NoSweep ==
  /\ call.pc = "sweep" /\ (call.paths # None \/ kg = None)
  /\ Goto(IF kg = None \/ call.paths = {} THEN "drain" ELSE "probe")
  /\ UNCHANGED <<env, lapses, watch, current, served, overlay, building, job, dirtySince, failures>>

\* probe_extraction: "unchanged" is measured against what is being served.
Reference == IF overlay # None THEN overlay.body ELSE current.body
Unchanged == \A f \in call.paths : Text(tree[f]) = Reference[f]

\* A committer is in flight: serve on, and look again later.
ProbeBusy ==
  /\ call.pc = "probe" /\ Unchanged /\ Busy
  /\ MarkDirty
  /\ Done
  /\ UNCHANGED <<env, lapses, current, served, overlay, building, job, dirtySince, failures>>

\* Fault: the new stamps are committed beside whatever is in flight.
ProbeUnchangedAnyway ==
  /\ call.pc = "probe" /\ Unchanged
  /\ Spawn("canonicalizing", "read", None, call.paths)
  /\ Done
  /\ UNCHANGED <<env, lapses, watch, current, served, overlay, building, dirtySince, failures>>

\* Serve on, and commit the new stamps in the background.
ProbeUnchanged ==
  /\ call.pc = "probe" /\ Unchanged /\ ~Busy
  /\ overlay' = IF overlay = None THEN None
                 ELSE [overlay EXCEPT !.man = [f \in Files |-> IF f \in call.paths THEN tree[f] ELSE @[f]]]
  /\ Spawn("canonicalizing", "read", None, call.paths)
  /\ Done
  /\ UNCHANGED <<env, lapses, watch, current, served, building, dirtySince, failures>>

ProbeChanged ==
  /\ call.pc = "probe" /\ ~Unchanged
  /\ call' = [call EXCEPT !.pc = "drain", !.probe = [f \in call.paths |-> tree[f]]]
  /\ UNCHANGED <<env, lapses, watch, current, served, overlay, building, job, dirtySince, failures>>

\* Commits land in order: the committers in flight are joined first, the
\* canonicalization's outcome is dropped.
DrainCanonicalize ==
  /\ call.pc = "drain" /\ Finished("canonicalizing")
  /\ job' = [job EXCEPT !["canonicalizing"] = None]
  /\ IF job["canonicalizing"].pc = "ok" /\ ~job["canonicalizing"].reused
     THEN lapses' = lapses \union {"dropped"}
     ELSE Restamped
  /\ UNCHANGED <<env, watch, current, served, overlay, building, dirtySince, call, failures>>

DrainPersist ==
  /\ call.pc = "drain" /\ job["canonicalizing"] = None
  /\ ReapPersist
  /\ UNCHANGED <<env, current, dirtySince, call>>

\* The overlay serves what it has been probed for, within its absorb budget.
Drained ==
  /\ call.pc = "drain" /\ job["canonicalizing"] = None /\ job["persisting"] = None
  /\ \/ overlay # None /\ call.probe # None /\ Goto("serve")
     \/ Goto("build")
  /\ UNCHANGED <<env, lapses, watch, current, served, overlay, building, job, dirtySince, failures>>

-------------------------------------------------------------------------------
(* The two ways to a new graph *)

\* The overlay with the probed files absorbed.
Absorbed(probe) ==
  [man  |-> [f \in Files |-> IF f \in DOMAIN probe THEN probe[f] ELSE overlay.man[f]],
   body |-> [f \in Files |-> IF f \in DOMAIN probe THEN Text(probe[f]) ELSE overlay.body[f]]]

\* apply_and_link_probed_persisting: the new products go over the prior pack.
ServedGeneration(ov, probe) ==
  [man   |-> ov.man,
   pack  |-> [f \in Files |-> IF f \in DOMAIN probe THEN probe[f] ELSE current.pack[f]],
   body  |-> [f \in Files |-> IF f \in DOMAIN probe THEN Text(probe[f]) ELSE current.body[f]],
   graph |-> ov.body]

\* Fault: the served graph stays pinned to the generation before it.
ServePinned ==
  /\ call.pc = "serve"
  /\ overlay' = Absorbed(call.probe)
  /\ kg' = overlay'.body
  /\ Spawn("persisting", "commit", ServedGeneration(overlay', call.probe), None)
  /\ Done
  /\ UNCHANGED <<env, lapses, watch, current, kgDir, building, dirtySince, failures>>

\* Serve from the overlay and persist behind the answer; an overlay with too
\* many dead rows is retired.
Serve ==
  /\ call.pc = "serve"
  /\ LET ov == Absorbed(call.probe) IN
       /\ kg' = ov.body
       /\ Spawn("persisting", "commit", ServedGeneration(ov, call.probe), None)
       /\ overlay' \in {ov, None}
  /\ kgDir' = None
  /\ Done
  /\ UNCHANGED <<env, lapses, watch, current, building, dirtySince, failures>>

\* What the overlay cannot absorb or link drops it.
ServeFails ==
  /\ call.pc = "serve"
  /\ Fail
  /\ overlay' = None
  /\ Goto("build")
  /\ UNCHANGED <<env, lapses, watch, current, served, building, job, dirtySince>>

\* A tick builds in the background.
BuildBehind ==
  /\ call.pc = "build" /\ call.kind = "tick"
  /\ Spawn("rebuilding", "read", None, None)
  /\ Done
  /\ UNCHANGED <<env, lapses, watch, current, served, overlay, building, dirtySince, failures>>

\* A tool call builds here: with the change set as a hint, except for every
\* 64th time.
Hints == IF kg = None \/ call.paths = {} THEN {None} ELSE {call.paths, None}
Building == call.pc = "build" /\ call.kind # "tick"

\* The graph carries over, or a scoped compose or the first build's child has
\* committed a new one, which is loaded.
BuildCommitted ==
  /\ Building
  /\ \E paths \in Hints :
       /\ current' = Built(Scanned(paths))
       /\ kg' = IF Reusable(Scanned(paths)) /\ kg # None THEN kg ELSE current'.graph
  /\ kgDir' = current'
  /\ SpawnOverlay(overlay, job)
  /\ Done
  /\ lapses' = IF overlay # None /\ overlay # [man |-> current'.man, body |-> kg']
               THEN lapses \union {"unabsorbed"} ELSE lapses
  /\ UNCHANGED <<env, watch, overlay, job, dirtySince, failures>>

\* The full pipeline hands back a sealed graph; its commit follows.  The
\* overlay absorbs the change set as it is now, or is dropped.
BuildSealed ==
  /\ Building /\ current # None
  /\ \E paths \in Hints :
       /\ ~Reusable(Scanned(paths))
       /\ kg' = Built(Scanned(paths)).graph
       /\ Spawn("persisting", "commit", Built(Scanned(paths)), None)
  /\ overlay' \in {None} \union
       (IF overlay = None \/ call.paths = None THEN {} ELSE {Absorbed([f \in call.paths |-> tree[f]])})
  /\ kgDir' = None
  /\ Done
  /\ lapses' = IF overlay' # None /\ overlay'.man # job'["persisting"].gen.man
               THEN lapses \union {"unabsorbed"} ELSE lapses
  /\ UNCHANGED <<env, watch, current, building, dirtySince, failures>>

BuildFails ==
  /\ Building
  /\ Fail
  /\ MarkDirty
  /\ Error
  /\ UNCHANGED <<env, lapses, current, served, overlay, building, job, dirtySince>>

-------------------------------------------------------------------------------
(* The answer *)

\* A tool bound to a generation waits for the committers ...
SettlePersist ==
  /\ call.pc = "settle"
  /\ ReapPersist
  /\ UNCHANGED <<env, current, dirtySince, call>>

SettleCanonicalize ==
  /\ call.pc = "settle" /\ job["persisting"] = None
  /\ AbsorbCanonicalized
  /\ UNCHANGED <<env, current, dirtySince, call>>

\* ... and pins the graph to what CURRENT names when nothing else has.
Settled ==
  /\ call.pc = "settle" /\ job["persisting"] = None /\ job["canonicalizing"] = None
  /\ kgDir' = IF kgDir = None /\ kg # None THEN current ELSE kgDir
  /\ Goto("answer")
  /\ UNCHANGED <<env, lapses, watch, current, kg, overlay, building, job, dirtySince, failures>>

Answer ==
  /\ call.pc = "answer"
  /\ call' = Idle
  /\ UNCHANGED <<env, lapses, watch, current, served, overlay, building, job, dirtySince, failures>>

-------------------------------------------------------------------------------
Notify == (\E f \in Files : Capture(f)) \/ CaptureLost
Background == \E k \in Committers : JobRead(k) \/ JobCommit(k) \/ JobFail(k)
Builder == BuilderResolve \/ BuilderFinish
Advance == AdvancePersist \/ AdvanceOverlay \/ AdvanceCanonicalize \/ AdvanceRebuild
TickStep == TickConsume \/ TickRest \/ TickStart
Refresh ==
  \/ CheckClean \/ CheckBackstop \/ CheckDirty
  \/ AdoptMoved \/ NotMoved \/ TakeChanges \/ Sweep \/ NoSweep
  \/ ProbeBusy \/ ProbeUnchanged \/ ProbeChanged
  \/ DrainCanonicalize \/ DrainPersist \/ Drained
  \/ Serve \/ ServeFails \/ BuildBehind \/ BuildCommitted \/ BuildSealed \/ BuildFails
Conclude == SettlePersist \/ SettleCanonicalize \/ Settled \/ Answer
CallStep == Advance \/ TickStep \/ Refresh \/ Conclude

Next ==
  \/ \E f \in Files : Edit(f)
  \/ Notify \/ Signal
  \/ Background \/ Builder
  \/ \E kind \in Kinds : Begin(kind)
  \/ CallStep

Spec == Init /\ [][Next]_vars

\* Threads run, the watch delivers, calls end; the pump pulses whenever the
\* client pauses, and the client asks again and again; the debounce and the
\* backstop's period run out.
FairSpec ==
  /\ Spec
  /\ WF_vars(Notify) /\ WF_vars(Signal)
  /\ WF_vars(Background) /\ WF_vars(Builder) /\ WF_vars(CallStep)
  /\ SF_vars(Begin("tick")) /\ SF_vars(TickStart)
  /\ SF_vars(Begin("query")) /\ SF_vars(CheckBackstop)

-------------------------------------------------------------------------------
(* Properties *)

\* Type correctness; and no tool call answers, or settles, without a graph.
TypeOK ==
  /\ mode \in Modes /\ tree \in Stamps /\ unseen \subseteq Files
  /\ flagging \in BOOLEAN /\ dirty \in BOOLEAN /\ dirtySince \in BOOLEAN
  /\ captured = None \/ captured \subseteq Files
  /\ current \in Generations \union {None} /\ kgDir \in Generations \union {None}
  /\ kg \in Bodies \union {None} /\ overlay \in Overlays \union {None}
  /\ lapses \subseteq {"dropped", "restamped", "late overlay", "unabsorbed", "unpersisted"}
  /\ call.pc \in {"settle", "answer"} => kg # None

\* The served graph shows what extraction sees of the tree.
Fresh == kg # None /\ \A f \in Files : kg[f] = Text(tree[f])

\* Every edit of f has reached the watch, and a refresh has taken it.
Told(f) == f \notin unseen /\ captured # None /\ f \notin captured

\* The flag is up or about to be, or a tick holds the dirt back.
Pending == dirty \/ flagging \/ dirtySince

\* A canonicalization in flight has read a tree that moved under the probe.
Overtaken ==
  LET canon == job["canonicalizing"] IN
    canon # None /\ canon.gen # None /\ canon.gen.graph # kg

\* A query never answers from before an edit the daemon has been told of: once
\* the flag is down, or a refresh has taken the edit, the answer shows the file
\* as the tree has it (ensure_fresh, server.rs 1350-1845).  The exceptions are
\* the debounce, an overtaken canonicalization, and the lapses.  The types of
\* the state are part of it.
AnswersAreFresh ==
  /\ TypeOK
  /\ (call.pc = "answer" /\ lapses = {} /\ ~Overtaken) =>
       \A f \in Files : (Told(f) \/ (f \notin unseen /\ ~Pending)) => kg[f] = Text(tree[f])

\* The artifacts a tool answers from are those of the graph it walks: kg_dir,
\* when set, names a generation with the served graph's bytes (server.rs
\* 103-105), in every run of the daemon ...
PinAlwaysMatches == (call.pc = "answer" /\ kgDir # None) => kgDir.graph = kg

\* ... and in those without a lapse.
PinMatches == lapses = {} => PinAlwaysMatches

\* A graph whose commit is in flight is pinned to no generation: what names
\* generations (page keys, generation ids, call sites) never names the one before
\* (server.rs 1638, 1791-1795).
UncommittedIsUnpinned == job["persisting"] # None => kgDir = None

\* At most one background thread is on its way to a commit (server.rs 118-122,
\* 1262-1267): the order of the commits is the order of the daemon's decisions.
OneCommitter == \A k, l \in Committers : (job[k] # None /\ job[l] # None) => k = l

\* A committed generation shows one tree: manifest, products and graph agree,
\* by whichever of the ways to a generation it came.
OneTree ==
  (lapses = {} /\ current # None) =>
    /\ current.graph = current.body
    /\ \A f \in Files : current.body[f] = Text(current.man[f])

\* No commit takes a file of CURRENT back to an older version ("an older
\* generation must never supersede a newer one", server.rs 1689-1691).
CommitsNeverInvert ==
  [][(lapses = {} /\ current # None) => \A f \in Files : current'.man[f] >= current.man[f]]_current

\* The same though an overlay kept other stamps than CURRENT: the id of a served
\* generation would be that of a scratch build (server.rs 1572-1574).
RestampedNeverInverts ==
  [][(lapses \subseteq {"restamped"} /\ current # None) =>
       \A f \in Files : current'.man[f] >= current.man[f]]_current

\* Between calls the overlay retains what the served graph shows, for every
\* file whose edits have been taken: the next serve from it cannot bring back
\* an older state of a file that did not change (server.rs 855-858).
OverlayTruthful ==
  (call.pc = "idle" /\ lapses = {} /\ overlay # None /\ kg # None) =>
    \A f \in Files : Told(f) => overlay.body[f] = kg[f]

\* When the edits stop, the served graph comes to show the tree and stays so,
\* whatever the watch captured or lost, unless a lapse has happened.
Converges == <>[](lapses = {} => Fresh)
===============================================================================
