---------------------------- MODULE StreamPipeline ----------------------------
(***************************************************************************)
(* stream_apply_impl of crates/ingest/src/pipeline.rs, its fan-out path:   *)
(*                                                                         *)
(*   admission -> work channel -> workers -> slot channels -> committers   *)
(*             -> done channel -> absorber -> the merged graph             *)
(*                                                                         *)
(* Admission reserves each entry's bytes in the in-flight budget (used as  *)
(* the semaphore of BudgetContract, which ByteBudget implements); the      *)
(* bytes come back when the committer applies the entry, or earlier when   *)
(* the entry yields nothing.  One channel operation, one budget operation, *)
(* one flag access or one merge is one step.                               *)
(*                                                                         *)
(* Abstractions.  An entry is its manifest-order sequence number, and a    *)
(* per-file writer is the entry it was built from.  at[e] says which       *)
(* channel, buffer or thread has the entry: work-channel order is manifest *)
(* order (one sender), slot-channel and done-channel order is arbitrary    *)
(* (many senders; both consumers reorder).  Husk recycling, statistics and *)
(* the scaling probe are left out: they only carry capacity and telemetry. *)
(***************************************************************************)
EXTENDS BudgetBytes, Sequences

CONSTANTS N,           \* entries.len()
          ShardSize,   \* files per shard
          Committers,  \* number of committer threads
          Workers,     \* the worker threads
          WorkCap,     \* capacity of the work channel
          SlotCap,     \* capacity of each slot channel
          Skippable,   \* entries whose extraction may yield nothing
          Fallible,    \* entries whose work, or whose fresh-product sink, may fail
          Panicky,     \* entries whose work may panic
          SinkFails,   \* whether the reference spill or the streamed heap may fail
          Idle         \* not an entry, not a shard

Entries == 0..(N - 1)
NumShards == (N + ShardSize - 1) \div ShardSize
Shards == 0..(NumShards - 1)
CommitterIds == 0..(Committers - 1)

ASSUME PipelineAssumption ==
  /\ ShardSize \in Nat \ {0}
  /\ N \in Nat /\ N > ShardSize        \* smaller trees take the serial path
  /\ Committers \in 1..NumShards
  /\ Workers # {}
  /\ WorkCap \in Nat \ {0} /\ SlotCap \in Nat \ {0}
  /\ Items = Entries
  /\ Skippable \union Fallible \union Panicky \subseteq Entries
  /\ SinkFails \in BOOLEAN
  /\ Idle \notin Entries \union Shards

VARIABLES at,         \* at[e]: where entry e is
          kind,       \* kind[e]: what its work yielded
          admission,  \* where the calling thread is
          nextEntry,  \* the next entry to admit
          used,       \* bytes in flight
          abort,      \* the abort flag
          firstError, \* the entry whose error will be returned, or Idle
          worker,     \* worker[w]: where worker w is
          working,    \* working[w]: the entry worker w has, or Idle
          committer,  \* committer[c]: whether committer c still runs
          draining,   \* draining[c]: the shard committer c is draining, or Idle
          expected,   \* expected[s]: the next entry shard s will apply
          shardLog,   \* shardLog[s]: the entries applied to shard s's writer
          shardAt,    \* shardAt[s]: who has shard s's writer
          absorber,   \* whether the absorber still runs
          nextAbsorb, \* the next shard to merge
          graph,      \* the merged writer: entries in merge order
          sinkError,  \* whether the reference sink failed
          result      \* "none", then what the call returned

admissionVars == <<admission, nextEntry>>
workerVars == <<worker, working>>
errorVars == <<abort, firstError>>
committerVars == <<committer, draining, expected, shardLog>>
absorberVars == <<absorber, nextAbsorb, graph, sinkError>>
vars == <<at, kind, used, shardAt, result, admissionVars, workerVars, errorVars,
          committerVars, absorberVars>>

ShardOf(e) == e \div ShardSize
CommitterOf(s) == s % Committers
ShardEnd(s) == IF (s + 1) * ShardSize < N THEN (s + 1) * ShardSize ELSE N

Queued == {e \in Entries : at[e] = "queued"}
SlotsOf(c) == {e \in Entries : at[e] = "slot" /\ CommitterOf(ShardOf(e)) = c}

\* Entries whose reservation is still in the budget.
InFlight ==
  {e \in Entries : \/ at[e] \in {"reserved", "queued", "taken", "lost"}
                   \/ at[e] \in {"shipping", "slot", "pending"} /\ kind[e] = "applied"}

AllWorkersExited == \A w \in Workers : worker[w] = "exited"
AllCommittersExited == \A c \in CommitterIds : committer[c] = "exited"

-------------------------------------------------------------------------------
Init ==
  /\ at = [e \in Entries |-> "listed"]
  /\ kind = [e \in Entries |-> "none"]
  /\ admission = "check"
  /\ nextEntry = 0
  /\ used = 0
  /\ abort = FALSE
  /\ firstError = Idle
  /\ worker = [w \in Workers |-> "recv"]
  /\ working = [w \in Workers |-> Idle]
  /\ committer = [c \in CommitterIds |-> "recv"]
  /\ draining = [c \in CommitterIds |-> Idle]
  /\ expected = [s \in Shards |-> s * ShardSize]
  /\ shardLog = [s \in Shards |-> <<>>]
  /\ shardAt = [s \in Shards |-> "open"]
  /\ absorber = "recv"
  /\ nextAbsorb = 0
  /\ graph = <<>>
  /\ sinkError = FALSE
  /\ result = "none"

-------------------------------------------------------------------------------
(* Admission, on the calling thread: manifest order, budget-gated. *)

\* The loop head: abort is looked at here, and nowhere else on this thread.
CheckAbort ==
  /\ admission = "check"
  /\ admission' = IF nextEntry = N \/ abort THEN "drain" ELSE "reserve"
  /\ UNCHANGED <<at, kind, nextEntry, used, shardAt, result, workerVars, errorVars,
                 committerVars, absorberVars>>

\* budget.reserve blocks until the bytes fit.
Reserve ==
  /\ admission = "reserve"
  /\ used + Cost[nextEntry] <= Capacity
  /\ used' = used + Cost[nextEntry]
  /\ at' = [at EXCEPT ![nextEntry] = "reserved"]
  /\ admission' = "send"
  /\ UNCHANGED <<kind, nextEntry, shardAt, result, workerVars, errorVars,
                 committerVars, absorberVars>>

SendWork ==
  /\ admission = "send"
  /\ ~AllWorkersExited
  /\ Cardinality(Queued) < WorkCap
  /\ at' = [at EXCEPT ![nextEntry] = "queued"]
  /\ nextEntry' = nextEntry + 1
  /\ admission' = "check"
  /\ UNCHANGED <<kind, used, shardAt, result, workerVars, errorVars, committerVars,
                 absorberVars>>

\* Every receiver is gone: the send fails and admission stops.
SendRefused ==
  /\ admission = "send"
  /\ AllWorkersExited
  /\ admission' = "drain"
  /\ UNCHANGED <<at, kind, nextEntry, used, shardAt, result, workerVars, errorVars,
                 committerVars, absorberVars>>

Admit == CheckAbort \/ Reserve \/ SendWork \/ SendRefused

-------------------------------------------------------------------------------
(* Workers. *)

TakeWork(w) ==
  /\ worker[w] = "recv"
  /\ \E e \in Queued :
       /\ \A d \in Queued : e <= d
       /\ at' = [at EXCEPT ![e] = "taken"]
       /\ working' = [working EXCEPT ![w] = e]
  /\ worker' = [worker EXCEPT ![w] = "start"]
  /\ UNCHANGED <<kind, used, shardAt, result, admissionVars, errorVars, committerVars,
                 absorberVars>>

\* Fault: an entry dropped after the abort keeps its bytes.
DropUnreleased(w) ==
  /\ worker[w] = "start"
  /\ IF abort
     THEN /\ at' = [at EXCEPT ![working[w]] = "dropped"]
          /\ worker' = [worker EXCEPT ![w] = "recv"]
          /\ working' = [working EXCEPT ![w] = Idle]
     ELSE /\ worker' = [worker EXCEPT ![w] = "work"]
          /\ UNCHANGED <<at, working>>
  /\ UNCHANGED <<kind, used, shardAt, result, admissionVars, errorVars, committerVars,
                 absorberVars>>

\* An entry received after the abort is released and dropped.
StartWork(w) ==
  /\ worker[w] = "start"
  /\ IF abort
     THEN /\ used' = used - Cost[working[w]]
          /\ at' = [at EXCEPT ![working[w]] = "dropped"]
          /\ worker' = [worker EXCEPT ![w] = "recv"]
          /\ working' = [working EXCEPT ![w] = Idle]
     ELSE /\ worker' = [worker EXCEPT ![w] = "work"]
          /\ UNCHANGED <<used, at, working>>
  /\ UNCHANGED <<kind, shardAt, result, admissionVars, errorVars, committerVars,
                 absorberVars>>

\* Extraction (or replay) succeeded and was applied to a private writer: the
\* slot carries the reservation on to the committer.
WorkApplied(w) ==
  /\ worker[w] = "work"
  /\ kind' = [kind EXCEPT ![working[w]] = "applied"]
  /\ at' = [at EXCEPT ![working[w]] = "shipping"]
  /\ worker' = [worker EXCEPT ![w] = "ship"]
  /\ UNCHANGED <<used, working, shardAt, result, admissionVars, errorVars,
                 committerVars, absorberVars>>

\* Nothing to apply: the bytes go back at once, the skip still travels so that
\* the shard's order advances.
WorkSkipped(w) ==
  /\ worker[w] = "work"
  /\ working[w] \in Skippable
  /\ used' = used - Cost[working[w]]
  /\ kind' = [kind EXCEPT ![working[w]] = "skipped"]
  /\ at' = [at EXCEPT ![working[w]] = "shipping"]
  /\ worker' = [worker EXCEPT ![w] = "ship"]
  /\ UNCHANGED <<working, shardAt, result, admissionVars, errorVars, committerVars,
                 absorberVars>>

\* work, the decode of its bytes or the fresh-product sink failed: release
\* first, then fail, and no slot is sent.
WorkErr(w) ==
  /\ worker[w] = "work"
  /\ working[w] \in Fallible
  /\ used' = used - Cost[working[w]]
  /\ at' = [at EXCEPT ![working[w]] = "failed"]
  /\ worker' = [worker EXCEPT ![w] = "fail"]
  /\ UNCHANGED <<kind, working, shardAt, result, admissionVars, errorVars,
                 committerVars, absorberVars>>

\* Fault: the flag is raised, the error is not kept.
RaiseFlagOnly(w) ==
  /\ worker[w] = "fail"
  /\ abort' = TRUE
  /\ worker' = [worker EXCEPT ![w] = "recv"]
  /\ working' = [working EXCEPT ![w] = Idle]
  /\ UNCHANGED <<at, kind, used, firstError, shardAt, result, admissionVars,
                 committerVars, absorberVars>>

\* fail: raise the flag, keep the first error.
RaiseAbort(w) ==
  /\ worker[w] = "fail"
  /\ abort' = TRUE
  /\ firstError' = IF firstError = Idle THEN working[w] ELSE firstError
  /\ worker' = [worker EXCEPT ![w] = "recv"]
  /\ working' = [working EXCEPT ![w] = Idle]
  /\ UNCHANGED <<at, kind, used, shardAt, result, admissionVars, committerVars,
                 absorberVars>>

\* work panicked: the thread unwinds with its entry, releasing and sending
\* nothing; its join is ignored later.
WorkPanic(w) ==
  /\ worker[w] = "work"
  /\ working[w] \in Panicky
  /\ at' = [at EXCEPT ![working[w]] = "lost"]
  /\ worker' = [worker EXCEPT ![w] = "exited"]
  /\ working' = [working EXCEPT ![w] = Idle]
  /\ UNCHANGED <<kind, used, shardAt, result, admissionVars, errorVars,
                 committerVars, absorberVars>>

Ship(w) ==
  /\ worker[w] = "ship"
  /\ Cardinality(SlotsOf(CommitterOf(ShardOf(working[w])))) < SlotCap
  /\ at' = [at EXCEPT ![working[w]] = "slot"]
  /\ worker' = [worker EXCEPT ![w] = "recv"]
  /\ working' = [working EXCEPT ![w] = Idle]
  /\ UNCHANGED <<kind, used, shardAt, result, admissionVars, errorVars, committerVars,
                 absorberVars>>

\* The work channel is closed and empty.
WorkerExit(w) ==
  /\ worker[w] = "recv"
  /\ Queued = {}
  /\ admission = "drain"
  /\ worker' = [worker EXCEPT ![w] = "exited"]
  /\ UNCHANGED <<at, kind, used, working, shardAt, result, admissionVars, errorVars,
                 committerVars, absorberVars>>

WorkerStep(w) ==
  \/ TakeWork(w)
  \/ StartWork(w)
  \/ WorkApplied(w)
  \/ WorkSkipped(w)
  \/ WorkErr(w)
  \/ RaiseAbort(w)
  \/ WorkPanic(w)
  \/ Ship(w)
  \/ WorkerExit(w)

-------------------------------------------------------------------------------
(* Committers: each owns the shards congruent to its index. *)

\* Fault: a committer accepts only the entry its shard expects.
ReceiveExpected(c) ==
  /\ committer[c] = "recv"
  /\ draining[c] = Idle
  /\ \E e \in SlotsOf(c) :
       /\ e = expected[ShardOf(e)]
       /\ at' = [at EXCEPT ![e] = "pending"]
       /\ draining' = [draining EXCEPT ![c] = ShardOf(e)]
  /\ UNCHANGED <<kind, used, shardAt, result, admissionVars, workerVars, errorVars,
                 committer, expected, shardLog, absorberVars>>

\* Receiving never waits for the expected entry: whatever arrives goes into
\* the shard's reorder buffer.
ReceiveSlot(c) ==
  /\ committer[c] = "recv"
  /\ draining[c] = Idle
  /\ \E e \in SlotsOf(c) :
       /\ at' = [at EXCEPT ![e] = "pending"]
       /\ draining' = [draining EXCEPT ![c] = ShardOf(e)]
  /\ UNCHANGED <<kind, used, shardAt, result, admissionVars, workerVars, errorVars,
                 committer, expected, shardLog, absorberVars>>

NextInShard(s) == expected[s] < ShardEnd(s) /\ at[expected[s]] = "pending"

\* Fault: entries are spliced as they arrive, without the reorder buffer.
ApplyArrival(c) ==
  /\ draining[c] # Idle
  /\ \E e \in Entries :
       /\ at[e] = "pending" /\ ShardOf(e) = draining[c]
       /\ expected' = [expected EXCEPT ![draining[c]] = @ + 1]
       /\ IF kind[e] = "applied"
          THEN /\ shardLog' = [shardLog EXCEPT ![draining[c]] = Append(@, e)]
               /\ used' = used - Cost[e]
          ELSE UNCHANGED <<shardLog, used>>
       /\ at' = [at EXCEPT ![e] = "committed"]
  /\ UNCHANGED <<kind, shardAt, result, admissionVars, workerVars, errorVars,
                 committer, draining, absorberVars>>

\* The next entry of the shard is buffered: splice it in, give its bytes back.
ApplyExpected(c) ==
  /\ draining[c] # Idle
  /\ NextInShard(draining[c])
  /\ LET s == draining[c]
         e == expected[s]
     IN  /\ expected' = [expected EXCEPT ![s] = e + 1]
         /\ IF kind[e] = "applied"
            THEN /\ shardLog' = [shardLog EXCEPT ![s] = Append(shardLog[s], e)]
                 /\ used' = used - Cost[e]
            ELSE UNCHANGED <<shardLog, used>>
         /\ at' = [at EXCEPT ![e] = "committed"]
  /\ UNCHANGED <<kind, shardAt, result, admissionVars, workerVars, errorVars,
                 committer, draining, absorberVars>>

\* The run of buffered entries ends; a complete shard goes to the absorber.
EndDrain(c) ==
  /\ draining[c] # Idle
  /\ ~NextInShard(draining[c])
  /\ shardAt' = IF expected[draining[c]] = ShardEnd(draining[c])
                THEN [shardAt EXCEPT ![draining[c]] = "done"]
                ELSE shardAt
  /\ draining' = [draining EXCEPT ![c] = Idle]
  /\ UNCHANGED <<at, kind, used, result, admissionVars, workerVars, errorVars,
                 committer, expected, shardLog, absorberVars>>

\* The slot channel is empty and its last sender, a worker, is gone.
CommitterExit(c) ==
  /\ committer[c] = "recv"
  /\ draining[c] = Idle
  /\ SlotsOf(c) = {}
  /\ AllWorkersExited
  /\ committer' = [committer EXCEPT ![c] = "exited"]
  /\ UNCHANGED <<at, kind, used, shardAt, result, admissionVars, workerVars,
                 errorVars, draining, expected, shardLog, absorberVars>>

CommitterStep(c) ==
  \/ ReceiveSlot(c)
  \/ ApplyExpected(c)
  \/ EndDrain(c)
  \/ CommitterExit(c)

-------------------------------------------------------------------------------
(* The absorber: complete shards are held back and merged in shard order. *)

NextHeld == nextAbsorb < NumShards /\ shardAt[nextAbsorb] = "held"

ReceiveShard ==
  /\ absorber = "recv"
  /\ ~NextHeld
  /\ \E s \in Shards :
       /\ shardAt[s] = "done"
       /\ shardAt' = [shardAt EXCEPT ![s] = "held"]
  /\ UNCHANGED <<at, kind, used, result, admissionVars, workerVars, errorVars,
                 committerVars, absorberVars>>

\* Fault: shards are merged as they complete.
AbsorbArrival ==
  /\ absorber = "recv"
  /\ \E s \in Shards :
       /\ shardAt[s] = "held"
       /\ graph' = graph \o shardLog[s]
       /\ shardAt' = [shardAt EXCEPT ![s] = "merged"]
  /\ nextAbsorb' = nextAbsorb + 1
  /\ sinkError' \in {sinkError, sinkError \/ SinkFails}
  /\ UNCHANGED <<at, kind, used, result, admissionVars, workerVars, errorVars,
                 committerVars, absorber>>

\* absorb_shard: splice the next shard on, spill its references.
AbsorbShard ==
  /\ graph' = graph \o shardLog[nextAbsorb]
  /\ shardAt' = [shardAt EXCEPT ![nextAbsorb] = "merged"]
  /\ nextAbsorb' = nextAbsorb + 1
  /\ sinkError' \in {sinkError, sinkError \/ SinkFails}

AbsorbNext ==
  /\ absorber = "recv"
  /\ NextHeld
  /\ AbsorbShard
  /\ UNCHANGED <<at, kind, used, result, admissionVars, workerVars, errorVars,
                 committerVars, absorber>>

\* The done channel is empty and its senders, committers and caller, are gone.
AbsorberExit ==
  /\ absorber = "recv"
  /\ ~NextHeld
  /\ \A s \in Shards : shardAt[s] # "done"
  /\ AllCommittersExited
  /\ admission = "drain"
  /\ absorber' = "exited"
  /\ UNCHANGED <<at, kind, used, shardAt, result, admissionVars, workerVars,
                 errorVars, committerVars, nextAbsorb, graph, sinkError>>

AbsorberStep == ReceiveShard \/ AbsorbNext \/ AbsorberExit

-------------------------------------------------------------------------------
(* The caller again, once every thread is joined. *)

Joined ==
  /\ result = "none"
  /\ admission = "drain"
  /\ AllWorkersExited
  /\ AllCommittersExited
  /\ absorber = "exited"

ReturnFirstError ==
  /\ Joined
  /\ firstError # Idle
  /\ result' = "err"
  /\ UNCHANGED <<at, kind, used, shardAt, admissionVars, workerVars, errorVars,
                 committerVars, absorberVars>>

\* Fault: the first error is not looked at.
JoinedAnyhow == Joined

\* No work failed.
JoinedWithoutError == Joined /\ firstError = Idle

\* Shards the absorber did not merge, held back or still with a committer, are
\* folded in shard order, whatever they lack.
FoldLeftover ==
  /\ JoinedWithoutError
  /\ nextAbsorb < NumShards
  /\ AbsorbShard
  /\ UNCHANGED <<at, kind, used, result, admissionVars, workerVars, errorVars,
                 committerVars, absorber>>

\* Return the graph, unless a sink failed or its heap cannot be reopened.
ReturnGraph ==
  /\ JoinedWithoutError
  /\ nextAbsorb = NumShards
  /\ sinkError' \in {sinkError, sinkError \/ SinkFails}
  /\ result' = IF sinkError' THEN "err" ELSE "ok"
  /\ UNCHANGED <<at, kind, used, shardAt, admissionVars, workerVars, errorVars, committerVars,
                 absorber, nextAbsorb, graph>>

Return == ReturnFirstError \/ FoldLeftover \/ ReturnGraph

Next ==
  \/ Admit
  \/ \E w \in Workers : WorkerStep(w)
  \/ \E c \in CommitterIds : CommitterStep(c)
  \/ AbsorberStep
  \/ Return

Spec == Init /\ [][Next]_vars

\* Scoped operating-system threads: each one that can run, runs.  Which outcome
\* work has is not fair.
Fairness ==
  /\ WF_vars(Admit)
  /\ \A w \in Workers : WF_vars(WorkerStep(w))
  /\ \A c \in CommitterIds : WF_vars(CommitterStep(c))
  /\ WF_vars(AbsorberStep)
  /\ WF_vars(Return)

FairSpec == Spec /\ Fairness

-------------------------------------------------------------------------------
(* Properties *)

Stages == {"listed", "reserved", "queued", "taken", "shipping", "slot", "pending",
           "committed", "dropped", "failed", "lost"}

\* Every variable keeps its type, and a thread that has an entry says so.
TypeOK ==
  /\ at \in [Entries -> Stages]
  /\ kind \in [Entries -> {"none", "applied", "skipped"}]
  /\ admission \in {"check", "reserve", "send", "drain"}
  /\ nextEntry \in 0..N
  /\ used \in Nat
  /\ abort \in BOOLEAN
  /\ firstError \in Entries \union {Idle}
  /\ worker \in [Workers -> {"recv", "start", "work", "fail", "ship", "exited"}]
  /\ working \in [Workers -> Entries \union {Idle}]
  /\ committer \in [CommitterIds -> {"recv", "exited"}]
  /\ draining \in [CommitterIds -> Shards \union {Idle}]
  /\ expected \in [Shards -> 0..N]
  /\ shardLog \in [Shards -> Seq(Entries)]
  /\ shardAt \in [Shards -> {"open", "done", "held", "merged"}]
  /\ absorber \in {"recv", "exited"}
  /\ nextAbsorb \in 0..NumShards
  /\ graph \in Seq(Entries)
  /\ sinkError \in BOOLEAN
  /\ result \in {"none", "ok", "err"}

\* Every byte in the budget belongs to exactly one entry between its admission
\* and its application (or its skip, error or drop), whatever thread, channel
\* or reorder buffer has it, and the sum never exceeds the budget; and every
\* variable keeps its type.
BytesAccounted == TypeOK /\ used = Bytes(InFlight) /\ used <= Capacity

\* The batch path.
Ordered == INSTANCE OrderedBuild WITH merged <- nextAbsorb

\* What the batch path yields for the entries of the first k shards.
BatchPrefix(k) ==
  Ordered!InOrder({e \in Entries : ShardOf(e) < k /\ kind[e] = "applied"})

\* "Ordering and therefore output are identical to the batch path": the merged
\* graph is the batch output of the shards merged so far, under any schedule of
\* workers, committers and absorber; only what a panic left incomplete may be
\* folded in otherwise, once the absorber has ended.
MergedLikeBatch ==
  (absorber = "recv" \/ \A e \in Entries : at[e] # "lost") => graph = BatchPrefix(nextAbsorb)

\* "A partial graph is never produced": what is returned as a graph has every
\* entry, except those the work closure itself skipped, once and in order.
OkIsComplete ==
  result = "ok" =>
    /\ \A e \in Entries : at[e] = "committed"
    /\ graph = BatchPrefix(NumShards)
    /\ used = 0

\* The same, with worker panics as the only exception: no error, drop, race or
\* early exit of a thread lets a partial graph through.
OkIsCompleteOrPanicked == (\A e \in Entries : at[e] # "lost") => OkIsComplete

\* The call returns.
Termination == <>(result # "none")

\* "The first Err from work aborts the run and is returned": once work failed,
\* the call returns the error.
AbortReturns == (\E e \in Entries : at[e] = "failed") ~> result = "err"

\* The pipeline implements the build it replaces.
ImplementsOrderedBuild == Ordered!Spec
===============================================================================
