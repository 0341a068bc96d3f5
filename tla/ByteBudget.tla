------------------------------ MODULE ByteBudget ------------------------------
(***************************************************************************)
(* ByteBudget of crates/ingest/src/pipeline.rs: the in-flight byte budget  *)
(* of the streaming ingest, as its threads execute it.  Reservation is a   *)
(* load and a compare-exchange on an atomic; exhaustion parks on a         *)
(* condition variable under the mutex "gate".  Release subtracts first,    *)
(* outside the mutex, and only then takes the mutex to wake everybody.     *)
(*                                                                         *)
(* One atomic access, one mutex acquisition or one condition-variable call *)
(* is one step.  A mutex is released with the step that ends its scope.    *)
(***************************************************************************)
EXTENDS BudgetBytes

CONSTANTS Reservers,  \* threads that call reserve
          Releasers,  \* threads that call release
          Nobody      \* not a thread, not an item

ASSUME ThreadAssumption == Nobody \notin Reservers \union Items

VARIABLES used,      \* the atomic: bytes reserved and not yet subtracted
          peak,      \* the atomic: high-water mark of used
          gate,      \* the reserver that holds the mutex, or Nobody
          rpc,       \* rpc[r]: where reserver r is inside reserve
          want,      \* want[r]: the item r is reserving
          seen,      \* seen[r]: the value of used that r last loaded
          lpc,       \* lpc[l]: where releaser l is inside release
          giving,    \* giving[l]: the item l is releasing
          held,      \* items whose reservation has returned, not yet released
          released,  \* items whose bytes were subtracted again
          high       \* history: the largest value used ever had

vars == <<used, peak, gate, rpc, want, seen, lpc, giving, held, released, high>>

Asking == {"load", "cas", "lock", "recheck", "park", "waiting", "woken"}

\* Items whose bytes are in used: of a reservation that has still to publish
\* the peak, of an item held, of a release that has not subtracted yet.
Outstanding ==
  {i \in Items : \/ \E r \in Reservers : rpc[r] = "peak" /\ want[r] = i
                 \/ i \in held
                 \/ \E l \in Releasers : lpc[l] = "sub" /\ giving[l] = i}

WaitingFor == {i \in Items : \E r \in Reservers : rpc[r] \in Asking /\ want[r] = i}

-------------------------------------------------------------------------------
Init ==
  /\ used = 0
  /\ peak = 0
  /\ gate = Nobody
  /\ rpc = [r \in Reservers |-> "idle"]
  /\ want = [r \in Reservers |-> Nobody]
  /\ seen = [r \in Reservers |-> 0]
  /\ lpc = [l \in Releasers |-> "idle"]
  /\ giving = [l \in Releasers |-> Nobody]
  /\ held = {}
  /\ released = {}
  /\ high = 0

\* reserve is called for an item nobody asked for before.
BeginReserve(r, i) ==
  /\ rpc[r] = "idle"
  /\ i \notin WaitingFor \union Outstanding \union released
  /\ rpc' = [rpc EXCEPT ![r] = "load"]
  /\ want' = [want EXCEPT ![r] = i]
  /\ UNCHANGED <<used, peak, gate, seen, lpc, giving, held, released, high>>

Fits(r, current) == current + Cost[want[r]] <= Capacity

\* let current = used.load(): room goes on to the compare-exchange, no room
\* to the mutex.
Load(r) ==
  /\ rpc[r] = "load"
  /\ seen' = [seen EXCEPT ![r] = used]
  /\ rpc' = [rpc EXCEPT ![r] = IF Fits(r, used) THEN "cas" ELSE "lock"]
  /\ UNCHANGED <<used, peak, gate, want, lpc, giving, held, released, high>>

\* Fault: a plain store in place of the compare-exchange.
StoreUsed(r) ==
  /\ rpc[r] = "cas"
  /\ used' = seen[r] + Cost[want[r]]
  /\ high' = IF used' > high THEN used' ELSE high
  /\ rpc' = [rpc EXCEPT ![r] = "peak"]
  /\ UNCHANGED <<peak, gate, want, seen, lpc, giving, held, released>>

\* Fault: fetch_add without checking the capacity again.
FetchAdd(r) ==
  /\ rpc[r] = "cas"
  /\ used' = used + Cost[want[r]]
  /\ high' = IF used' > high THEN used' ELSE high
  /\ rpc' = [rpc EXCEPT ![r] = "peak"]
  /\ UNCHANGED <<peak, gate, want, seen, lpc, giving, held, released>>

CompareExchange(r) ==
  /\ rpc[r] = "cas"
  /\ used = seen[r]
  /\ used' = used + Cost[want[r]]
  /\ high' = IF used' > high THEN used' ELSE high
  /\ rpc' = [rpc EXCEPT ![r] = "peak"]
  /\ UNCHANGED <<peak, gate, want, seen, lpc, giving, held, released>>

CompareExchangeRace(r) ==
  /\ rpc[r] = "cas"
  /\ used # seen[r]
  /\ rpc' = [rpc EXCEPT ![r] = "load"]
  /\ UNCHANGED <<used, peak, gate, want, seen, lpc, giving, held, released, high>>

\* Fault: the peak is stored, not maximised.
StorePeak(r) ==
  /\ rpc[r] = "peak"
  /\ peak' = seen[r] + Cost[want[r]]
  /\ rpc' = [rpc EXCEPT ![r] = "idle"]
  /\ want' = [want EXCEPT ![r] = Nobody]
  /\ held' = held \union {want[r]}
  /\ UNCHANGED <<used, gate, seen, lpc, giving, released, high>>

\* peak.fetch_max(current + want), then reserve returns.
PublishPeak(r) ==
  /\ rpc[r] = "peak"
  /\ LET mark == seen[r] + Cost[want[r]]
     IN  peak' = IF mark > peak THEN mark ELSE peak
  /\ rpc' = [rpc EXCEPT ![r] = "idle"]
  /\ want' = [want EXCEPT ![r] = Nobody]
  /\ held' = held \union {want[r]}
  /\ UNCHANGED <<used, gate, seen, lpc, giving, released, high>>

LockGate(r) ==
  /\ rpc[r] = "lock"
  /\ gate = Nobody
  /\ gate' = r
  /\ rpc' = [rpc EXCEPT ![r] = "recheck"]
  /\ UNCHANGED <<used, peak, want, seen, lpc, giving, held, released, high>>

\* Fault: wait without looking at the atomic again under the mutex.
NoRecheck(r) ==
  /\ rpc[r] = "recheck"
  /\ rpc' = [rpc EXCEPT ![r] = "park"]
  /\ UNCHANGED <<used, peak, gate, want, seen, lpc, giving, held, released, high>>

\* The re-check under the mutex: room drops the guard and starts over.
Recheck(r) ==
  /\ rpc[r] = "recheck"
  /\ IF Fits(r, used)
     THEN /\ gate' = Nobody
          /\ rpc' = [rpc EXCEPT ![r] = "load"]
     ELSE /\ rpc' = [rpc EXCEPT ![r] = "park"]
          /\ UNCHANGED gate
  /\ UNCHANGED <<used, peak, want, seen, lpc, giving, held, released, high>>

\* room.wait(guard): enqueues and releases the mutex atomically.
Park(r) ==
  /\ rpc[r] = "park"
  /\ gate' = Nobody
  /\ rpc' = [rpc EXCEPT ![r] = "waiting"]
  /\ UNCHANGED <<used, peak, want, seen, lpc, giving, held, released, high>>

\* A condition variable may return without a notification.
SpuriousWake(r) ==
  /\ rpc[r] = "waiting"
  /\ rpc' = [rpc EXCEPT ![r] = "woken"]
  /\ UNCHANGED <<used, peak, gate, want, seen, lpc, giving, held, released, high>>

\* A woken waiter re-acquires the mutex, drops the guard at the end of the
\* loop body and starts over.
Resume(r) ==
  /\ rpc[r] = "woken"
  /\ gate = Nobody
  /\ rpc' = [rpc EXCEPT ![r] = "load"]
  /\ UNCHANGED <<used, peak, gate, want, seen, lpc, giving, held, released, high>>

\* release is called for an item whose reservation returned.
BeginRelease(l, i) ==
  /\ lpc[l] = "idle"
  /\ i \in held
  /\ held' = held \ {i}
  /\ lpc' = [lpc EXCEPT ![l] = "sub"]
  /\ giving' = [giving EXCEPT ![l] = i]
  /\ UNCHANGED <<used, peak, gate, rpc, want, seen, released, high>>

Subtract(l) ==
  /\ lpc[l] = "sub"
  /\ used' = used - Cost[giving[l]]
  /\ released' = released \union {giving[l]}
  /\ lpc' = [lpc EXCEPT ![l] = "notify"]
  /\ giving' = [giving EXCEPT ![l] = Nobody]
  /\ UNCHANGED <<peak, gate, rpc, want, seen, held, high>>

\* Fault: notify without taking the mutex.
NotifyUnlocked(l) ==
  /\ lpc[l] = "notify"
  /\ rpc' = [r \in Reservers |-> IF rpc[r] = "waiting" THEN "woken" ELSE rpc[r]]
  /\ lpc' = [lpc EXCEPT ![l] = "idle"]
  /\ UNCHANGED <<used, peak, gate, want, seen, giving, held, released, high>>

\* gate.lock(), room.notify_all() and the end of the guard's scope.
NotifyAll(l) ==
  /\ lpc[l] = "notify"
  /\ gate = Nobody
  /\ rpc' = [r \in Reservers |-> IF rpc[r] = "waiting" THEN "woken" ELSE rpc[r]]
  /\ lpc' = [lpc EXCEPT ![l] = "idle"]
  /\ UNCHANGED <<used, peak, gate, want, seen, giving, held, released, high>>

ReserveStep(r) ==
  \/ Load(r)
  \/ CompareExchange(r)
  \/ CompareExchangeRace(r)
  \/ PublishPeak(r)
  \/ LockGate(r)
  \/ Recheck(r)
  \/ Park(r)
  \/ Resume(r)

ReleaseStep(l) == Subtract(l) \/ NotifyAll(l)

Next ==
  \/ \E r \in Reservers, i \in Items : BeginReserve(r, i)
  \/ \E r \in Reservers : ReserveStep(r) \/ SpuriousWake(r)
  \/ \E l \in Releasers, i \in Items : BeginRelease(l, i)
  \/ \E l \in Releasers : ReleaseStep(l)

Spec == Init /\ [][Next]_vars

\* The operating system runs every runnable thread.  It owes no spurious wake
\* and no new call.
Fairness ==
  /\ \A r \in Reservers : WF_vars(ReserveStep(r))
  /\ \A l \in Releasers : WF_vars(ReleaseStep(l))

FairSpec == Spec /\ Fairness

\* The threads of the pipeline release every item they hold (StreamPipeline).
HoldersRelease ==
  \A i \in Items : WF_vars(\E l \in Releasers : BeginRelease(l, i))

PipelineSpec == FairSpec /\ HoldersRelease

-------------------------------------------------------------------------------
(* Properties *)

ReserverPCs == {"idle", "peak"} \union Asking
ReleaserPCs == {"idle", "sub", "notify"}

\* Every variable keeps its type.
TypeOK ==
  /\ used \in Nat
  /\ peak \in Nat
  /\ high \in Nat
  /\ gate \in Reservers \union {Nobody}
  /\ rpc \in [Reservers -> ReserverPCs]
  /\ want \in [Reservers -> Items \union {Nobody}]
  /\ seen \in [Reservers -> Nat]
  /\ lpc \in [Releasers -> ReleaserPCs]
  /\ giving \in [Releasers -> Items \union {Nobody}]
  /\ held \subseteq Items
  /\ released \subseteq Items

\* The accounts always balance: the atomic equals the bytes of the items that
\* are reserved and not yet subtracted, and never passes the capacity, even
\* for a file larger than the whole budget ("both sides apply the identical
\* clamp, so accounts always balance").
AccountsBalance == used = Bytes(Outstanding) /\ used <= Capacity

\* No wakeup is lost: if a reserver sleeps while its bytes would fit, a
\* release that made the room has still to notify.  This is what the re-check
\* under the mutex and the notification under the mutex are for.
NoLostWakeup ==
  \A r \in Reservers :
    (rpc[r] = "waiting" /\ Fits(r, used)) => \E l \in Releasers : lpc[l] = "notify"

\* The published peak is the true high-water mark as soon as no reservation is
\* between its compare-exchange and its fetch_max, and never passes capacity.
PeakIsHighWater ==
  /\ peak <= Capacity
  /\ (\A r \in Reservers : rpc[r] # "peak") => peak = high

\* Every call of reserve returns, for an empty, an ordinary and an oversized
\* file alike, as long as holders release ("progress over precision for the
\* pathological case").
ReserveReturns ==
  \A r \in Reservers : rpc[r] \in Asking ~> rpc[r] = "idle"

\* The detailed budget implements the semaphore its callers rely on.
Contract == INSTANCE BudgetContract
              WITH waitingFor <- WaitingFor, outstanding <- Outstanding

ImplementsContract == Contract!Spec
===============================================================================
