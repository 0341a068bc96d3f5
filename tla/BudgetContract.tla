---------------------------- MODULE BudgetContract ----------------------------
(***************************************************************************)
(* What the in-flight byte budget promises its callers: a counting         *)
(* semaphore over bytes.  An item is acquired at most once, only while its *)
(* bytes fit beside those of every item still outstanding, and it gives    *)
(* back exactly what it took.  Nothing here says how waiting is done:      *)
(* ByteBudget does, and implements this module.                            *)
(***************************************************************************)
EXTENDS BudgetBytes

VARIABLES waitingFor,   \* items somebody has asked to reserve
          outstanding,  \* items reserved and not yet released
          released      \* items released

vars == <<waitingFor, outstanding, released>>

Init ==
  /\ waitingFor = {}
  /\ outstanding = {}
  /\ released = {}

Ask(i) ==
  /\ i \notin waitingFor \union outstanding \union released
  /\ waitingFor' = waitingFor \union {i}
  /\ UNCHANGED <<outstanding, released>>

Acquire(i) ==
  /\ i \in waitingFor
  /\ Bytes(outstanding) + Cost[i] <= Capacity
  /\ waitingFor' = waitingFor \ {i}
  /\ outstanding' = outstanding \union {i}
  /\ UNCHANGED released

Release(i) ==
  /\ i \in outstanding
  /\ outstanding' = outstanding \ {i}
  /\ released' = released \union {i}
  /\ UNCHANGED waitingFor

Next == \E i \in Items : Ask(i) \/ Acquire(i) \/ Release(i)

\* The environment need not ask, and need not release; but whoever waits is
\* served once its bytes fit for good.
Spec == Init /\ [][Next]_vars /\ \A i \in Items : WF_vars(Acquire(i))
===============================================================================
