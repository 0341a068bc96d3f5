-------------------------- MODULE GenerationContract --------------------------
(***************************************************************************)
(* What an index root promises its readers: a build publishes a whole      *)
(* generation in one step, a reader gets one whole generation and nothing  *)
(* of another, and only a reader overtaken by two publications, or one     *)
(* that came before the first, is turned away.                             *)
(***************************************************************************)
EXTENDS Integers

CONSTANTS Generations,  \* the complete generations
          None,         \* no generation yet
          Readers

VARIABLES published,  \* the generation a reader gets now, or None
          reading     \* reading[r]: what reader r is doing, with which
                      \* generation, and how many publications ago it began

vars == <<published, reading>>

At(pc, gen, behind) == [pc |-> pc, gen |-> gen, behind |-> behind]

Init ==
  /\ published = None
  /\ reading = [r \in Readers |-> At("idle", None, 0)]

\* Two publications are as good as more.
Overtaken(b) == IF b < 2 THEN b + 1 ELSE 2

Publish ==
  /\ published' \in Generations
  /\ reading' = [r \in Readers |->
                   IF reading[r].pc = "open"
                   THEN [reading[r] EXCEPT !.behind = Overtaken(@)]
                   ELSE reading[r]]

Begin(r) ==
  /\ reading[r].pc = "idle"
  /\ reading' = [reading EXCEPT ![r] = At("open", published, 0)]
  /\ UNCHANGED published

Load(r) ==
  /\ reading[r].pc = "open"
  /\ reading[r].gen \in Generations
  /\ reading' = [reading EXCEPT ![r] = At("loaded", reading[r].gen, 0)]
  /\ UNCHANGED published

TurnAway(r) ==
  /\ reading[r].pc = "open"
  /\ reading[r].gen = None \/ reading[r].behind = 2
  /\ reading' = [reading EXCEPT ![r] = At("idle", None, 0)]
  /\ UNCHANGED published

Close(r) ==
  /\ reading[r].pc = "loaded"
  /\ reading' = [reading EXCEPT ![r] = At("idle", None, 0)]
  /\ UNCHANGED published

Next == Publish \/ \E r \in Readers : Begin(r) \/ Load(r) \/ TurnAway(r) \/ Close(r)

Spec == Init /\ [][Next]_vars
===============================================================================
