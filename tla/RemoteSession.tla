---------------------------- MODULE RemoteSession ----------------------------
(* A remote scan in agent mode: crates/cli/src/remote/session.rs (one session  *)
(* per node), agent.rs (the process it talks to), producer.rs (the fan-out) and*)
(* utils/worker.rs (the consumer).                                             *)
(*                                                                             *)
(* Each node's agent writes frames into a pipe of bounded size; its session    *)
(* forwards the rendered fragments, under the cap on results all sessions      *)
(* share, into a bounded channel; a forwarder thread passes them to the        *)
(* printer.  One step is one frame, one channel operation, one look at the     *)
(* shared counter or one exit.                                                 *)
(*                                                                             *)
(* Abstractions.  A fragment is its node, its place and its number of matches. *)
(* Reading a bulky write (the loader's preamble, a job larger than the pipe) is*)
(* one step with the write, which cannot end before.  A process whose session  *)
(* ends dies with it (kill_on_drop).  A missing exit status is success, as ssh *)
(* reports it.  Partial results are not allowed for (--remote-allow-partial).  *)
EXTENDS Naturals, Sequences, FiniteSets, SequencesExt, FiniteSetsExt

CONSTANTS
  Nodes,        \* the targets
  Counts,       \* what a node's files hold: the matches of each fragment
  Modes,        \* the cases: the nodes in use, the cap on results (0: none), whether an
                \* agent is pushed, through the loader, with a bulky job, and what may fail
  Pipe,         \* frames a stdout pipe holds
  Window,       \* REMOTE_WINDOW, the fragments each channel holds
  MaxFaults,    \* bound on the nodes that fail
  None, Gone

NodeFaults == {"unreachable", "refused", "slow", "died", "wedged", "aborted", "garbled"}

ASSUME RemoteAssumption ==
  /\ IsFiniteSet(Nodes)
  /\ Counts \in [Nodes -> Seq(Nat \ {0})]
  /\ Pipe \in Nat \ {0} /\ Window \in Nat \ {0}
  /\ Modes \subseteq [nodes : SUBSET Nodes, cap : Nat, pushed : BOOLEAN, loader : BOOLEAN,
                      bulky : BOOLEAN, faults : SUBSET (NodeFaults \cup {"printer"})]
  /\ None # Gone
  /\ \A x \in {None, Gone} : x \notin [type : {"rendered"}, node : Nodes, seq : Nat, count : Nat]

VARIABLES
  mode,       \* the case at hand
  agent,      \* a node's process: where it is, and the fragments written
  fault,      \* what has gone wrong with a node
  inbox,      \* messages in a node's stdin pipe
  out,        \* frames in a node's stdout pipe
  ses,        \* a session: where it is, the fragment it holds, whether it failed
  pushed,     \* the nodes a pushed binary lies on
  claimed,    \* MaxItemCounter: matches claimed
  failures,   \* NodeOutcomes: the nodes recorded as failed
  chan,       \* the sessions' channel to the forwarder
  fwd,        \* the forwarder: None, the fragment it holds, or Gone
  sink,       \* the forwarder's channel to the printer
  printed,    \* fragments printed
  printer,    \* "printing" or "failed"
  exit        \* how the command ended

nodeVars == <<agent, fault, inbox, out>>
sinkVars == <<sink, printed, printer, exit>>
vars == <<mode, agent, fault, inbox, out, ses, pushed, claimed, failures, chan, fwd,
          sink, printed, printer, exit>>

Capped     == mode.cap > 0
ReachedMax == Capped /\ claimed >= mode.cap

(* The matches of the first k fragments, and what an agent sends in all: it    *)
(* stops at the cap by its own count and cuts the fragment that passes it.     *)
Upto(n, k)   == Cardinality(UNION {{i} \X (1..Counts[n][i]) : i \in 1..k})
Matches(n, k) == IF Capped /\ Upto(n, k) > mode.cap THEN mode.cap - Upto(n, k - 1) ELSE Counts[n][k]
Sends(n)     == {k \in 1..Len(Counts[n]) : ~Capped \/ Upto(n, k - 1) < mode.cap}

Fragment(n, k) == [type |-> "rendered", node |-> n, seq |-> k, count |-> Matches(n, k)]
Frame(t)       == [type |-> t]
Fragments      == UNION {{Fragment(n, k) : k \in Sends(n)} : n \in mode.nodes}

Init ==
  /\ mode \in Modes
  /\ agent = [n \in Nodes |-> [pc |-> "off", sent |-> 0]]
  /\ fault = [n \in Nodes |-> "none"]
  /\ inbox = [n \in Nodes |-> {}] /\ out = [n \in Nodes |-> <<>>]
  /\ ses = [n \in Nodes |-> [pc |-> IF n \in mode.nodes THEN "dial" ELSE "joined", held |-> None, failed |-> FALSE]]
  /\ pushed = {} /\ claimed = 0 /\ failures = {}
  /\ chan = <<>> /\ fwd = None /\ sink = <<>>
  /\ printed = {} /\ printer = "printing" /\ exit = "none"

(* A fault of a node: one per node, MaxFaults in all.                          *)
Strikes(n, f) ==
  /\ f \in mode.faults
  /\ fault[n] = "none"
  /\ Cardinality({m \in Nodes : fault[m] # "none"}) < MaxFaults
  /\ fault' = [fault EXCEPT ![n] = f]

(*-------------------------------- the agent ---------------------------------*)

Wedged(n) == fault[n] = "wedged"
Exited(n) == agent[n].pc \in {"exit0", "exit1"}
Room(n)   == Len(out[n]) < Pipe
Write(n, frame) == Room(n) /\ out' = [out EXCEPT ![n] = Append(@, frame)]
Goto(n, pc)     == agent' = [agent EXCEPT ![n].pc = pc]

(* Hello is answered with Welcome, or refused (version, grammars).             *)
AgentHello(n) ==
  /\ agent[n].pc = "hello" /\ "hello" \in inbox[n]
  /\ inbox' = [inbox EXCEPT ![n] = @ \ {"hello"}]
  /\ \/ Goto(n, "job") /\ Write(n, Frame("welcome")) /\ UNCHANGED fault
     \/ Goto(n, "bye") /\ Strikes(n, "refused") /\ UNCHANGED out

(* Job and Assign start the walk, or are refused (language environment, rules).*)
AgentJob(n) ==
  /\ agent[n].pc = "job" /\ "job" \in inbox[n]
  /\ inbox' = [inbox EXCEPT ![n] = @ \ {"job"}]
  /\ \/ Goto(n, "walk") /\ UNCHANGED fault
     \/ Goto(n, "bye") /\ Strikes(n, "refused")
  /\ UNCHANGED out

AgentEmits(n) ==
  /\ agent[n].pc = "walk" /\ agent[n].sent + 1 \in Sends(n)
  /\ Write(n, Fragment(n, agent[n].sent + 1))
  /\ agent' = [agent EXCEPT ![n].sent = @ + 1]
  /\ UNCHANGED <<inbox, fault>>

(* Heartbeats share the writer with the walk, until the job ends.              *)
AgentBeats(n) ==
  /\ agent[n].pc = "walk"
  /\ Write(n, Frame("heartbeat"))
  /\ UNCHANGED <<agent, inbox, fault>>

AgentFinishes(n) ==
  /\ agent[n].pc = "walk" /\ agent[n].sent + 1 \notin Sends(n)
  /\ Write(n, Frame("done")) /\ Goto(n, "exit0")
  /\ UNCHANGED <<inbox, fault>>

(* An error of the job is a Bye, and exit status zero.                         *)
AgentAborts(n) ==
  /\ agent[n].pc = "walk" /\ Strikes(n, "aborted") /\ Goto(n, "bye")
  /\ UNCHANGED <<inbox, out>>

AgentBye(n) ==
  /\ agent[n].pc = "bye" /\ Write(n, Frame("bye")) /\ Goto(n, "exit0")
  /\ UNCHANGED <<inbox, fault>>

(* The process dies, or stops for good without dying.                          *)
Running(n) == agent[n].pc \notin {"off", "exit0", "exit1"}
AgentDies(n) ==
  /\ Running(n) /\ Strikes(n, "died")
  /\ \E pc \in {"exit0", "exit1"} : Goto(n, pc)
  /\ UNCHANGED <<inbox, out>>
AgentWedges(n) ==
  /\ Running(n) /\ Strikes(n, "wedged")
  /\ UNCHANGED <<agent, inbox, out>>

AgentStep(n) ==
  /\ ~Wedged(n)
  /\ AgentHello(n) \/ AgentJob(n) \/ AgentEmits(n) \/ AgentFinishes(n) \/ AgentBye(n)
AgentFault(n) == ~Wedged(n) /\ (AgentAborts(n) \/ AgentDies(n) \/ AgentWedges(n))
AgentAction(n) ==
  /\ AgentStep(n) \/ (~Wedged(n) /\ AgentBeats(n)) \/ AgentFault(n)
  /\ UNCHANGED <<mode, ses, pushed, claimed, failures, chan, fwd, sinkVars>>

(*------------------------------- the session --------------------------------*)

At(n, pc)    == ses[n].pc = pc
Moves(n, pc) == ses' = [ses EXCEPT ![n].pc = pc]
Fails(n)     == ses' = [ses EXCEPT ![n].pc = "cleanup", ![n].failed = TRUE, ![n].held = None]
Reaps(n)     == agent' = [agent EXCEPT ![n].pc = IF @ = "exit0" THEN @ ELSE "exit1"]
EndOfFile(n) == out[n] = <<>> /\ Exited(n)

(* Nodes are dialed one after the other, and an agent is pushed then; a node   *)
(* that cannot be reached is recorded and skipped.                             *)
Dial(n) ==
  /\ At(n, "dial")
  /\ \/ /\ Moves(n, "exec")
        /\ pushed' = IF mode.pushed THEN pushed \cup {n} ELSE pushed
        /\ UNCHANGED <<fault, failures>>
     \/ /\ Moves(n, "joined") /\ Strikes(n, "unreachable")
        /\ failures' = failures \cup {n}
        /\ UNCHANGED pushed
  /\ UNCHANGED <<agent, inbox, out, claimed, chan>>

Exec(n) ==
  /\ At(n, "exec")
  /\ \/ /\ Goto(n, IF mode.loader THEN "loader" ELSE "hello")
        /\ Moves(n, IF mode.loader THEN "preamble" ELSE "hello")
        /\ UNCHANGED fault
     \/ Fails(n) /\ Strikes(n, "unreachable") /\ UNCHANGED agent
  /\ UNCHANGED <<inbox, out, pushed, claimed, failures, chan>>

(* The signed agent goes to the loader, which reads it all and becomes it.     *)
Preamble(n) ==
  /\ At(n, "preamble")
  /\ \/ agent[n].pc = "loader" /\ ~Wedged(n) /\ Goto(n, "hello") /\ Moves(n, "hello")
     \/ Exited(n) /\ Fails(n) /\ UNCHANGED agent
  /\ UNCHANGED <<fault, inbox, out, pushed, claimed, failures, chan>>

SendHello(n) ==
  /\ At(n, "hello")
  /\ IF Exited(n)
     THEN Fails(n) /\ UNCHANGED inbox
     ELSE Moves(n, "welcome") /\ inbox' = [inbox EXCEPT ![n] = @ \cup {"hello"}]
  /\ UNCHANGED <<agent, fault, out, pushed, claimed, failures, chan>>

ReadWelcome(n) ==
  /\ At(n, "welcome")
  /\ \/ /\ out[n] # <<>> /\ out' = [out EXCEPT ![n] = Tail(@)]
        /\ IF Head(out[n]).type = "welcome" THEN Moves(n, "job") /\ UNCHANGED agent ELSE Fails(n) /\ Reaps(n)
     \/ EndOfFile(n) /\ Fails(n) /\ Reaps(n) /\ UNCHANGED out
  /\ UNCHANGED <<fault, inbox, pushed, claimed, failures, chan>>

(* The watchdog of the handshake: for a wedged agent, and for a slow one.      *)
HandshakeTimeout(n) ==
  /\ At(n, "welcome")
  /\ \/ Wedged(n) /\ UNCHANGED fault
     \/ Strikes(n, "slow")
  /\ Reaps(n) /\ Fails(n)
  /\ UNCHANGED <<inbox, out, pushed, claimed, failures, chan>>

(* Job and Assign; a bulky job is written while the agent reads it.            *)
SendJob(n) ==
  /\ At(n, "job")
  /\ \/ Exited(n) /\ Fails(n) /\ UNCHANGED inbox
     \/ /\ ~Exited(n)
        /\ mode.bulky => agent[n].pc = "job" /\ ~Wedged(n)
        /\ Moves(n, "drain") /\ inbox' = [inbox EXCEPT ![n] = @ \cup {"job"}]
  /\ UNCHANGED <<agent, fault, out, pushed, claimed, failures, chan>>

(* Fault: fragments past the cap are forwarded all the same.                   *)
ReceiveUncapped(n) ==
  /\ Head(out[n]).type = "rendered"
  /\ ses' = [ses EXCEPT ![n].pc = "send", ![n].held = Head(out[n])]
  /\ UNCHANGED <<agent, fault>>

(* Fault: reaching the cap kills the agent, whose status then counts.          *)
ReceiveKilling(n) ==
  /\ Head(out[n]).type = "rendered"
  /\ IF ReachedMax
     THEN Moves(n, "wait") /\ Goto(n, "exit1")
     ELSE ses' = [ses EXCEPT ![n].pc = "send", ![n].held = Head(out[n])] /\ UNCHANGED agent
  /\ UNCHANGED fault

(* A rendered fragment: dropped, with all that follow, once the cap is reached;*)
(* else decoded and held for the channel.                                      *)
Receive(n) ==
  /\ Head(out[n]).type = "rendered"
  /\ IF ReachedMax
     THEN Moves(n, "wait") /\ UNCHANGED fault
     ELSE \/ ses' = [ses EXCEPT ![n].pc = "send", ![n].held = Head(out[n])] /\ UNCHANGED fault
          \/ Strikes(n, "garbled") /\ Fails(n)
  /\ UNCHANGED agent

Read(n) ==
  /\ At(n, "drain") /\ out[n] # <<>>
  /\ out' = [out EXCEPT ![n] = Tail(@)]
  /\ \/ Receive(n)
     \/ /\ UNCHANGED <<agent, fault>>
        /\ CASE Head(out[n]).type = "heartbeat" -> UNCHANGED ses
             [] Head(out[n]).type = "done"      -> Moves(n, "wait")
             [] Head(out[n]).type = "bye"       -> Fails(n)
             [] OTHER                           -> FALSE
  /\ UNCHANGED <<inbox, pushed, claimed, failures, chan>>

(* Fault: the end of the stream is taken for the end of the job.               *)
ReadEofDone(n) ==
  /\ At(n, "drain") /\ EndOfFile(n) /\ Moves(n, "wait")
  /\ UNCHANGED <<agent, fault, inbox, out, pushed, claimed, failures, chan>>

ReadEof(n) ==
  /\ At(n, "drain") /\ EndOfFile(n) /\ Fails(n)
  /\ UNCHANGED <<agent, fault, inbox, out, pushed, claimed, failures, chan>>

(* Fault: the deadline is that of the whole handshake only.                    *)
ReadTimeoutNever(n) == At(n, "drain") /\ out[n] = <<>> /\ Wedged(n) /\ At(n, "welcome") /\ UNCHANGED vars

(* No frame within the deadline: only a wedged agent is silent for so long.    *)
ReadTimeout(n) ==
  /\ At(n, "drain") /\ out[n] = <<>> /\ Wedged(n)
  /\ Reaps(n) /\ Fails(n)
  /\ UNCHANGED <<fault, inbox, out, pushed, claimed, failures, chan>>

(* The channel takes the fragment, and then its matches are claimed; a channel *)
(* nobody reads ends the drain.                                                *)
Send(n) ==
  /\ At(n, "send")
  /\ \/ fwd # Gone /\ Len(chan) < Window /\ chan' = Append(chan, ses[n].held) /\ Moves(n, "claim")
     \/ fwd = Gone /\ ses' = [ses EXCEPT ![n].pc = "wait", ![n].held = None] /\ UNCHANGED chan
  /\ UNCHANGED <<nodeVars, pushed, claimed, failures>>

Claim(n) ==
  /\ At(n, "claim")
  /\ claimed' = IF Capped THEN claimed + ses[n].held.count ELSE claimed
  /\ ses' = [ses EXCEPT ![n].pc = "drain", ![n].held = None]
  /\ UNCHANGED <<nodeVars, pushed, failures, chan>>

(* The wait for the exit, without a deadline and without reading on.           *)
WaitExit(n) ==
  /\ At(n, "wait") /\ Exited(n)
  /\ ses' = [ses EXCEPT ![n].pc = "cleanup", ![n].failed = agent[n].pc = "exit1"]
  /\ UNCHANGED <<nodeVars, pushed, claimed, failures, chan>>

(* Fault: the error of the session is returned before the cleanup.             *)
CleanupIfOk(n) ==
  /\ At(n, "cleanup") /\ Moves(n, "record") /\ Reaps(n)
  /\ pushed' = IF ses[n].failed THEN pushed ELSE pushed \ {n}
  /\ UNCHANGED <<fault, inbox, out, claimed, failures, chan>>

(* run_inner: the process went with drive_agent_session; the pushed binary is  *)
(* removed, whatever the outcome.                                              *)
Cleanup(n) ==
  /\ At(n, "cleanup") /\ Moves(n, "record") /\ Reaps(n)
  /\ pushed' = pushed \ {n}
  /\ UNCHANGED <<fault, inbox, out, claimed, failures, chan>>

(* run: a failure is recorded, and the task ends.                              *)
Record(n) ==
  /\ At(n, "record") /\ Moves(n, "joined")
  /\ failures' = IF ses[n].failed THEN failures \cup {n} ELSE failures
  /\ UNCHANGED <<nodeVars, pushed, claimed, chan>>

SessionStep(n) ==
  \/ Dial(n) \/ Exec(n) \/ Preamble(n) \/ SendHello(n) \/ ReadWelcome(n) \/ HandshakeTimeout(n)
  \/ SendJob(n) \/ Read(n) \/ ReadEof(n) \/ ReadTimeout(n) \/ Send(n) \/ Claim(n)
  \/ WaitExit(n) \/ Cleanup(n) \/ Record(n)
SessionAction(n) == SessionStep(n) /\ UNCHANGED <<mode, fwd, sinkVars>>

(*------------------------- forwarder, printer, exit -------------------------*)

(* The sessions' senders went with their tasks, and produce drops its own once *)
(* it has joined them all.                                                     *)
SendersGone == \A n \in Nodes : At(n, "joined")

Forward ==
  /\ \/ /\ fwd = None /\ chan # <<>>
        /\ fwd' = Head(chan) /\ chan' = Tail(chan) /\ UNCHANGED sink
     \/ /\ fwd \notin {None, Gone}
        /\ \/ printer = "printing" /\ Len(sink) < Window /\ sink' = Append(sink, fwd) /\ fwd' = None
           \/ printer = "failed" /\ fwd' = Gone /\ UNCHANGED sink
        /\ UNCHANGED chan
     \/ fwd = None /\ chan = <<>> /\ SendersGone /\ fwd' = Gone /\ UNCHANGED <<chan, sink>>
  /\ UNCHANGED <<mode, nodeVars, ses, pushed, claimed, failures, printed, printer, exit>>

(* consume_items: print to the end of the stream, or to the first error; then  *)
(* into_final.  The thread of the producer is not joined.                      *)
Prints ==
  /\ printer = "printing" /\ sink # <<>>
  /\ \/ printed' = printed \cup {Head(sink)} /\ sink' = Tail(sink) /\ UNCHANGED printer
     \/ "printer" \in mode.faults /\ printer' = "failed" /\ sink' = <<>> /\ UNCHANGED printed
  /\ UNCHANGED <<mode, nodeVars, ses, pushed, claimed, failures, chan, fwd, exit>>

Exits ==
  /\ \/ printer = "failed" /\ exit' = "error"
     \/ /\ printer = "printing" /\ sink = <<>> /\ fwd = Gone
        /\ exit' = IF failures = {} THEN "ok" ELSE "incomplete"
  /\ UNCHANGED <<mode, nodeVars, ses, pushed, claimed, failures, chan, fwd, sink, printed, printer>>

Next ==
  /\ exit = "none"
  /\ \/ \E n \in Nodes : AgentAction(n) \/ SessionAction(n)
     \/ Forward \/ Prints \/ Exits

Spec == Init /\ [][Next]_vars

(* Threads and processes run; an agent's walk gets its turns at the writer it  *)
(* shares with a thread that sleeps between beats; deadlines pass.  Nothing    *)
(* must fail.                                                                  *)
Live(A) == exit = "none" /\ A
Faultless == fault' = fault
Fairness ==
  /\ \A n \in Nodes :
       /\ SF_vars(Live(AgentStep(n) /\ Faultless
                       /\ UNCHANGED <<mode, ses, pushed, claimed, failures, chan, fwd, sinkVars>>))
       /\ WF_vars(Live(SessionAction(n) /\ Faultless))
  /\ WF_vars(Live(Forward)) /\ WF_vars(Live(Prints)) /\ WF_vars(Live(Exits))

FairSpec == Spec /\ Fairness

(*-------------------------------- properties --------------------------------*)

SesPcs == {"dial", "exec", "preamble", "hello", "welcome", "job", "drain", "send", "claim",
           "wait", "cleanup", "record", "joined"}
AgentPcs == {"off", "loader", "hello", "job", "walk", "bye", "exit0", "exit1"}

(* Pipes and channels stay within their sizes, a session holds a fragment      *)
(* exactly while it sends or claims it, and no fragment is in two places (the  *)
(* buffers of session.rs and producer.rs).                                     *)
TypeOK ==
  /\ mode \in Modes
  /\ agent \in [Nodes -> [pc : AgentPcs, sent : Nat]]
  /\ fault \in [Nodes -> NodeFaults \cup {"none"}]
  /\ \A n \in Nodes :
       /\ Len(out[n]) <= Pipe
       /\ ses[n].pc \in SesPcs /\ ses[n].failed \in BOOLEAN
       /\ IF ses[n].pc \in {"send", "claim"} THEN ses[n].held \in Fragments ELSE ses[n].held = None
  /\ Len(chan) <= Window /\ Len(sink) <= Window
  /\ ToSet(chan) \cup ToSet(sink) \cup printed \subseteq Fragments
  /\ Cardinality(printed) + Len(chan) + Len(sink) <= Cardinality(Fragments)
  /\ claimed \in Nat /\ failures \subseteq mode.nodes /\ pushed \subseteq mode.nodes

MatchesOf(S) == Cardinality(UNION {{f} \X (1..f.count) : f \in S})
Available    == MatchesOf(Fragments)

(* A command that reports success has printed every fragment of every node, or *)
(* as many matches as the cap allows: a dead or failed node makes the run      *)
(* incomplete (producer.rs 42-44), however its failure races the end of the    *)
(* stream.                                                                     *)
SuccessIsComplete ==
  exit = "ok" => MatchesOf(printed) >= (IF Capped THEN Min({mode.cap, Available}) ELSE Available)

(* The cap is exact for one node, and exceeded by less than a fragment per node*)
(* for several: the sessions look at the counter before they forward and claim *)
(* after (session.rs 240-250).  Nothing is forwarded twice or held in excess   *)
(* (TypeOK).                                                                   *)
Largest  == Max({f.count : f \in Fragments} \cup {0})
Forwarded == printed \cup ToSet(sink) \cup ToSet(chan)
             \cup (IF fwd \in {None, Gone} THEN {} ELSE {fwd})
CapHolds ==
  TypeOK /\ (Capped => MatchesOf(Forwarded) <=
    (IF Cardinality(mode.nodes) = 1 THEN mode.cap ELSE mode.cap - 1 + Cardinality(mode.nodes) * Largest))

(* The cap as documented (producer.rs 127-128): exceeded by one fragment at    *)
(* most.                                                                       *)
CapByOneFragment == Capped => MatchesOf(Forwarded) <= mode.cap + Largest

(* Every pushed binary is gone when the command ends, unless the printer failed*)
(* and the command left its sessions behind (session.rs 109-112).              *)
NoResidue == exit \in {"ok", "incomplete"} => pushed = {}

(* A node nothing has happened to is not reported as failed: the cap, a printer*)
(* that hung up and its quiet stretches are no failures of it.                 *)
HealthyNodesSucceed == \A n \in Nodes : n \in failures => fault[n] # "none"

(* A session that waits, without a deadline, for a process that will not move: *)
(* wedged, or blocked on a pipe the session no longer reads.                   *)
Unguarded(n) ==
  /\ ~Exited(n)
  /\ \/ ses[n].pc \in {"preamble", "job"} /\ Wedged(n)
     \/ ses[n].pc = "wait" /\ (Wedged(n) \/ ~Room(n))

(* A wedged or dying node fails alone: each session ends, save in the waits no *)
(* deadline guards (session.rs 151-161, 204-209, 268-271).                     *)
EachSessionEnds == \A n \in Nodes : <>(exit # "none" \/ At(n, "joined") \/ Unguarded(n))

(* As the comments say (session.rs 23, 214): no node hangs the command.        *)
CommandEnds == <>(exit # "none")
==============================================================================
