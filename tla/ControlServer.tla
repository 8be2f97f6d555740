--------------------------- MODULE ControlServer ---------------------------
(***************************************************************************)
(* The control server: src/src/bin/control_server.rs.  Each HTTP request   *)
(* is handled on a thread of its own; what the threads share is the Hub    *)
(* behind its lock and, through the operating system, the stages: a sweep  *)
(* kills by name whatever stage runs, whoever started it.                  *)
(*                                                                         *)
(* A step is what a thread does between two points where another thread    *)
(* can get in.  `lock` is the guard of the Hub while it is held over       *)
(* several steps; a log_line needs it for an instant.  Of the lines that   *)
(* the stages print only the strategy's summary matters to anyone.         *)
(*                                                                         *)
(* Left out: the parameters of a run, the pages served, shared-memory      *)
(* files, and a child's stderr.                                            *)
(***************************************************************************)
EXTENDS Naturals, Sequences, FiniteSets

CONSTANTS
  Runs,    \* POST /run requests, numbered as they are sent
  Stops,   \* POST /stop requests; one may be sent again when it is answered
  None     \* Option::None

ASSUME RequestsAssumption ==
  Runs \subseteq Nat /\ Runs \cap Stops = {} /\ None \notin Runs \cup Stops

Requests == Runs \cup Stops

\* The order in which launch spawns the stages: consumers first.
StageOrder == <<"execution", "strategy", "exchange">>

Stages == Runs \X {"execution", "strategy", "exchange"}

StagesOf(r) == {stage \in Stages : stage[1] = r}

VARIABLES
  at,        \* [Requests -> where its thread is]
  lock,      \* the request that holds the Hub's lock over several steps, or None
  running,   \* Hub.running: the run whose pipeline it is, or None
  taken,     \* the pipeline the lock's holder took out of the Hub, or None
  children,  \* [Runs -> how many stages its launch has spawned]
  procs,     \* the stages alive in the operating system
  printed    \* runs whose strategy's summary is in its pipe, not yet read

serverVars == <<at, lock, running, taken, children, procs, printed>>

ServerInit ==
  /\ at = [q \in Requests |-> "idle"]
  /\ lock = None /\ running = None
  /\ taken = None
  /\ children = [r \in Runs |-> 0]
  /\ procs = {} /\ printed = {}

Goto(q, label) == at' = [at EXCEPT ![q] = label]

Unlocked == lock = None

Active(q) == at[q] \notin {"idle", "done", "failed"}

----------------------------------------------------------------------------
(* run_pipeline and stop_pipeline *)

Request(q) ==
  /\ at[q] = "idle"
  /\ Goto(q, IF q \in Runs THEN "announce" ELSE "take")
  /\ UNCHANGED <<lock, running, taken, children, procs, printed>>

\* log_line: launching pipeline.
Announce(r) ==
  /\ at[r] = "announce"
  /\ Unlocked
  /\ Goto(r, "take")
  /\ UNCHANGED <<lock, running, taken, children, procs, printed>>

AfterTake(q) == IF q \in Runs THEN "clean" ELSE "log"

TakeNothing(q) ==
  /\ at[q] = "take"
  /\ Unlocked
  /\ running = None
  /\ Goto(q, AfterTake(q))
  /\ UNCHANGED <<lock, running, taken, children, procs, printed>>

\* The running pipeline is taken out and killed with the lock held.
TakeRunning(q) ==
  /\ at[q] = "take"
  /\ Unlocked
  /\ running # None
  /\ lock' = q
  /\ taken' = running
  /\ running' = None
  /\ Goto(q, "kill")
  /\ UNCHANGED <<children, procs, printed>>

\* RunningPipeline::kill, its children first.
Kill(q) ==
  /\ at[q] = "kill"
  /\ procs' = procs \ StagesOf(taken)
  /\ taken' = None
  /\ Goto(q, "sweep")
  /\ UNCHANGED <<lock, running, children, printed>>

\* Variant: the sweep finds nothing.
Unswept == procs

\* What pkill -9 leaves of the stages.
Swept == {}

\* Variant: stop_pipeline logs with its guard alive.
HeldByStop(q) == IF q \in Stops THEN q ELSE None

\* The guard ends with the block in run_pipeline, with drop(h) in stop_pipeline.
AfterKill(q) == None

\* RunningPipeline::kill, the sweep; then the lock is released.
Sweep(q) ==
  /\ at[q] = "sweep"
  /\ procs' = Swept
  /\ lock' = AfterKill(q)
  /\ Goto(q, AfterTake(q))
  /\ UNCHANGED <<running, taken, children, printed>>

\* log_line: pipeline stopped; then the answer.
StopDone(s) ==
  /\ at[s] = "log"
  /\ Unlocked
  /\ Goto(s, "idle")
  /\ UNCHANGED <<lock, running, taken, children, procs, printed>>

----------------------------------------------------------------------------
(* launch, which holds no lock *)

Clean(r) ==
  /\ at[r] = "clean"
  /\ procs' = Swept
  /\ children' = [children EXCEPT ![r] = 0]
  /\ Goto(r, "launch")
  /\ UNCHANGED <<lock, running, taken, printed>>

\* One stage, and the pause after it.
SpawnStage(r) ==
  /\ at[r] = "launch"
  /\ children[r] < Len(StageOrder)
  /\ children' = [children EXCEPT ![r] = @ + 1]
  /\ procs' = procs \cup {<<r, StageOrder[children'[r]]>>}
  /\ UNCHANGED <<at, lock, running, taken, printed>>

\* The `?` of launch: the handles of the stages already spawned are dropped,
\* which does not end them.
SpawnFails(r) ==
  /\ at[r] = "launch"
  /\ children[r] < Len(StageOrder)
  /\ Goto(r, "complain")
  /\ UNCHANGED <<lock, running, taken, children, procs, printed>>

\* log_line: launch failed; then the answer.
Complain(r) ==
  /\ at[r] = "complain"
  /\ Unlocked
  /\ Goto(r, "failed")
  /\ UNCHANGED <<lock, running, taken, children, procs, printed>>

\* The pipeline replaces whatever the Hub has by now; then the answer.
Store(r) ==
  /\ at[r] = "launch"
  /\ children[r] = Len(StageOrder)
  /\ Unlocked
  /\ running' = r
  /\ Goto(r, "done")
  /\ UNCHANGED <<lock, taken, children, procs, printed>>

----------------------------------------------------------------------------
(* The stages. *)

\* Its orders sent or its time over, which it sees on a tick: it prints its
\* summary.
StrategyEnds(r) ==
  /\ <<r, "strategy">> \in procs
  /\ \E x \in Runs : <<x, "exchange">> \in procs
  /\ procs' = procs \ {<<r, "strategy">>}
  /\ printed' = printed \cup {r}
  /\ UNCHANGED <<at, lock, running, taken, children>>

\* A stage that leaves main by an error: a service it cannot open or publish to,
\* as when a stage of an earlier launch still holds it, or a loan, send or receive
\* that fails.  It prints no summary.
StageFails(stage) ==
  /\ stage \in procs
  /\ procs' = procs \ {stage}
  /\ UNCHANGED <<at, lock, running, taken, children, printed>>

\* Its fills seen.  The exchange ends by an error or a signal only.
ExecutionEnds(r) ==
  /\ <<r, "execution">> \in procs
  /\ procs' = procs \ {<<r, "execution">>}
  /\ UNCHANGED <<at, lock, running, taken, children, printed>>

\* The thread that forwards the stage's output, through log_line.
Forward(r) ==
  /\ r \in printed
  /\ Unlocked
  /\ printed' = printed \ {r}
  /\ UNCHANGED <<at, lock, running, taken, children, procs>>

----------------------------------------------------------------------------
Handle(q) ==
  \/ TakeNothing(q) \/ TakeRunning(q) \/ Kill(q) \/ Sweep(q)
  \/ q \in Stops /\ StopDone(q)
  \/ q \in Runs /\ (Announce(q) \/ Clean(q) \/ SpawnStage(q) \/ SpawnFails(q)
                    \/ Complain(q) \/ Store(q))
=============================================================================
