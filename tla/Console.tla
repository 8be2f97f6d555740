------------------------------ MODULE Console ------------------------------
(***************************************************************************)
(* The strategy console (src/webui/index.html) in one browser, driving the *)
(* control server, and what must be true of the two.  The page's Run and   *)
(* Stop buttons are enabled by what it believes; the strategy's summary    *)
(* line makes it stop the run by itself.  Its event stream stays connected.*)
(***************************************************************************)
EXTENDS ControlServer

VARIABLES
  shown,      \* the page says "running": Run is disabled
  stopOff,    \* Stop is disabled
  finishing,  \* a /stop is on its way
  inbox,      \* summary lines on the event stream
  alone,      \* history: the request that has had the server to itself, or None
  failure     \* history: a launch or a stage has failed since Run was last pressed

consoleVars == <<shown, stopOff, finishing, inbox, alone, failure>>
vars == <<serverVars, consoleVars>>

Init ==
  /\ ServerInit
  /\ shown = FALSE /\ stopOff = TRUE /\ finishing = FALSE /\ inbox = 0
  /\ alone = None /\ failure = FALSE

Send(q) ==
  /\ Request(q)
  /\ alone' = IF \E other \in Requests : Active(other) THEN None ELSE q

PressRun(r) ==
  /\ ~shown
  /\ \A earlier \in Runs : earlier < r => at[earlier] # "idle"
  /\ Send(r)
  /\ shown' = TRUE /\ stopOff' = FALSE
  /\ failure' = FALSE
  /\ UNCHANGED <<finishing, inbox>>

\* stopPipeline, up to its await.
StopPipeline(s) ==
  /\ ~finishing
  /\ Send(s)
  /\ finishing' = TRUE /\ stopOff' = TRUE
  /\ UNCHANGED <<shown, failure>>

PressStop(s) == ~stopOff /\ StopPipeline(s) /\ UNCHANGED inbox

\* A summary line arrives: onRunFinished.
SummaryStops(s) ==
  /\ inbox > 0
  /\ inbox' = inbox - 1
  /\ shown
  /\ StopPipeline(s)

SummaryIgnored ==
  /\ inbox > 0
  /\ inbox' = inbox - 1
  /\ ~shown \/ finishing
  /\ UNCHANGED <<serverVars, shown, stopOff, finishing, alone, failure>>

\* Variant: the flag is not reset.
StillFinishing == TRUE

NotFinishing == FALSE

\* stopPipeline, after its await: the server has answered.
StopAnswered(s) ==
  /\ StopDone(s)
  /\ shown' = FALSE /\ stopOff' = TRUE
  /\ finishing' = NotFinishing
  /\ UNCHANGED <<inbox, alone, failure>>

\* An answer to /run changes nothing on the page: a failed launch is an ok: false
\* with status 200.
Serve(q) ==
  /\ q \in Runs \/ at[q] # "log"
  /\ Handle(q)
  /\ failure' = (failure \/ (q \in Runs /\ at'[q] = "complain"))
  /\ UNCHANGED <<shown, stopOff, finishing, inbox, alone>>

Relay(r) ==
  /\ Forward(r)
  /\ inbox' = inbox + 1
  /\ UNCHANGED <<shown, stopOff, finishing, alone, failure>>

StrategyFinishes(r) == StrategyEnds(r) /\ UNCHANGED consoleVars
ExecutionFinishes(r) == ExecutionEnds(r) /\ UNCHANGED consoleVars

StageBreaks(stage) ==
  /\ StageFails(stage)
  /\ failure' = TRUE
  /\ UNCHANGED <<shown, stopOff, finishing, inbox, alone>>

User == (\E r \in Runs : PressRun(r)) \/ (\E s \in Stops : PressStop(s))

Page == (\E s \in Stops : SummaryStops(s) \/ StopAnswered(s)) \/ SummaryIgnored

Next ==
  \/ User
  \/ Page
  \/ \E q \in Requests : Serve(q)
  \/ \E r \in Runs : Relay(r) \/ StrategyFinishes(r) \/ ExecutionFinishes(r)
  \/ \E stage \in Stages : StageBreaks(stage)

\* Threads and the page run; a strategy that gets ticks ends, by its orders or
\* by its time.  Nobody has to press a button.
Spec ==
  /\ Init
  /\ [][Next]_vars
  /\ WF_vars(Page)
  /\ \A q \in Requests : WF_vars(Serve(q))
  /\ \A r \in Runs : WF_vars(Relay(r)) /\ WF_vars(StrategyFinishes(r))

----------------------------------------------------------------------------
\* The variables have their types, the lock is held exactly by a request that is
\* killing a pipeline, and one that runs has been spawned in full.
TypeOK ==
  /\ at \in [Requests -> {"idle", "announce", "take", "kill", "sweep", "log", "clean",
                          "launch", "complain", "done", "failed"}]
  /\ lock \in Requests \cup {None}
  /\ \A q \in Requests : lock = q <=> at[q] \in {"kill", "sweep"}
  /\ running \in Runs \cup {None} /\ taken \in Runs \cup {None}
  /\ children \in [Runs -> 0..Len(StageOrder)]
  /\ running # None => children[running] = Len(StageOrder)
  /\ procs \subseteq Stages /\ printed \subseteq Runs
  /\ inbox \in Nat
  /\ alone \in Requests \cup {None}

\* A run starts clean: while a launch that has the server to itself spawns its
\* stages, and once its pipeline is stored, no stage of an earlier run is alive,
\* not even one that a failed launch left without a handle.
CleanStart ==
  \A r \in Runs :
    alone = r /\ (at[r] = "launch" \/ running = r) => procs \subseteq StagesOf(r)

\* No stage slips away: one that is alive belongs to a launch under way, to one
\* that failed, or to one that was stored, and then a pipeline is in the Hub or
\* being killed, so that the next stop, or the kill, sweeps it away, even when the
\* Hub has another run's pipeline by now.
WithinReach ==
  /\ \A stage \in procs :
       /\ at[stage[1]] \in {"launch", "complain", "failed", "done"}
       /\ at[stage[1]] = "done" => running # None \/ lock # None
  /\ running # None => at[running] = "done"

\* A stop that has the server to itself leaves nothing running but what a failed
\* launch had started: stages a concurrent run lost the handles of included.
StopStops ==
  [][\A s \in Stops : alone = s /\ at[s] = "log" /\ at'[s] = "idle" =>
       \A stage \in procs' : at'[stage[1]] = "failed"]_vars

\* What `alone` means, and what a stop that is alone has found.
Undisturbed ==
  /\ alone # None => \A q \in Requests : q # alone => ~Active(q)
  /\ alone \in Stops /\ at[alone] = "log" =>
       \A stage \in procs : at[stage[1]] = "failed"

\* The inductive invariant of the server and its page.
ConsoleInvariant == TypeOK /\ WithinReach /\ Undisturbed /\ CleanStart

\* Every request is answered: no thread waits for the lock for ever.
RequestsAnswered == \A q \in Requests : Active(q) ~> ~Active(q)

\* A run ends on the page by itself, however its stops and starts overlap, unless
\* a launch or a stage fails: it is finite (control_server.rs:32-40), where
\* Makefile:60 and strategy.rs:140-142 have the studio flow without bound.  After a
\* failure no summary comes and the page does hang "running", where
\* control_server.rs:37-39 says it never does.
RunEnds == shown ~> (~shown \/ failure)

----------------------------------------------------------------------------
\* control_server.rs:15: the server "tears the pipeline down cleanly on POST
\* /stop".
StopTearsDown ==
  [][\A s \in Stops : at[s] = "log" /\ at'[s] = "idle" => procs' = {}]_vars
=============================================================================
