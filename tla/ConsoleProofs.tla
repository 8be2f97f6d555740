--------------------------- MODULE ConsoleProofs ---------------------------
(***************************************************************************)
(* For any set of runs and of stops: the lock discipline, that no stage of *)
(* a stored pipeline slips out of reach, and that an undisturbed start or  *)
(* stop is clean.                                                          *)
(***************************************************************************)
EXTENDS Console, TLAPS

\* Nothing runs and nobody is active at first.
LEMMA InitInvariant == Init => ConsoleInvariant
  BY RequestsAssumption
     DEF Init, ServerInit, ConsoleInvariant, TypeOK, WithinReach, Undisturbed,
         CleanStart, Active, Requests, StageOrder

\* A launch that is announced has touched nothing yet.
LEMMA AnnouncePreserves ==
  ASSUME ConsoleInvariant, NEW r \in Runs,
         Announce(r), UNCHANGED <<inbox, alone>>
  PROVE  ConsoleInvariant'
<1>1. TypeOK'
  BY DEF TypeOK, ConsoleInvariant, Goto, Announce
<1>2. WithinReach'
  BY DEF WithinReach, ConsoleInvariant, Goto, Announce
<1>3. Undisturbed'
  BY DEF Undisturbed, ConsoleInvariant, Goto, Active, Announce
<1>4. CleanStart'
  BY DEF CleanStart, ConsoleInvariant, Goto, Announce
<1> QED
  BY <1>1, <1>2, <1>3, <1>4 DEF ConsoleInvariant

\* The Hub is empty and free: whatever is alive belongs to a launch under way or
\* to a failed one, so a stop that is alone has only the latter to find.
LEMMA TakeNothingPreserves ==
  ASSUME ConsoleInvariant, NEW q \in Requests,
         TakeNothing(q), UNCHANGED <<inbox, alone>>
  PROVE  ConsoleInvariant'
<1>1. TypeOK'
  BY DEF TypeOK, ConsoleInvariant, Goto, TakeNothing, AfterTake
<1>2. WithinReach'
  BY DEF WithinReach, ConsoleInvariant, Goto, TakeNothing
<1>3. Undisturbed'
  BY DEF TypeOK, WithinReach, Undisturbed, ConsoleInvariant, Goto, Active,
       Requests, Stages, Unlocked, TakeNothing
<1>4. CleanStart'
  BY DEF CleanStart, ConsoleInvariant, Goto, TakeNothing, AfterTake
<1> QED
  BY <1>1, <1>2, <1>3, <1>4 DEF ConsoleInvariant

\* The lock now stands for the pipeline that is being killed.
LEMMA TakeRunningPreserves ==
  ASSUME ConsoleInvariant, NEW q \in Requests,
         TakeRunning(q), UNCHANGED <<inbox, alone>>
  PROVE  ConsoleInvariant'
<1>1. TypeOK'
  BY RequestsAssumption DEF TypeOK, ConsoleInvariant, Goto, Requests,
       Unlocked, TakeRunning
<1>2. WithinReach'
  BY DEF TypeOK, WithinReach, ConsoleInvariant, Goto, Unlocked, TakeRunning
<1>3. Undisturbed'
  BY DEF Undisturbed, ConsoleInvariant, Goto, Active, TakeRunning
<1>4. CleanStart'
  BY RequestsAssumption DEF CleanStart, ConsoleInvariant, Goto, TakeRunning
<1> QED
  BY <1>1, <1>2, <1>3, <1>4 DEF ConsoleInvariant

\* Fewer stages are alive.
LEMMA KillPreserves ==
  ASSUME ConsoleInvariant, NEW q \in Requests,
         Kill(q), UNCHANGED <<inbox, alone>>
  PROVE  ConsoleInvariant'
<1>1. TypeOK'
  BY DEF TypeOK, ConsoleInvariant, Goto, Kill
<1>2. WithinReach'
  BY DEF WithinReach, ConsoleInvariant, Goto, Kill
<1>3. Undisturbed'
  BY DEF Undisturbed, ConsoleInvariant, Goto, Active, Kill
<1>4. CleanStart'
  BY DEF CleanStart, ConsoleInvariant, Goto, Kill
<1> QED
  BY <1>1, <1>2, <1>3, <1>4 DEF ConsoleInvariant

\* No stage is alive when the lock is released.
LEMMA SweepPreserves ==
  ASSUME ConsoleInvariant, NEW q \in Requests,
         Sweep(q), UNCHANGED <<inbox, alone>>
  PROVE  ConsoleInvariant'
<1>1. TypeOK'
  BY RequestsAssumption DEF TypeOK, ConsoleInvariant, Goto, Requests, Sweep,
       Swept, AfterKill, AfterTake
<1>2. WithinReach'
  BY DEF WithinReach, ConsoleInvariant, Goto, Sweep, Swept
<1>3. Undisturbed'
  BY DEF Undisturbed, ConsoleInvariant, Goto, Active, Sweep, Swept
<1>4. CleanStart'
  BY DEF CleanStart, ConsoleInvariant, Sweep, Swept
<1> QED
  BY <1>1, <1>2, <1>3, <1>4 DEF ConsoleInvariant

\* A request that is answered is no longer active.
LEMMA StopDonePreserves ==
  ASSUME ConsoleInvariant, NEW s \in Stops,
         StopDone(s), UNCHANGED <<inbox, alone>>
  PROVE  ConsoleInvariant'
<1>1. TypeOK'
  BY DEF TypeOK, ConsoleInvariant, Goto, StopDone
<1>2. WithinReach'
  BY DEF WithinReach, ConsoleInvariant, Goto, StopDone
<1>3. Undisturbed'
  BY DEF Undisturbed, ConsoleInvariant, Goto, Active, StopDone
<1>4. CleanStart'
  BY DEF CleanStart, ConsoleInvariant, Goto, StopDone
<1> QED
  BY <1>1, <1>2, <1>3, <1>4 DEF ConsoleInvariant

\* No stage is alive when a launch begins.
LEMMA CleanPreserves ==
  ASSUME ConsoleInvariant, NEW r \in Runs,
         Clean(r), UNCHANGED <<inbox, alone>>
  PROVE  ConsoleInvariant'
<1>1. TypeOK'
  BY DEF TypeOK, WithinReach, ConsoleInvariant, Goto, Requests, Clean, Swept
<1>2. WithinReach'
  BY DEF WithinReach, ConsoleInvariant, Goto, Clean, Swept
<1>3. Undisturbed'
  BY DEF Undisturbed, ConsoleInvariant, Goto, Active, Clean, Swept
<1>4. CleanStart'
  BY DEF CleanStart, ConsoleInvariant, Clean, Swept
<1> QED
  BY <1>1, <1>2, <1>3, <1>4 DEF ConsoleInvariant

\* Nobody else is active beside a request that is alone: the stage is its own.
LEMMA SpawnStagePreserves ==
  ASSUME ConsoleInvariant, NEW r \in Runs,
         SpawnStage(r), UNCHANGED <<inbox, alone>>
  PROVE  ConsoleInvariant'
<1>1. TypeOK'
  BY DEF TypeOK, ConsoleInvariant, Stages, StageOrder, SpawnStage
<1>2. WithinReach'
  BY DEF WithinReach, ConsoleInvariant, SpawnStage
<1>3. Undisturbed'
  BY RequestsAssumption DEF Undisturbed, ConsoleInvariant, Active, Requests,
       SpawnStage
<1>4. CleanStart'
  BY RequestsAssumption DEF TypeOK, Undisturbed, CleanStart, ConsoleInvariant,
       Active, Requests, Stages, StagesOf, StageOrder, SpawnStage
<1> QED
  BY <1>1, <1>2, <1>3, <1>4 DEF ConsoleInvariant

\* The stages of a launch that fails keep an owner that failed.
LEMMA SpawnFailsPreserves ==
  ASSUME ConsoleInvariant, NEW r \in Runs,
         SpawnFails(r), UNCHANGED <<inbox, alone>>
  PROVE  ConsoleInvariant'
<1>1. TypeOK'
  BY DEF TypeOK, ConsoleInvariant, Goto, SpawnFails
<1>2. WithinReach'
  BY DEF WithinReach, ConsoleInvariant, Goto, SpawnFails
<1>3. Undisturbed'
  BY DEF Undisturbed, ConsoleInvariant, Goto, Active, SpawnFails
<1>4. CleanStart'
  BY DEF CleanStart, ConsoleInvariant, Goto, SpawnFails
<1> QED
  BY <1>1, <1>2, <1>3, <1>4 DEF ConsoleInvariant

\* Likewise.
LEMMA ComplainPreserves ==
  ASSUME ConsoleInvariant, NEW r \in Runs,
         Complain(r), UNCHANGED <<inbox, alone>>
  PROVE  ConsoleInvariant'
<1>1. TypeOK'
  BY DEF TypeOK, ConsoleInvariant, Goto, Complain
<1>2. WithinReach'
  BY DEF WithinReach, ConsoleInvariant, Goto, Complain
<1>3. Undisturbed'
  BY DEF Undisturbed, ConsoleInvariant, Goto, Active, Complain
<1>4. CleanStart'
  BY DEF CleanStart, ConsoleInvariant, Goto, Complain
<1> QED
  BY <1>1, <1>2, <1>3, <1>4 DEF ConsoleInvariant

\* The pipeline in the Hub is the guarantee that the stored stages are in reach.
LEMMA StorePreserves ==
  ASSUME ConsoleInvariant, NEW r \in Runs,
         Store(r), UNCHANGED <<inbox, alone>>
  PROVE  ConsoleInvariant'
<1>1. TypeOK'
  BY DEF TypeOK, ConsoleInvariant, Goto, Store
<1>2. WithinReach'
  BY DEF TypeOK, WithinReach, ConsoleInvariant, Goto, Requests, Store
<1>3. Undisturbed'
  BY DEF Undisturbed, ConsoleInvariant, Goto, Active, Store
<1>4. CleanStart'
  BY DEF CleanStart, ConsoleInvariant, Goto, Store
<1> QED
  BY <1>1, <1>2, <1>3, <1>4 DEF ConsoleInvariant

\* Fewer stages are alive.
LEMMA StrategyEndsPreserves ==
  ASSUME ConsoleInvariant, NEW r \in Runs,
         StrategyEnds(r), UNCHANGED <<inbox, alone>>
  PROVE  ConsoleInvariant'
<1>1. TypeOK'
  BY DEF TypeOK, ConsoleInvariant, StrategyEnds
<1>2. WithinReach'
  BY DEF WithinReach, ConsoleInvariant, StrategyEnds
<1>3. Undisturbed'
  BY DEF Undisturbed, ConsoleInvariant, Active, StrategyEnds
<1>4. CleanStart'
  BY DEF CleanStart, ConsoleInvariant, StrategyEnds
<1> QED
  BY <1>1, <1>2, <1>3, <1>4 DEF ConsoleInvariant

\* Fewer stages are alive.
LEMMA ExecutionEndsPreserves ==
  ASSUME ConsoleInvariant, NEW r \in Runs,
         ExecutionEnds(r), UNCHANGED <<inbox, alone>>
  PROVE  ConsoleInvariant'
<1>1. TypeOK'
  BY DEF TypeOK, ConsoleInvariant, ExecutionEnds
<1>2. WithinReach'
  BY DEF WithinReach, ConsoleInvariant, ExecutionEnds
<1>3. Undisturbed'
  BY DEF Undisturbed, ConsoleInvariant, Active, ExecutionEnds
<1>4. CleanStart'
  BY DEF CleanStart, ConsoleInvariant, ExecutionEnds
<1> QED
  BY <1>1, <1>2, <1>3, <1>4 DEF ConsoleInvariant

\* Fewer stages are alive.
LEMMA StageFailsPreserves ==
  ASSUME ConsoleInvariant, NEW stage \in Stages,
         StageFails(stage), UNCHANGED <<inbox, alone>>
  PROVE  ConsoleInvariant'
<1>1. TypeOK'
  BY DEF TypeOK, ConsoleInvariant, StageFails
<1>2. WithinReach'
  BY DEF WithinReach, ConsoleInvariant, StageFails
<1>3. Undisturbed'
  BY DEF Undisturbed, ConsoleInvariant, Active, StageFails
<1>4. CleanStart'
  BY DEF CleanStart, ConsoleInvariant, StageFails
<1> QED
  BY <1>1, <1>2, <1>3, <1>4 DEF ConsoleInvariant

\* A line on its way changes none of this.
LEMMA ForwardPreserves ==
  ASSUME ConsoleInvariant, NEW r \in Runs,
         Forward(r), inbox' = inbox + 1, alone' = alone
  PROVE  ConsoleInvariant'
<1>1. TypeOK'
  BY DEF TypeOK, ConsoleInvariant, Forward
<1>2. WithinReach'
  BY DEF WithinReach, ConsoleInvariant, Forward
<1>3. Undisturbed'
  BY DEF Undisturbed, ConsoleInvariant, Active, Forward
<1>4. CleanStart'
  BY DEF CleanStart, ConsoleInvariant, Forward
<1> QED
  BY <1>1, <1>2, <1>3, <1>4 DEF ConsoleInvariant

\* A request is alone when it finds nobody active; it has no stages yet.
LEMMA SendPreserves ==
  ASSUME ConsoleInvariant, NEW q \in Requests,
         Send(q), inbox' \in Nat
  PROVE  ConsoleInvariant'
<1>1. TypeOK'
  BY DEF TypeOK, ConsoleInvariant, Goto, Send, Request
<1>2. WithinReach'
  BY DEF WithinReach, ConsoleInvariant, Goto, Send, Request
<1>3. Undisturbed'
  BY DEF Undisturbed, ConsoleInvariant, Goto, Active, Requests, Send, Request
<1>4. CleanStart'
  BY RequestsAssumption DEF WithinReach, CleanStart, ConsoleInvariant, Goto,
       Send, Request
<1> QED
  BY <1>1, <1>2, <1>3, <1>4 DEF ConsoleInvariant

----------------------------------------------------------------------------
\* A step of a request's thread, whichever it is.
LEMMA HandlePreserves ==
  ASSUME ConsoleInvariant, NEW q \in Requests, Handle(q), UNCHANGED <<inbox, alone>>
  PROVE  ConsoleInvariant'
<1>1. CASE TakeNothing(q) \/ TakeRunning(q) \/ Kill(q) \/ Sweep(q)
  BY <1>1, TakeNothingPreserves, TakeRunningPreserves, KillPreserves, SweepPreserves
<1>2. CASE q \in Stops /\ StopDone(q)
  BY <1>2, StopDonePreserves
<1>3. CASE q \in Runs /\ (Announce(q) \/ Clean(q) \/ SpawnStage(q))
  BY <1>3, AnnouncePreserves, CleanPreserves, SpawnStagePreserves
<1>4. CASE q \in Runs /\ (SpawnFails(q) \/ Complain(q) \/ Store(q))
  BY <1>4, SpawnFailsPreserves, ComplainPreserves, StorePreserves
<1> QED
  BY <1>1, <1>2, <1>3, <1>4 DEF Handle

\* A button that is pressed.
LEMMA UserPreserves ==
  ASSUME ConsoleInvariant, User
  PROVE  ConsoleInvariant'
<1>1. inbox \in Nat
  BY DEF ConsoleInvariant, TypeOK
<1>2. ASSUME NEW r \in Runs, PressRun(r) PROVE ConsoleInvariant'
  BY <1>1, <1>2, SendPreserves DEF PressRun, Requests
<1>3. ASSUME NEW s \in Stops, PressStop(s) PROVE ConsoleInvariant'
  BY <1>1, <1>3, SendPreserves DEF PressStop, StopPipeline, Requests
<1> QED
  BY <1>2, <1>3 DEF User

\* What the page does by itself: send a stop, ignore a line, take an answer.
LEMMA PagePreserves ==
  ASSUME ConsoleInvariant, Page
  PROVE  ConsoleInvariant'
<1>1. inbox > 0 => inbox - 1 \in Nat
  BY DEF ConsoleInvariant, TypeOK
<1>2. ASSUME NEW s \in Stops, SummaryStops(s) PROVE ConsoleInvariant'
  BY <1>1, <1>2, SendPreserves DEF SummaryStops, StopPipeline, Requests
<1>3. ASSUME NEW s \in Stops, StopAnswered(s) PROVE ConsoleInvariant'
  BY <1>3, StopDonePreserves DEF StopAnswered
<1>4. CASE SummaryIgnored
  BY <1>1, <1>4
     DEF SummaryIgnored, ConsoleInvariant, TypeOK, WithinReach, Undisturbed,
         CleanStart, serverVars, Active
<1> QED
  BY <1>2, <1>3, <1>4 DEF Page

\* The inductive step: every action of the server, its stages and its page.
LEMMA NextPreserves ==
  ASSUME ConsoleInvariant, [Next]_vars
  PROVE  ConsoleInvariant'
<1>1. CASE User
  BY <1>1, UserPreserves
<1>2. CASE Page
  BY <1>2, PagePreserves
<1>3. ASSUME NEW q \in Requests, Serve(q) PROVE ConsoleInvariant'
  BY <1>3, HandlePreserves DEF Serve
<1>4. ASSUME NEW r \in Runs, Relay(r) PROVE ConsoleInvariant'
  BY <1>4, ForwardPreserves DEF Relay
<1>5. ASSUME NEW r \in Runs, StrategyFinishes(r) PROVE ConsoleInvariant'
  BY <1>5, StrategyEndsPreserves DEF StrategyFinishes, consoleVars
<1>6. ASSUME NEW r \in Runs, ExecutionFinishes(r) PROVE ConsoleInvariant'
  BY <1>6, ExecutionEndsPreserves DEF ExecutionFinishes, consoleVars
<1>7. ASSUME NEW stage \in Stages, StageBreaks(stage) PROVE ConsoleInvariant'
  BY <1>7, StageFailsPreserves DEF StageBreaks
<1>8. CASE UNCHANGED vars
  BY <1>8
     DEF vars, serverVars, consoleVars, ConsoleInvariant, TypeOK, WithinReach,
         Undisturbed, CleanStart, Active
<1> QED
  BY <1>1, <1>2, <1>3, <1>4, <1>5, <1>6, <1>7, <1>8 DEF Next

\* The inductive invariant holds of every behaviour of the server and its page,
\* for any number of runs and stops.
THEOREM ConsoleInvariantHolds == Spec => []ConsoleInvariant
<1>1. ConsoleInvariant /\ [Next]_vars => ConsoleInvariant'
  BY NextPreserves
<1> QED
  BY <1>1, InitInvariant, PTL DEF Spec

\* The Hub's lock is held exactly by the one request that is killing a pipeline,
\* and a pipeline in the Hub has all its stages.
THEOREM LockDiscipline == Spec => []TypeOK
  BY ConsoleInvariantHolds, PTL DEF ConsoleInvariant

\* No stage of a stored pipeline slips out of reach of the next stop, even when
\* a concurrent run has overwritten its handles.
THEOREM StagesWithinReach == Spec => []WithinReach
  BY ConsoleInvariantHolds, PTL DEF ConsoleInvariant

\* A launch that has the server to itself runs beside no stage of an earlier run.
THEOREM StartsClean == Spec => []CleanStart
  BY ConsoleInvariantHolds, PTL DEF ConsoleInvariant

\* A stop's thread ends by StopDone and by nothing else.
LEMMA StopEndsByStopDone ==
  ASSUME TypeOK, Next, NEW s \in Stops, at[s] = "log", at'[s] = "idle"
  PROVE  StopDone(s)
<1>1. ASSUME NEW q \in Requests, Request(q) PROVE FALSE
  BY <1>1 DEF Request, Goto, TypeOK, Requests
<1>2. ASSUME NEW q \in Requests, Serve(q) PROVE FALSE
  <2>1. q # s
    BY <1>2, RequestsAssumption DEF Serve
  <2>2. at'[s] = at[s]
    BY <1>2, <2>1
       DEF Serve, Handle, TakeNothing, TakeRunning, Kill, Sweep, StopDone, Announce,
           Clean, SpawnStage, SpawnFails, Complain, Store, Goto, TypeOK, Requests
  <2> QED
    BY <2>2
<1>3. ASSUME NEW t \in Stops, StopAnswered(t) PROVE StopDone(s)
  <2>1. CASE t = s
    BY <1>3, <2>1 DEF StopAnswered
  <2>2. CASE t # s
    BY <1>3, <2>2 DEF StopAnswered, StopDone, Goto, TypeOK, Requests
  <2> QED
    BY <2>1, <2>2
<1>4. ASSUME UNCHANGED at PROVE FALSE
  BY <1>4
<1>5. CASE User
  BY <1>1, <1>5 DEF User, PressRun, PressStop, StopPipeline, Send, Requests
<1>6. CASE Page
  BY <1>1, <1>3, <1>4, <1>6
     DEF Page, SummaryStops, StopPipeline, Send, SummaryIgnored, serverVars, Requests
<1>7. ASSUME NEW r \in Runs, Relay(r) \/ StrategyFinishes(r) \/ ExecutionFinishes(r)
      PROVE  FALSE
  BY <1>4, <1>7
     DEF Relay, Forward, StrategyFinishes, StrategyEnds, ExecutionFinishes, ExecutionEnds
<1>8. ASSUME NEW stage \in Stages, StageBreaks(stage) PROVE FALSE
  BY <1>4, <1>8 DEF StageBreaks, StageFails
<1> QED
  BY <1>2, <1>5, <1>6, <1>7, <1>8 DEF Next

\* A stop that has the server to itself, when it answers, leaves nothing alive
\* but what failed launches left.
THEOREM StopIsClean == Spec => StopStops
<1> DEFINE Answer == \A s \in Stops : alone = s /\ at[s] = "log" /\ at'[s] = "idle" =>
                       \A stage \in procs' : at'[stage[1]] = "failed"
<1>1. ConsoleInvariant /\ Next => Answer
  <2> SUFFICES ASSUME ConsoleInvariant, Next, NEW s \in Stops,
                      alone = s, at[s] = "log", at'[s] = "idle"
               PROVE  \A stage \in procs' : at'[stage[1]] = "failed"
    OBVIOUS
  <2>1. StopDone(s)
    BY StopEndsByStopDone DEF ConsoleInvariant
  <2>2. \A stage \in procs : at[stage[1]] = "failed"
    BY DEF ConsoleInvariant, Undisturbed
  <2> QED
    BY <2>1, <2>2 DEF StopDone, Goto, ConsoleInvariant, TypeOK
<1> QED
  BY <1>1, ConsoleInvariantHolds, PTL DEF Spec, StopStops
=============================================================================
