----------------------------- MODULE ResearchFlow -----------------------------
(***************************************************************************)
(* The research engines composed by the bus: experiments and walk-forward  *)
(* start runs, the trading engines report their scores, Monte Carlo        *)
(* simulates each validated window, and the research engine stores it all  *)
(* and reports. The container closes them: first the bus, then one engine  *)
(* after the other, each time waiting for its goroutines.                  *)
(***************************************************************************)
EXTENDS EngineBus, Experiments, ResearchReports

CONSTANTS
  WalkPlans,    \* walkforward.Config, per configuration
  Scored,       \* what the trading engines report of a run, per configuration
  Configurations, \* sets of engines whose Config.Enabled may be true
  MaxReports,   \* bound: updates reported, per configuration
  MaxFaults     \* bound: runs and database calls that fail, per configuration

VARIABLES
  enabled,      \* the engines whose Config.Enabled is true
  busClosed,    \* Gateway.Close has closed the bus
  cancelled,    \* engines whose context is cancelled
  ended,        \* engines whose consumer, if they have one, has returned
  closed,       \* engines whose Close has returned
  reported,     \* history: run -> the scores reported of it
  faults        \* bound: runs and database calls that failed

(* Scores are numbers, with the totals they were computed from, and every  *)
(* plan passes Config.Validate.                                            *)
ASSUME ScoresAreNumbers == \A c \in Configurations : \A s \in Scored[c] : s.score \in Int
ASSUME ScoresHaveTotals == \A c \in Configurations : \A s \in Scored[c] : s.metrics \in Metrics
ASSUME PlansAreValid ==
  \A c \in Configurations : \A p \in WalkPlans[c] :
    p.days \in Nat /\ p.train \in Nat \ {0} /\ p.validate \in Nat \ {0} /\ p.step \in Nat \ {0}

lifeVars == <<busClosed, cancelled, ended, closed>>
worldVars == <<reported, faults, enabled>>
flowVars == <<experimentVars, walkVars, mcResults, researchVars, busVars, lifeVars, worldVars>>

Engines == {"experiments", "walkforward", "montecarlo", "research"}
Wants == [experiments |-> {"optimization"}, walkforward |-> {"optimization"},
          montecarlo |-> {"walkforward"},
          research |-> {"optimization", "walkforward", "montecarlo"}]
Listening == [e \in Engines |-> IF e \in enabled /\ e \notin closed /\ ~busClosed THEN Wants[e] ELSE {}]
Publish(out, from) == PublishTo(out, from, Listening)

FlowInit ==
  /\ enabled \in Configurations
  /\ ExperimentsInit("experiments" \in enabled) /\ WalkForwardInit("walkforward" \in enabled, WalkPlans[enabled])
  /\ MonteCarloInit /\ ResearchInit
  /\ inbox = [e \in Engines |-> <<>>] /\ lost = FALSE
  /\ busClosed = FALSE /\ cancelled = {} /\ ended = {} /\ closed = {}
  /\ reported = <<>> /\ faults = 0

(* An optimization update of a run that executes, or that has executed.    *)
Started == {r \in DOMAIN expRuns : expRuns[r] # "QUEUED"} \union DOMAIN reported
             \union (IF session.at \in {"executing", "awaiting"} THEN {session.run} ELSE {})
ScoresOf(run) == IF run \in DOMAIN reported THEN reported[run] ELSE <<>>
Score ==
  /\ FoldLeft(LAMBDA n, r : n + Len(reported[r]), 0, SetToSeq(DOMAIN reported)) < MaxReports[enabled]
  /\ \E run \in Started, s \in Scored[enabled] :
       /\ reported' = Stored(reported, run, Append(ScoresOf(run), s.score))
       /\ Publish(<< [type |-> "optimization", run |-> run, strategy |-> "trend_following",
                      score |-> s.score, metrics |-> s.metrics] >>, "")
  /\ UNCHANGED <<experimentVars, walkVars, mcResults, researchVars, lifeVars, faults, enabled>>

(* A run fails now and then, and may or may not once the context given to  *)
(* it is cancelled.                                                        *)
MayFail(e, failed) ==
  /\ failed => e \in cancelled \/ faults < MaxFaults[enabled]
  /\ faults' = IF failed /\ e \notin cancelled THEN faults + 1 ELSE faults

ExperimentSteps ==
  /\ \/ faults' = faults /\ (Enqueue \/ \E w \in Workers : WorkerSteps(w, "experiments" \in cancelled))
     \/ \E w \in Workers, failed \in BOOLEAN : Executed(w, failed) /\ MayFail("experiments", failed)
  /\ UNCHANGED <<walkVars, mcResults, researchVars, busVars, lifeVars, reported, enabled>>
WindowSteps ==
  /\ \/ faults' = faults /\ (TakeWindow \/ AwaitEnds \/ QuitWindows("walkforward" \in cancelled))
     \/ \E failed \in BOOLEAN : WindowExecuted(failed) /\ MayFail("walkforward", failed)
  /\ UNCHANGED <<experimentVars, mcResults, researchVars, busVars, lifeVars, reported, enabled>>

ExperimentsHandle ==
  /\ Waiting("experiments") /\ "experiments" \notin ended
  /\ HandleOptimization(Next1("experiments"))
  /\ Publish(ExperimentUpdates(Next1("experiments")), "experiments")
  /\ UNCHANGED <<schedulerVars, walkVars, mcResults, researchVars, lifeVars, worldVars>>
WalkForwardHandles ==
  /\ session.at = "awaiting" /\ Waiting("walkforward")
  /\ DispatchOptimization(Next1("walkforward"))
  /\ Publish(WalkForwardUpdates(Next1("walkforward")), "walkforward")
  /\ UNCHANGED <<experimentVars, mcResults, researchVars, lifeVars, worldVars>>
MonteCarloHandles ==
  /\ Waiting("montecarlo") /\ "montecarlo" \notin ended
  /\ \E out \in MonteCarloUpdates(Next1("montecarlo")) :
       HandleWalkForward(out) /\ Publish(out, "montecarlo")
  /\ UNCHANGED <<experimentVars, walkVars, researchVars, lifeVars, worldVars>>

(* The database fails now and then, and always once the context given to   *)
(* its calls is cancelled.                                                 *)
Succeeds(e) == IF "research" \in cancelled THEN {0}
               ELSE {CallsOf(e)} \union (IF faults < MaxFaults[enabled] THEN 0 .. CallsOf(e) ELSE {})
ResearchHandles ==
  /\ Waiting("research") /\ "research" \notin ended
  /\ \E n \in Succeeds(Next1("research")) :
       /\ HandleResearch(Next1("research"), n)
       /\ faults' = IF n < CallsOf(Next1("research")) THEN faults + 1 ELSE faults
       /\ Publish(SubSeq(published', Len(published) + 1, Len(published')), "research")
  /\ UNCHANGED <<experimentVars, walkVars, mcResults, lifeVars, reported, enabled>>

(* Container.Close: the gateway, which closes the bus, and these engines   *)
(* in order. Close cancels, waits, and gives up the subscription.          *)
CloseOrder == <<"experiments", "walkforward", "montecarlo", "research">>
IsNext(n, left) == CloseOrder[n] \in left /\ \A m \in 1 .. n - 1 : CloseOrder[m] \notin left
CloseBus ==
  /\ ~busClosed /\ busClosed' = TRUE
  /\ UNCHANGED <<experimentVars, walkVars, mcResults, researchVars, busVars, cancelled, ended, closed,
                 worldVars>>
Cancel ==
  /\ busClosed /\ cancelled = closed
  /\ \E n \in DOMAIN CloseOrder :
       IsNext(n, enabled \ closed) /\ cancelled' = cancelled \union {CloseOrder[n]}
  /\ UNCHANGED <<experimentVars, walkVars, mcResults, researchVars, busVars, busClosed, ended, closed,
                 worldVars>>
ConsumerEnds(e) ==
  /\ e \in enabled \ ended /\ e # "walkforward"
  /\ inbox[e] = <<>> /\ (busClosed \/ e \in cancelled)
  /\ ended' = ended \union {e}
  /\ UNCHANGED <<experimentVars, walkVars, mcResults, researchVars, busVars, busClosed, cancelled, closed,
                 worldVars>>
Gone(e) == /\ e = "experiments" => \A w \in Workers : workers[w].at = "gone"
           /\ IF e = "walkforward" THEN session.at = "gone" ELSE e \in ended
Close(e) ==
  /\ e \in cancelled \ closed /\ Gone(e)
  /\ closed' = closed \union {e}
  /\ inbox' = [inbox EXCEPT ![e] = <<>>] /\ lost' = lost
  /\ UNCHANGED <<experimentVars, walkVars, mcResults, researchVars, busClosed, cancelled, ended, worldVars>>

EngineSteps == \/ ExperimentSteps \/ WindowSteps \/ ExperimentsHandle
               \/ WalkForwardHandles \/ MonteCarloHandles \/ ResearchHandles
               \/ Cancel \/ \E e \in Engines : ConsumerEnds(e) \/ Close(e)
FlowNext == Score \/ CloseBus \/ EngineSteps

(* As long as a goroutine can take a step, one does: a run's execution     *)
(* returns, and the two minutes of an awaited score end.                   *)
FlowSpec == FlowInit /\ [][FlowNext]_flowVars /\ WF_flowVars(EngineSteps)

-----------------------------------------------------------------------------
FlowTypeOK == /\ ExperimentsTypeOK
              /\ \A e \in Engines : Len(inbox[e]) <= Buffer
              /\ closed \subseteq cancelled /\ cancelled \subseteq enabled

Quiet == (\A e \in Engines : inbox[e] = <<>>) /\ lost = FALSE

(* The score of a run is one that was reported of it, and the first, unless*)
(* the bus lost an event, however many are later.                          *)
FirstScoreCounts ==
  \A r \in DOMAIN results :
    /\ results[r] \in ToSet(ScoresOf(r))
    /\ ~lost => results[r] = ScoresOf(r)[1]

(* The parameters a window validates are the ones that scored best in its  *)
(* own training, and its validation score is that of its own run.          *)
BestIsBest ==
  \A i \in DOMAIN wfResults :
    LET first == [n \in 1 .. Cardinality(GenerateMatrix) |-> ScoresOf(RunId("training", i, n))]
        result == wfResults[i]
    IN ~lost =>
         /\ result.training = first[result.best][1]
         /\ \A n \in DOMAIN first : first[n][1] <= result.training
         /\ result.validation = ScoresOf(RunId("validation", i, result.best))[1]

(* Each validated window is simulated once, and reported with its own      *)
(* result in the report: the research engine has heard of the window by    *)
(* the time it hears of the simulation, as the bus keeps their order.      *)
ReportIsComplete ==
  faults = 0 /\ ~lost =>
    \A id \in DOMAIN reportRows : \A n \in DOMAIN reportRows[id] :
      reportRows[id][n].validations # <<>>

(* When all is handled, what the engines know is stored.                   *)
ResearchStored ==
  Quiet /\ faults = 0 /\ enabled = {"walkforward", "montecarlo", "research"} /\ ~busClosed =>
    /\ \A i \in DOMAIN wfResults : RowsOf(walkRows, <<"window", i>>) = <<wfResults[i].validation>>
    /\ Len(published) = Len(mcResults)
    /\ Len(mcResults) = Cardinality({i \in DOMAIN wfResults : ~Fails(wfResults[i])})

(* Every window ends, whether its runs are scored or not, unless the bus   *)
(* closes first.                                                           *)
WindowWaits(i) == i \in DOMAIN wfWindows /\ wfWindows[i] \notin {"COMPLETED", "FAILED"}
WindowsEnd == \A i \in 0 .. 1 : WindowWaits(i) ~> (busClosed \/ ~WindowWaits(i))

(* Close returns: no engine waits for a goroutine that does not end.       *)
ClosesDown == busClosed ~> (closed = enabled)

(* A run that was registered is executed, unless the engine is closed.     *)
RunWaits(r) == r \in DOMAIN expRuns /\ expRuns[r] = "QUEUED"
RunsExecuted ==
  \A n \in 1 .. 2 : RunWaits(RunId("experiment", 0, n))
                      ~> (cancelled # {} \/ ~RunWaits(RunId("experiment", 0, n)))

(* No run is lost, run twice, or run beyond the number of slots, whichever *)
(* worker stops where.                                                     *)
RunsKept == FlowTypeOK /\ RunsAccounted /\ ConcurrencyLimit

(* The first score of a run counts for good, and the ranking shows them    *)
(* all, best first.                                                        *)
ScoresCount == FirstScoreCounts /\ RankingTells

(* The windows fit the data, are worked through one by one, and each       *)
(* validates the parameters that were best in its own training.            *)
WindowsValidated == WindowsFit /\ OneWindowAtATime /\ BestIsBest

(* What is published of an experiment is stored, complete, and true of the *)
(* window it came from, whichever database call failed.                    *)
ReportsTell ==
  /\ ReconcilesToNet
  /\ ProfitIsCertain
  /\ PublishedIsStored
  /\ RowsHaveExperiment
  /\ ReportIsComplete
  /\ ResearchStored

(* Every run that has begun is executed, every window ends though scores   *)
(* may never come, and closing ends.                                       *)
ResearchEnds == RunsExecuted /\ WindowsEnd /\ ClosesDown
==============================================================================
