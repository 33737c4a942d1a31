--------------------------- MODULE ResearchReports ----------------------------
(***************************************************************************)
(* What becomes of a validated window: the Monte Carlo engine simulates it,*)
(* and the research engine stores it with the rest of its experiment, and  *)
(* reports.                                                                *)
(***************************************************************************)
EXTENDS Integers, Sequences, FiniteSets, SequencesExt

(***************************************************************************)
(* The Monte Carlo engine: from the totals of a validated window it makes  *)
(* up trades, resamples and shuffles them, and publishes what shares of    *)
(* the paths gain, lose and ruin. Shares are counts of paths, and amounts  *)
(* are of a unit small enough for the divisions to come out even.          *)
(***************************************************************************)
CONSTANTS
  Metrics,      \* totals of validated windows
  Simulations,  \* Config.Simulations
  RuinPercent   \* Config.RuinDrawdownPct, in percent

VARIABLE mcResults   \* Cache.completed, in the order they were stored

MonteCarloInit == mcResults = <<>>

Times(n, x) == [i \in 1 .. n |-> x]
Abs(x) == IF x < 0 THEN 0 - x ELSE x

(* ExtractTradeReturns. The average of a trade is what the optimization    *)
(* engine computes, the profit divided by the trades.                      *)
AverageWin(m) == IF m.net > 0 THEN m.net \div m.trades ELSE (Abs(m.net) * 2) \div m.trades
ExtractTradeReturns(m) ==
  LET losses == m.trades - m.wins
  IN IF m.trades = 0 THEN IF m.net # 0 THEN <<m.net>> ELSE <<>>
     ELSE IF m.wins = 0 \/ losses = 0 THEN Times(m.trades, m.net \div m.trades)
     ELSE Times(m.wins, AverageWin(m))
            \o Times(losses, (m.net - m.wins * AverageWin(m)) \div losses)

(* The configuration passes Config.Validate, wins are among the trades, and*)
(* the divisions come out even.                                            *)
ASSUME SimulationsAreValid == Simulations \in Nat \ {0} /\ RuinPercent \in Nat \ {0}
ASSUME TotalsDivide ==
  \A m \in Metrics :
    LET losses == m.trades - m.wins
        lost == m.net - m.wins * AverageWin(m)
    IN /\ m.trades \in Nat /\ m.wins \in 0 .. m.trades /\ m.net \in Int
       /\ m.trades > 0 => m.trades * (m.net \div m.trades) = m.net
       /\ m.wins > 0 /\ losses > 0 => losses * (lost \div losses) = lost

BootstrapSamples(trades) == [DOMAIN trades -> ToSet(trades)]
ShuffleOrders(trades) ==
  {[n \in DOMAIN trades |-> trades[f[n]]] :
     f \in {g \in [DOMAIN trades -> DOMAIN trades] : \A m, n \in DOMAIN trades : g[m] = g[n] => m = n}}

TotalReturn(path) == SumFunctionOnSet(path, DOMAIN path)
Equity(path) == [n \in 0 .. Len(path) |-> TotalReturn(SubSeq(path, 1, n))]
MaxDrawdown(path) ==
  LET equity == Equity(path)
      falls == {equity[p[1]] - equity[p[2]] : p \in {q \in (DOMAIN equity) \X (DOMAIN equity) : q[1] <= q[2]}}
  IN CHOOSE d \in falls : \A f \in falls : f <= d

(* Simulator.Run: every other path is shuffled, the rest resampled. The    *)
(* shares of Summarize depend on no order of the paths.                    *)
PathsOf(trades, i) == IF i % 2 = 0 THEN BootstrapSamples(trades) ELSE ShuffleOrders(trades)
SumAbs(trades) == TotalReturn([n \in DOMAIN trades |-> Abs(trades[n])])
StartingCapital(trades) == IF SumAbs(trades) = 0 THEN 1 ELSE SumAbs(trades)
Threshold(trades) == StartingCapital(trades) * RuinPercent
Outcome(path, trades) == [total |-> TotalReturn(path), ruined |-> MaxDrawdown(path) * 100 >= Threshold(trades)]
Outcomes(trades) ==
  LET of == [i \in {0, 1} |-> {Outcome(p, trades) : p \in PathsOf(trades, i)}]
  IN {o \in [0 .. Simulations - 1 -> of[0] \union of[1]] : \A i \in DOMAIN o : o[i] \in of[i % 2]}
Summarize(o) ==
  LET Share(test(_)) == Cardinality({i \in DOMAIN o : test(o[i])})
      worst == CHOOSE t \in {o[i].total : i \in DOMAIN o} : \A i \in DOMAIN o : t <= o[i].total
      best == CHOOSE t \in {o[i].total : i \in DOMAIN o} : \A i \in DOMAIN o : t >= o[i].total
  IN [profit |-> Share(LAMBDA x : x.total > 0), loss |-> Share(LAMBDA x : x.total < 0),
      ruin |-> Share(LAMBDA x : x.ruined), worst |-> worst, best |-> best]

(* Engine.runSimulation of a completed window. Without trades it fails:    *)
(* nothing is stored or published.                                         *)
Simulated == [m \in Metrics |-> {Summarize(o) : o \in Outcomes(ExtractTradeReturns(m))}]
Fails(e) == ExtractTradeReturns(e.metrics) = <<>>
MonteCarloUpdates(e) ==
  IF Fails(e) THEN {<<>>}
  ELSE {<< [type |-> "montecarlo", window |-> e.window, metrics |-> e.metrics, profit |-> s.profit,
            loss |-> s.loss, ruin |-> s.ruin, worst |-> s.worst, best |-> s.best] >> :
          s \in Simulated[e.metrics]}
HandleWalkForward(out) == mcResults' = mcResults \o out

-----------------------------------------------------------------------------
(* Every simulation's shares add up, and the interval of its returns has   *)
(* the profit it was made from: half of its paths only reorder trades that *)
(* must add up to it.                                                      *)
ReconcilesToNet ==
  \A n \in DOMAIN mcResults :
    LET r == mcResults[n]
    IN /\ r.profit + r.loss <= Simulations
       /\ r.worst <= r.metrics.net /\ r.metrics.net <= r.best

(* A validated profit is simulated as certain: all the trades that are     *)
(* made up from a profit are equal, so no path loses and none is ruined.   *)
ProfitIsCertain ==
  \A n \in DOMAIN mcResults :
    mcResults[n].metrics.net > 0 =>
      mcResults[n].profit = Simulations /\ mcResults[n].loss = 0 /\ mcResults[n].ruin = 0

-----------------------------------------------------------------------------
(***************************************************************************)
(* The research engine: it stores optimization results, validated windows  *)
(* and simulations of an experiment in PostgreSQL, and for each simulation *)
(* a report of what is stored by then. Any call of the database may fail,  *)
(* and does once the engine's context is cancelled: what comes after it in *)
(* the handler is not done.                                                *)
(***************************************************************************)
VARIABLES
  experimentRows,   \* research_experiments: experiment -> strategy
  optimizationRows, \* optimization_results: experiment -> scores
  walkRows,         \* walkforward_results: experiment -> validated windows
  simulationRows,   \* montecarlo_results: experiment -> simulations
  reportRows,       \* research_reports: experiment -> reports
  published         \* the research.updated events

tableVars == <<optimizationRows, walkRows, simulationRows, reportRows>>
researchVars == <<experimentRows, tableVars, published>>

ResearchInit ==
  /\ experimentRows = <<>> /\ optimizationRows = <<>> /\ walkRows = <<>>
  /\ simulationRows = <<>> /\ reportRows = <<>> /\ published = <<>>

RowsOf(table, id) == IF id \in DOMAIN table THEN table[id] ELSE <<>>
Inserted(table, id, row) ==
  [i \in DOMAIN table \union {id} |-> IF i = id THEN Append(RowsOf(table, id), row) ELSE table[i]]

(* The experiment an event is about: one for the experiment engine, and    *)
(* one for each window.                                                    *)
ExperimentOf(run) == IF run.phase = "experiment" THEN "experiment" ELSE <<"window", run.window>>
UpsertExperiment(id, strategy) ==
  experimentRows' = [i \in DOMAIN experimentRows \union {id} |->
                       IF i = id THEN strategy ELSE experimentRows[i]]
EnsureExperiment(id) ==
  IF id \in DOMAIN experimentRows THEN UNCHANGED experimentRows ELSE UpsertExperiment(id, "unknown")

(* Of a handler's database calls the first n succeed.                      *)
HandleOptimizationResult(e, n) ==
  /\ IF n >= 1 THEN UpsertExperiment(ExperimentOf(e.run), e.strategy) ELSE UNCHANGED experimentRows
  /\ optimizationRows' = IF n >= 2 THEN Inserted(optimizationRows, ExperimentOf(e.run), e.score)
                         ELSE optimizationRows
  /\ UNCHANGED <<walkRows, simulationRows, reportRows, published>>

HandleWindowResultUpsertOnly(e, n) ==
  /\ IF n >= 1 THEN UpsertExperiment(<<"window", e.window>>, "unknown") ELSE UNCHANGED experimentRows
  /\ UNCHANGED tableVars /\ UNCHANGED published

(* The best parameters name no strategy. A window and its validation run   *)
(* are stored once.                                                        *)
HandleWindowResult(e, n) ==
  /\ IF n >= 1 THEN UpsertExperiment(<<"window", e.window>>, "unknown") ELSE UNCHANGED experimentRows
  /\ walkRows' = IF n >= 2 THEN Inserted(walkRows, <<"window", e.window>>, e.validation) ELSE walkRows
  /\ UNCHANGED <<optimizationRows, simulationRows, reportRows, published>>

(* LatestReportVersion, and buildSummary of what is stored.                *)
LatestReportVersion(id) == Len(RowsOf(reportRows, id))
Report(id, rows) ==
  [version |-> LatestReportVersion(id) + 1, strategy |-> experimentRows'[id],
   best |-> FoldLeft(LAMBDA x, y : IF y > x THEN y ELSE x, 0, RowsOf(optimizationRows, id)),
   validations |-> RowsOf(walkRows, id), simulations |-> rows]

(* Of the nine calls the second inserts the simulation, six read what the  *)
(* report has, and the last inserts it; only then it is published.         *)
Reported(id) ==
  << [type |-> "research", experiment |-> id, report |-> Report(id, RowsOf(simulationRows', id))] >>
SimulationCalls == 9
PublishedWhen(n) == n = SimulationCalls
HandleSimulation(e, n) ==
  LET id == <<"window", e.window>>
  IN /\ IF n >= 1 THEN EnsureExperiment(id) ELSE UNCHANGED experimentRows
     /\ simulationRows' = IF n >= 2 THEN Inserted(simulationRows, id, e.profit) ELSE simulationRows
     /\ published' = IF PublishedWhen(n) THEN published \o Reported(id) ELSE published
     /\ reportRows' = IF n = SimulationCalls
                      THEN Inserted(reportRows, id, Report(id, RowsOf(simulationRows', id)))
                      ELSE reportRows
     /\ UNCHANGED <<optimizationRows, walkRows>>

CallsOf(e) == CASE e.type = "optimization" -> 2 [] e.type = "walkforward" -> 2
                [] e.type = "montecarlo" -> SimulationCalls
HandleResearch(e, n) ==
  \/ e.type = "optimization" /\ HandleOptimizationResult(e, n)
  \/ e.type = "walkforward" /\ HandleWindowResult(e, n)
  \/ e.type = "montecarlo" /\ HandleSimulation(e, n)

-----------------------------------------------------------------------------
(* What is published was stored, and everything has its experiment: a row  *)
(* of a table without one would be refused.                                *)
PublishedIsStored ==
  \A n \in DOMAIN published :
    \E m \in DOMAIN RowsOf(reportRows, published[n].experiment) :
      reportRows[published[n].experiment][m].version = published[n].report.version
RowsHaveExperiment ==
  (DOMAIN optimizationRows \union DOMAIN walkRows \union DOMAIN simulationRows
     \union DOMAIN reportRows) \subseteq DOMAIN experimentRows

(* A strategy that was known is not forgotten.                             *)
KnownStaysKnown ==
  [][\A id \in DOMAIN experimentRows :
       experimentRows[id] # "unknown" => experimentRows'[id] # "unknown"]_experimentRows
==============================================================================
