----------------------------- MODULE Laboratory -----------------------------
(***************************************************************************)
(* The strategy laboratory, and what is written about its studies.         *)
(***************************************************************************)
EXTENDS Integers, Sequences, FiniteSets, SequencesExt

(***************************************************************************)
(* The strategy laboratory: versioned studies in a repository and a catalog*)
(* by status, their execution as a backtest session, and comparisons.      *)
(***************************************************************************)
CONSTANTS
  AutoVersion,        \* Config.AutoVersion
  Callers             \* who calls the laboratory

VARIABLES
  studies,            \* Repository.studies: a study is its position
  byStatus,           \* Catalog.statuses: status -> studies
  calls,              \* caller -> the call it is in
  activeStudies,      \* Engine.activeStudies
  comparisons,        \* Repository.comparisons
  laboratoryClosed    \* Engine.closed

laboratoryVars == <<studies, byStatus, calls, activeStudies, comparisons, laboratoryClosed>>

Statuses == {"PENDING", "RUNNING", "COMPLETED", "FAILED"}
NoOutput == [sessionCount |-> 0, counts |-> <<>>]
NoCall == [at |-> "idle"]

LaboratoryInit ==
  /\ studies = <<>> /\ byStatus = [s \in Statuses |-> {}] /\ calls = [c \in Callers |-> NoCall]
  /\ activeStudies = 0 /\ comparisons = <<>> /\ laboratoryClosed = FALSE

(* NextVersion: one more than the highest of the same strategy and         *)
(* parameters.                                                             *)
SameDefinition(r, s) == r.strategy = s.strategy /\ r.parameters = s.parameters
HighestVersion(r) ==
  FoldLeft(LAMBDA n, s : IF SameDefinition(r, s) /\ s.version > n THEN s.version ELSE n, 0, studies)
CountingAll(r) == IF AutoVersion THEN Len(studies) + 1 ELSE 1
NextVersion(r) == IF AutoVersion THEN HighestVersion(r) + 1 ELSE 1

NewStudy(r, version) ==
  [strategy |-> r.strategy, parameters |-> r.parameters, symbols |-> r.symbols, from |-> r.from, to |-> r.to,
   version |-> version, status |-> "PENDING", sessions |-> <<>>, output |-> NoOutput]

(* CreateStudy reads the version and saves the study later.                *)
ChoosesVersion(c, r) ==
  /\ calls[c].at = "idle" /\ ~laboratoryClosed
  /\ calls' = [calls EXCEPT ![c] = [at |-> "creating", study |-> NewStudy(r, NextVersion(r))]]
  /\ UNCHANGED <<studies, byStatus, activeStudies, comparisons, laboratoryClosed>>
CreateStudy(c, requests) == \E r \in requests : ChoosesVersion(c, r)
CreateVersion(c) ==
  \E s \in DOMAIN studies :
    ChoosesVersion(c, [f \in {"strategy", "parameters", "symbols", "from", "to"} |-> studies[s][f]])
SavesNew(c) ==
  /\ calls[c].at = "creating"
  /\ studies' = Append(studies, calls[c].study)
  /\ byStatus' = [byStatus EXCEPT !["PENDING"] = @ \union {Len(studies) + 1}]
  /\ calls' = [calls EXCEPT ![c] = NoCall]
  /\ UNCHANGED <<activeStudies, comparisons, laboratoryClosed>>

-----------------------------------------------------------------------------
(* ExecuteStudy works on the copy it reads first. The laboratory's lock    *)
(* covers the slot, not the study.                                         *)
ReadsStudy(c, s, ctx) ==
  /\ calls[c].at = "idle" /\ studies[s].status # "RUNNING"
  /\ calls' = [calls EXCEPT ![c] = [at |-> "read", id |-> s, study |-> studies[s], ctx |-> ctx]]
  /\ UNCHANGED <<studies, byStatus, activeStudies, comparisons, laboratoryClosed>>

UpdateStatus(id, from, to) == [byStatus EXCEPT ![from] = @ \ {id}, ![to] = @ \union {id}]
Refused(c, limit) ==
  /\ calls[c].at = "read" /\ (laboratoryClosed \/ activeStudies >= limit)
  /\ calls' = [calls EXCEPT ![c] = NoCall]
  /\ UNCHANGED <<studies, byStatus, activeStudies, comparisons, laboratoryClosed>>
Runs(c, limit) ==
  /\ calls[c].at = "read" /\ ~laboratoryClosed /\ activeStudies < limit
  /\ activeStudies' = activeStudies + 1
  /\ studies' = [studies EXCEPT ![calls[c].id] = [calls[c].study EXCEPT !.status = "RUNNING"]]
  /\ byStatus' = UpdateStatus(calls[c].id, calls[c].study.status, "RUNNING")
  /\ calls' = [calls EXCEPT ![c].at = "starting", ![c].study.status = "RUNNING"]
  /\ UNCHANGED <<comparisons, laboratoryClosed>>
Started(c, session) ==
  /\ calls[c].at = "starting"
  /\ calls' = [calls EXCEPT ![c] = [at |-> "waiting", id |-> @.id, study |-> @.study, ctx |-> @.ctx,
                                    session |-> session]]
  /\ UNCHANGED <<studies, byStatus, activeStudies, comparisons, laboratoryClosed>>

(* A session that fails leaves the study with the output it had; one that  *)
(* was refused has no identifier, and is listed all the same.              *)
StudyOutput(summary) ==
  [f \in DOMAIN summary \union {"sessionCount"} |-> IF f = "sessionCount" THEN 1 ELSE summary[f]]
Ended(study, session, failed, summary) ==
  [study EXCEPT !.sessions = Append(@, session), !.status = IF failed THEN "FAILED" ELSE "COMPLETED",
                !.output = IF failed THEN @ ELSE StudyOutput(summary)]
Finishes(c, session, failed, summary) ==
  LET id == calls[c].id
      study == Ended(calls[c].study, session, failed, summary)
  IN /\ studies' = [studies EXCEPT ![id] = study]
     /\ byStatus' = UpdateStatus(id, "RUNNING", study.status)
     /\ activeStudies' = activeStudies - 1
     /\ calls' = [calls EXCEPT ![c] = NoCall]
     /\ UNCHANGED <<comparisons, laboratoryClosed>>

(* CompareStudies: the completed studies that match, as they are.          *)
Matches(s, criteria) == \A f \in DOMAIN criteria : s[f] = criteria[f]
FindMatchingStudies(criteria) ==
  SelectSeq([n \in DOMAIN studies |-> [id |-> n] @@ studies[n]],
            LAMBDA s : s.status = "COMPLETED" /\ Matches(s, criteria))
CompareStudies(criteria) ==
  /\ FindMatchingStudies(criteria) # <<>>
  /\ comparisons' = Append(comparisons, FindMatchingStudies(criteria))
  /\ UNCHANGED <<studies, byStatus, calls, activeStudies, laboratoryClosed>>

-----------------------------------------------------------------------------
(* A study is found in the catalog under the status it has, and its slot is*)
(* given back.                                                             *)
Executing == {c \in Callers : calls[c].at \in {"starting", "waiting"}}
StudiesFound ==
  /\ \A s \in DOMAIN studies : s \in byStatus[studies[s].status]
  /\ activeStudies = Cardinality(Executing)

(* The versions of a definition are the numbers from one on.               *)
VersionsConsecutive ==
  AutoVersion =>
    \A s \in DOMAIN studies :
      {studies[n].version : n \in {m \in DOMAIN studies : SameDefinition(studies[m], studies[s])}}
        = 1 .. HighestVersion(studies[s])

(* A completed study has the output of the session it ran last.            *)
CompletedHasOutput ==
  \A s \in DOMAIN studies :
    studies[s].status = "COMPLETED" => studies[s].output.sessionCount = 1 /\ Last(studies[s].sessions) # 0

-----------------------------------------------------------------------------
(***************************************************************************)
(* What is written about a finished study: the AI research engine analyses *)
(* the study by rules into a report with a verdict, and the AI context     *)
(* engine packs study and report for a language model.                     *)
(***************************************************************************)
VARIABLES
  reports,      \* airesearch.Repository
  contexts      \* aicontext.Repository

reportVars == <<reports, contexts>>
ReportsInit == reports = <<>> /\ contexts = <<>>

(* aggregateMetrics. A study has the output of one session, or none.       *)
NoMetrics == [sessionCount |-> 0, generated |-> 0, closed |-> 0, buy |-> 0, watch |-> 0, avoid |-> 0,
              confidence |-> 0, highest |-> 0, lowest |-> 0, return |-> 0, winRate |-> 0, lossRate |-> 0,
              winning |-> 0, losing |-> 0, optimization |-> 0, walkforward |-> 0, montecarlo |-> 0]
AggregateMetrics(study) ==
  LET output == study.output
  IN [f \in DOMAIN NoMetrics |-> IF f \in DOMAIN output THEN output[f]
                                 ELSE IF f \in DOMAIN output.counts THEN output.counts[f] ELSE 0]

Holds(named) == {a \in DOMAIN named : named[a]}
BuildStrengths(m) ==
  Holds([winRate |-> m.winRate >= 50, return |-> m.return > 0, confidence |-> m.confidence >= 60,
         walkforward |-> m.walkforward > 0, montecarlo |-> m.montecarlo > 0,
         optimization |-> m.optimization > 0])
BuildWeaknesses(study, m) ==
  Holds([failed |-> study.status = "FAILED", winRate |-> m.winRate < 50 /\ m.sessionCount > 0,
         return |-> m.return < 0, confidence |-> m.confidence < 40, avoided |-> m.avoid > m.buy,
         walkforward |-> m.walkforward = 0, montecarlo |-> m.montecarlo = 0])
BuildSuggestedImprovements(study, m) ==
  Holds([walkforward |-> m.walkforward = 0, montecarlo |-> m.montecarlo = 0,
         optimization |-> m.optimization = 0 /\ study.parameters # {},
         winRate |-> m.winRate < 50, confidence |-> m.confidence < 50])
BuildSuggestedExperiments(study, m) ==
  {"parameters", "strategies"} \union Holds([symbols |-> Cardinality(study.symbols) = 1,
                                             range |-> m.sessionCount = 1])

(* buildOverallVerdict: five of six points pass.                           *)
Points(m) ==
  Cardinality(Holds([winRate |-> m.winRate >= 50, return |-> m.return > 0, confidence |-> m.confidence >= 50,
                     walkforward |-> m.walkforward > 0, montecarlo |-> m.montecarlo > 0,
                     avoided |-> m.avoid <= m.buy]))
OverallVerdict(study, m) ==
  IF study.status = "FAILED" THEN "FAIL"
  ELSE CASE Points(m) >= 5 -> "PASS" [] Points(m) \in {3, 4} -> "CONDITIONAL" [] OTHER -> "FAIL"

Analyze(study) ==
  LET m == AggregateMetrics(study)
  IN [strengths |-> BuildStrengths(m), weaknesses |-> BuildWeaknesses(study, m),
      improvements |-> BuildSuggestedImprovements(study, m),
      experiments |-> BuildSuggestedExperiments(study, m), verdict |-> OverallVerdict(study, m)]
BuildReport(id, study) ==
  [study |-> id, version |-> study.version, of |-> study, sections |-> Analyze(study)]

(* handle of study.completed: the study as it is now. A closed engine      *)
(* drains its events without a report.                                     *)
StudyAICompleted(id) == <<[type |-> "study.ai.completed", study |-> id, report |-> Len(reports) + 1]>>
HandleStudy(id, study, closed) ==
  reports' = IF closed THEN reports ELSE Append(reports, BuildReport(id, study))

-----------------------------------------------------------------------------
(* buildTradeStatistics: by quality, or from the closed ones if there is   *)
(* none of either quality.                                                 *)
TradeStatistics(study) ==
  LET m == AggregateMetrics(study)
      estimated == (m.closed * m.winRate) \div 100
  IN IF m.winning # 0 \/ m.losing # 0
     THEN [total |-> m.generated, winning |-> m.winning, losing |-> m.losing]
     ELSE IF m.closed > 0 /\ m.winRate > 0
          THEN [total |-> m.generated, winning |-> estimated, losing |-> m.closed - estimated]
          ELSE [total |-> m.generated, winning |-> 0, losing |-> 0]
Drawdown(m) == IF m.generated > 0 /\ m.return < 0 THEN 0 - m.return ELSE 0
Performance(study) ==
  LET m == AggregateMetrics(study)
  IN [generated |-> m.generated, closed |-> m.closed, buy |-> m.buy, watch |-> m.watch, avoid |-> m.avoid,
      confidence |-> m.confidence, return |-> m.return, winRate |-> m.winRate, lossRate |-> m.lossRate]
Timeline(study) ==
  <<"study_created">> \o (IF study.status \in {"COMPLETED", "FAILED"} THEN <<"study_completed">> ELSE <<>>)
    \o [n \in DOMAIN study.sessions |-> "backtest_session"]
    \o <<"research_report_generated", "context_generated">>

BuildContext(id, study, report, n) ==
  [study |-> id, report |-> n, of |-> study, performance |-> Performance(study),
   drawdown |-> Drawdown(AggregateMetrics(study)), trades |-> TradeStatistics(study),
   verdict |-> report.sections.verdict, timeline |-> Timeline(study)]

HandleReportAsReported(e, study, closed) ==
  contexts' = IF closed \/ \E n \in DOMAIN contexts : contexts[n].study = e.study THEN contexts
              ELSE Append(contexts, BuildContext(e.study, study, reports[e.report], e.report))
(* handle of study.ai.completed: the study as it is now, and the report    *)
(* the event names.                                                        *)
HandleReport(e, study, closed) ==
  contexts' = IF closed THEN contexts
              ELSE Append(contexts, BuildContext(e.study, study, reports[e.report], e.report))

-----------------------------------------------------------------------------
(* A study that failed does not pass, one that passes was validated by     *)
(* walk-forward windows or simulations, one that fails has a weakness, and *)
(* nothing is both a strength and a weakness.                              *)
VerdictsJustified ==
  \A n \in DOMAIN reports : LET r == reports[n].sections IN
    /\ reports[n].of.status = "FAILED" => r.verdict = "FAIL"
    /\ r.verdict = "PASS" => r.strengths \intersect {"walkforward", "montecarlo"} # {}
    /\ r.verdict = "FAIL" => r.weaknesses # {}
    /\ r.strengths \intersect r.weaknesses = {}

(* The trades of a context are recommendations of its study.               *)
TradesAreCounted ==
  \A n \in DOMAIN contexts : LET t == contexts[n].trades IN t.winning + t.losing <= t.total
=============================================================================
