------------------------------- MODULE Verdicts -------------------------------
(***************************************************************************)
(* From what the portfolio earns and the market scanner finds to verdicts  *)
(* on recommendations: performance and optimization, the scanner, the      *)
(* ranking of opportunities, the recommendation engine and the validation  *)
(* engine.                                                                 *)
(***************************************************************************)
EXTENDS Integers, Sequences, FiniteSets, Functions, TLC

(***************************************************************************)
(* Performance and optimization (internal/analytics/performance,           *)
(* internal/optimization). Performance keeps totals over all symbols from  *)
(* the portfolio's updates, and publishes them under the symbol of the     *)
(* last one; optimization keeps an evaluation for every symbol it hears    *)
(* of, scores it and ranks them all.                                       *)
(*                                                                         *)
(* Rates and scores are in percent, profits are integers. The history of   *)
(* scores, the equity curve and averages nobody reads are left out, and    *)
(* so is the research context a portfolio update never carries.            *)
(***************************************************************************)
CONSTANTS ProfitFactorWeight, WinRateWeight, ExpectancyWeight, DrawdownPenalty

ASSUME ScoringWeights ==
  ProfitFactorWeight + WinRateWeight + ExpectancyWeight + DrawdownPenalty > 0

VARIABLES
  perf,         \* performance Cache
  evaluations   \* optimization Cache.evaluations: symbol -> evaluationState

performanceVars == <<perf, evaluations>>

PerformanceInit ==
  /\ perf = [open |-> {}, realized |-> 0, unrealized |-> 0, trades |-> <<>>,
             peak |-> 0, drawdown |-> 0]
  /\ evaluations = <<>>

-----------------------------------------------------------------------------
Share(n, of) == IF of = 0 THEN 0 ELSE (100 * n) \div of
Wins(trades) == Len(SelectSeq(trades, LAMBDA t : t.pnl > 0))

TradesWhenFlat(p, u) ==
  IF u.open \/ p.open # {u.symbol} THEN p.trades
  ELSE Append(p.trades, [symbol |-> u.symbol, pnl |-> u.realized - p.realized])

(* A trade ends when the position of a symbol that had one is gone; it     *)
(* earned what the realized total moved by since the update before.        *)
TradesAfter(p, u) ==
  IF u.open \/ u.symbol \notin p.open THEN p.trades
  ELSE Append(p.trades, [symbol |-> u.symbol, pnl |-> u.realized - p.realized])

(* Cache.Apply with DrawdownState.Update.                                  *)
AppliedPerf(p, u) ==
  LET net == u.realized + u.unrealized
  IN [open |-> IF u.open THEN p.open \union {u.symbol} ELSE p.open \ {u.symbol},
      realized |-> u.realized, unrealized |-> u.unrealized,
      trades |-> TradesAfter(p, u),
      peak |-> IF net > p.peak THEN net ELSE p.peak,
      drawdown |-> IF net > p.peak THEN 0 ELSE p.peak - net]

(* Engine.handle of portfolio.updated, and the event it publishes.         *)
HandlePortfolio(u) == perf' = AppliedPerf(perf, u)
PerformanceUpdates(u) ==
  LET p == AppliedPerf(perf, u)
  IN << [type |-> "performance", symbol |-> u.symbol, trades |-> Len(p.trades),
         win |-> Share(Wins(p.trades), Len(p.trades)), realized |-> p.realized,
         unrealized |-> p.unrealized, drawdown |-> p.drawdown, at |-> u.at] >>

-----------------------------------------------------------------------------
NewEvaluation == [trades |-> 0, realized |-> 0, profit |-> 0, loss |-> 0, wins |-> 0,
                  avgWin |-> 0, avgLoss |-> 0, drawdown |-> 0, score |-> 0]
Evaluation(symbol) == IF symbol \in DOMAIN evaluations THEN evaluations[symbol] ELSE NewEvaluation

(* updateTradeState: when there are more trades than last time, what the   *)
(* realized total moved by is one win or one loss of this symbol.          *)
Gross(v, e) ==
  LET delta == e.realized - v.realized
      losses == e.trades - v.wins
  IN IF e.trades <= v.trades \/ delta = 0 THEN v
     ELSE IF delta > 0
       THEN [v EXCEPT !.profit = @ + delta, !.wins = @ + 1,
                      !.avgWin = (@ * v.wins + delta) \div (v.wins + 1)]
       ELSE [v EXCEPT !.loss = @ - delta,
                      !.avgLoss = IF losses > 0 THEN (@ * (losses - 1) - delta) \div losses ELSE @]

(* ComputeMetrics and Score, with the caps of 5, 100 and 1000.             *)
Normal(v, cap) == IF v <= 0 THEN 0 ELSE IF v >= cap THEN 100 ELSE (100 * v) \div cap
ProfitFactor(v) ==   \* in tenths
  IF v.loss = 0 THEN (IF v.profit > 0 THEN 50 ELSE 0)
  ELSE IF 10 * v.profit > 50 * v.loss THEN 50 ELSE (10 * v.profit) \div v.loss
Expectancy(v, win) == (win * v.avgWin - (100 - win) * v.avgLoss) \div 100
ScoreOf(v, win) ==
  (ProfitFactorWeight * Normal(ProfitFactor(v), 50) + WinRateWeight * win
     + ExpectancyWeight * Normal(Expectancy(v, win), 100)
     - DrawdownPenalty * Normal(v.drawdown, 1000)) \div 100

(* Cache.Apply of a performance update.                                    *)
Evaluated(e) ==
  LET v == [Gross(Evaluation(e.symbol), e) EXCEPT
              !.trades = e.trades, !.realized = e.realized,
              !.drawdown = IF e.drawdown > @ THEN e.drawdown ELSE @]
  IN [v EXCEPT !.score = ScoreOf(v, e.win)]

HandlePerformance(e) ==
  evaluations' = [s \in DOMAIN evaluations \union {e.symbol} |->
                   IF s = e.symbol THEN Evaluated(e) ELSE evaluations[s]]

(* Engine.publish; no engine reads the rank, which is left out.            *)
OptimizationUpdates(e) ==
  << [type |-> "optimization", symbol |-> e.symbol, score |-> Evaluated(e).score, at |-> e.at] >>

-----------------------------------------------------------------------------
(* With one series of a symbol open at a time, the trades recorded add up  *)
(* to the realized profit: every profit the portfolio takes is a trade.    *)
TradesAddUp ==
  SumFunctionOnSet([n \in DOMAIN perf.trades |-> perf.trades[n].pnl], DOMAIN perf.trades)
    = perf.realized

(* The wins and losses of an evaluation differ by the realized profit it   *)
(* last heard of, whatever trades of other symbols came in between.        *)
GrossTelescopes ==
  \A s \in DOMAIN evaluations :
    evaluations[s].profit - evaluations[s].loss = evaluations[s].realized

-----------------------------------------------------------------------------
(***************************************************************************)
(* The market scanner (internal/scanner): rules over the latest signal,    *)
(* decision and performance of a symbol. A signal or a decision is scanned *)
(* by itself; a performance update only when its symbol has the best       *)
(* performance of all. Signals and decisions are kept for snapshots only:  *)
(* left out. Scores are in percent.                                        *)
(***************************************************************************)
CONSTANTS
  ScannerRules,    \* Config.Scanners that are on
  ScannerWatches,  \* Config.Symbols; empty for every symbol
  ScanMinimum      \* Config.MinConfidence

ASSUME ScannerConfig == /\ ScannerRules \subseteq {"ema", "rsi", "macd", "trend", "ranking"}
                        /\ ScanMinimum \in 0 .. 100

VARIABLES
  scanPerf,    \* Cache.byKey: series -> its last performance
  scanLatest   \* Cache.latest: series -> its last result

scannerVars == <<scanPerf, scanLatest>>

ScannerInit == scanPerf = <<>> /\ scanLatest = <<>>

-----------------------------------------------------------------------------
(* WatchesSymbol *)
Watches(symbol) == ScannerWatches = {} \/ symbol \in ScannerWatches

ScanResult(e, scanner, status, score, confidence) ==
  [type |-> "scanner", symbol |-> e.symbol, timeframe |-> e.timeframe, scanner |-> scanner,
   status |-> status, score |-> score, confidence |-> confidence, at |-> e.at]

StatusAt(confidence) == IF confidence < ScanMinimum THEN "WATCH" ELSE "MATCH"

(* EvaluateSignal: the scanner of the strategy that gave the signal.       *)
ScannerOf == [ema_cross |-> "ema", rsi |-> "rsi", macd_cross |-> "macd"]
ScanSignal(e) ==
  IF e.strategy \in DOMAIN ScannerOf /\ ScannerOf[e.strategy] \in ScannerRules
       /\ e.side \in {"BUY", "SELL"}
    THEN << ScanResult(e, ScannerOf[e.strategy], StatusAt(e.confidence), e.confidence,
                       e.confidence) >>
    ELSE <<>>

(* EvaluateDecision *)
ScanDecision(e) ==
  IF "trend" \in ScannerRules /\ e.strategy = "trend_following"
       /\ e.decision \in {"LONG_ENTRY", "SHORT_ENTRY"}
    THEN << ScanResult(e, "trend", StatusAt(e.confidence), e.confidence, e.confidence) >>
    ELSE <<>>

(* normalizePnL, in percent; the score of a performance.                   *)
PnLShare(pnl) == IF pnl <= 0 THEN 0 ELSE IF pnl >= 1000 THEN 100 ELSE pnl \div 10
PerfScore(p) == (p.win + PnLShare(p.pnl)) \div 2

(* parseInputPerformance: performance comes without a timeframe, and is    *)
(* taken for the one-minute series.                                        *)
PerfKey(e) == <<e.symbol, "1m">>
PerfAfter(e) == (PerfKey(e) :> [win |-> e.win, pnl |-> e.realized + e.unrealized]) @@ scanPerf

(* EvaluateRanking: the first of the best in the order of a map, so any.   *)
BestOf(perfs) ==
  {k \in DOMAIN perfs : \A j \in DOMAIN perfs : PerfScore(perfs[j]) <= PerfScore(perfs[k])}
ScanRanking(e) ==
  {IF k[1] # e.symbol THEN <<>>
   ELSE << ScanResult([symbol |-> k[1], timeframe |-> k[2], at |-> e.at], "ranking", "MATCH",
                      PerfScore(PerfAfter(e)[k]), PerfAfter(e)[k].win) >> :
     k \in IF "ranking" \in ScannerRules THEN BestOf(PerfAfter(e)) ELSE {<<"", "">>}}

(* The results an event may have; Engine.publish keeps each as the latest. *)
ScanResults(e) ==
  IF ~Watches(e.symbol) THEN {<<>>}
  ELSE CASE e.type = "signal" -> {ScanSignal(e)}
         [] e.type = "decision" -> {ScanDecision(e)}
         [] OTHER -> ScanRanking(e)

(* Engine.handle with the results `out`.                                   *)
HandleScan(e, out) ==
  /\ scanPerf' = IF e.type = "performance" /\ Watches(e.symbol) THEN PerfAfter(e) ELSE scanPerf
  /\ scanLatest' = IF out = <<>> THEN scanLatest
                   ELSE (<<out[1].symbol, out[1].timeframe>> :> out[1]) @@ scanLatest

(* A ranking is the best performance the scanner knows: no series it has a *)
(* performance of is better than one it ranks first.                       *)
RankedIsBest ==
  [][\A k \in DOMAIN scanLatest' :
       scanLatest'[k].scanner = "ranking"
         /\ (k \notin DOMAIN scanLatest \/ scanLatest'[k] # scanLatest[k])
       => \A j \in DOMAIN scanPerf' : PerfScore(scanPerf'[j]) <= scanLatest'[k].score]_scannerVars

-----------------------------------------------------------------------------
(***************************************************************************)
(* The ranking of opportunities (internal/opportunity): scores of every    *)
(* symbol from what eight kinds of events said last, ranked and published  *)
(* whenever the scanner reports. All that is published then carries the    *)
(* time of that report. Scores and weights are in percent.                 *)
(***************************************************************************)
CONSTANTS
  OppWeights,        \* Config.Weights, by component
  OppTopN,           \* Config.TopN
  OppBuyAt, OppWatchAt, \* Config thresholds
  MaxOpportunities,  \* maxOpportunityHistory
  Precedes(_, _)     \* the order of symbols' names

Components == {"signal", "strategy", "performance", "optimization", "walkforward", "montecarlo"}
WeightSum == OppWeights.signal + OppWeights.strategy + OppWeights.performance
               + OppWeights.optimization + OppWeights.walkforward + OppWeights.montecarlo

ASSUME OpportunityConfig == /\ DOMAIN OppWeights = Components /\ WeightSum > 0
                            /\ OppTopN \in Nat \ {0} /\ OppBuyAt >= OppWatchAt

VARIABLES
  oppSymbols,   \* Cache.symbols: series -> SymbolState
  oppPlatform,  \* Cache.platform
  oppSummary,   \* Engine.summary
  oppHistory    \* Engine.history

opportunityVars == <<oppSymbols, oppPlatform, oppSummary, oppHistory>>

OpportunityInit ==
  /\ oppSymbols = <<>>
  /\ oppPlatform = [walkforward |-> 0, montecarlo |-> 0]
  /\ oppSummary = [ranked |-> 0, top |-> 0, buy |-> 0, watch |-> 0, ignore |-> 0]
  /\ oppHistory = <<>>

-----------------------------------------------------------------------------
NewSymbol == [signal |-> 0, strategy |-> 0, approved |-> FALSE, performance |-> 0,
              optimization |-> 0, scanScore |-> 0, scanConfidence |-> 0, at |-> 0]
StateFor(key) == IF key \in DOMAIN oppSymbols THEN oppSymbols[key] ELSE NewSymbol

Unit(v) == IF v < 0 THEN 0 ELSE IF v > 100 THEN 100 ELSE v
Scaled(pnl) == IF pnl <= 0 THEN 0 ELSE IF pnl >= 1000 THEN 100 ELSE pnl \div 10

(* The series an event is about; performance and optimization come without *)
(* a timeframe (parsePerformance, parseOptimization).                      *)
OppKey(e) == <<e.symbol, IF e.type \in {"performance", "optimization"} THEN "1m" ELSE e.timeframe>>

(* Cache.Apply* of the events about a symbol.                              *)
SymbolAfter(e) ==
  LET s == [StateFor(OppKey(e)) EXCEPT !.at = e.at]
  IN CASE e.type = "signal" -> [s EXCEPT !.signal = Unit(e.confidence)]
       [] e.type = "decision" -> [s EXCEPT !.strategy = Unit(e.confidence)]
       [] e.type = "intent" -> [s EXCEPT !.approved = e.approved]
       [] e.type = "performance" ->
            [s EXCEPT !.performance =
               Unit((6 * e.win + 4 * Scaled(e.realized + e.unrealized)) \div 10)]
       [] e.type = "optimization" -> [s EXCEPT !.optimization = Unit(e.score)]
       [] OTHER -> [s EXCEPT !.scanScore = Unit(e.score), !.scanConfidence = Unit(e.confidence)]

PlatformEvents == {"walkforward", "montecarlo"}
SymbolsAfter(e) ==
  IF e.type \in PlatformEvents THEN oppSymbols
  ELSE [k \in DOMAIN oppSymbols \union {OppKey(e)} |->
         IF k = OppKey(e) THEN SymbolAfter(e) ELSE oppSymbols[k]]
PlatformAfter(e) ==
  IF e.type \in PlatformEvents THEN [oppPlatform EXCEPT ![e.type] = Unit(e.score)]
  ELSE oppPlatform

(* Scorer.Compute: the scanner stands in for a signal that is missing, and *)
(* a risk that is not approved costs two fifths.                           *)
Confidence(s, platform) ==
  LET signal == IF s.signal = 0 THEN s.scanConfidence ELSE s.signal
      sum == OppWeights.signal * signal + OppWeights.strategy * s.strategy
               + OppWeights.performance * s.performance
               + OppWeights.optimization * s.optimization
               + OppWeights.walkforward * platform.walkforward
               + OppWeights.montecarlo * platform.montecarlo
  IN Unit((sum * IF s.approved THEN 10 ELSE 6) \div (10 * WeightSum))

ClassOf(confidence) == CASE confidence >= OppBuyAt -> "BUY"
                         [] confidence >= OppWatchAt -> "WATCH"
                         [] OTHER -> "IGNORE"

(* Ranker.Rank: by confidence, then by name; series of one symbol that tie *)
(* come in any order.                                                      *)
Rankings(conf) ==
  LET n == Cardinality(DOMAIN conf)
  IN {r \in [1 .. n -> DOMAIN conf] :
        /\ \A i, j \in 1 .. n : i < j => r[i] # r[j]
        /\ \A i \in 1 .. n - 1 :
             \/ conf[r[i]] > conf[r[i + 1]]
             \/ conf[r[i]] = conf[r[i + 1]] /\ ~Precedes(r[i + 1][1], r[i][1])}

TopN(ranking) == SubSeq(ranking, 1, IF Len(ranking) <= OppTopN THEN Len(ranking) ELSE OppTopN)

(* rankAndPublish after the scanner's report `e`: what may be published.   *)
Opportunities(e) ==
  IF e.type # "scanner" THEN {<<>>}
  ELSE LET states == SymbolsAfter(e)
           conf == [k \in DOMAIN states |-> Confidence(states[k], oppPlatform)]
       IN {[n \in DOMAIN top |->
              [type |-> "opportunity", symbol |-> top[n][1], timeframe |-> top[n][2], rank |-> n,
               confidence |-> conf[top[n]], optimization |-> states[top[n]].optimization,
               walkforward |-> oppPlatform.walkforward, montecarlo |-> oppPlatform.montecarlo,
               at |-> e.at]] : top \in {TopN(r) : r \in Rankings(conf)}}

(* Summarize *)
SummaryOf(states, platform, top) ==
  LET count(class) == Cardinality({k \in DOMAIN states :
                                     ClassOf(Confidence(states[k], platform)) = class})
  IN [ranked |-> Cardinality(DOMAIN states), top |-> top,
      buy |-> count("BUY"), watch |-> count("WATCH"), ignore |-> count("IGNORE")]

Newest(s, n) == IF Len(s) <= n THEN s ELSE SubSeq(s, Len(s) - n + 1, Len(s))

(* Engine.handle of an event, publishing `out`.                            *)
HandleOpportunity(e, out) ==
  /\ oppSymbols' = SymbolsAfter(e)
  /\ oppPlatform' = PlatformAfter(e)
  /\ oppSummary' = IF e.type = "scanner" THEN SummaryOf(SymbolsAfter(e), oppPlatform, Len(out))
                   ELSE oppSummary
  /\ oppHistory' = Newest(oppHistory \o out, MaxOpportunities)

(* Nothing that is left out of a ranking beats what is in it, and what is  *)
(* published comes best first: every series scored anew against the batch. *)
TopIsBest ==
  [][oppSummary' # oppSummary \/ oppHistory' # oppHistory =>
       LET batch == {oppHistory'[n] : n \in Len(oppHistory') - oppSummary'.top + 1 .. Len(oppHistory')}
           seen == {<<b.symbol, b.timeframe>> : b \in batch}
       IN /\ Cardinality(seen) = oppSummary'.top
          /\ \A k \in DOMAIN oppSymbols' \ seen : \A b \in batch :
               Confidence(oppSymbols'[k], oppPlatform') <= b.confidence
          /\ \A b, c \in batch : b.rank < c.rank => b.confidence >= c.confidence]_opportunityVars

-----------------------------------------------------------------------------
(***************************************************************************)
(* From opportunities to verdicts: the recommendation engine               *)
(* (internal/recommendation) turns an opportunity into a recommendation    *)
(* with a level, and the validation engine (internal/validation) checks it *)
(* against thresholds and its age. Both keep the latest per series.        *)
(*                                                                         *)
(* Scores are in percent. The summaries are texts that the validator reads *)
(* the scores back from, rounded to a percent; a score of 0 has a text     *)
(* without a number, and is not checked. The win rate and the drawdown a   *)
(* recommendation never carries are left out.                              *)
(***************************************************************************)
CONSTANTS
  RecStrongBuyAt, RecBuyAt, RecWatchAt,   \* recommendation.Config thresholds
  MinConfidence, MinOptimization, MinWalkforward, MinMonteCarlo,
  Freshness,           \* Config.FreshnessSeconds
  SuppressDuplicates,
  ReplayMode

ASSUME ValidationConfig ==
  /\ RecStrongBuyAt >= RecBuyAt /\ RecBuyAt >= RecWatchAt
  /\ Freshness \in Nat /\ SuppressDuplicates \in BOOLEAN /\ ReplayMode \in BOOLEAN

VARIABLES
  recommendations,   \* recommendation Cache: series -> RecommendationUpdated
  verdicts           \* validation Cache: series -> ValidatedRecommendation

validationVars == <<recommendations, verdicts>>

ValidationInit == recommendations = <<>> /\ verdicts = <<>>

SeriesOf(e) == <<e.symbol, e.timeframe>>

-----------------------------------------------------------------------------
(* ClassifyLevel *)
RecLevelOf(confidence) ==
  CASE confidence >= RecStrongBuyAt -> "STRONG_BUY"
    [] confidence >= RecBuyAt -> "BUY"
    [] confidence >= RecWatchAt -> "WATCH"
    [] OTHER -> "AVOID"

(* Builder.Build: generated at the time the opportunity says.              *)
Built(e) == [type |-> "recommendation", symbol |-> e.symbol, timeframe |-> e.timeframe,
             level |-> RecLevelOf(e.confidence), confidence |-> e.confidence, rank |-> e.rank,
             optimization |-> e.optimization, walkforward |-> e.walkforward,
             montecarlo |-> e.montecarlo, generatedAt |-> e.at]

(* Engine.handle of opportunity.updated.                                   *)
HandleOpportunityUpdate(e) == recommendations' = (SeriesOf(e) :> Built(e)) @@ recommendations
RecommendationUpdates(e) == << Built(e) >>

-----------------------------------------------------------------------------
(* Validator.Validate: every check that fails is a reason to reject.       *)
TooLow(score, minimum) == score > 0 /\ score < minimum
Age(e, now) == IF now < e.generatedAt THEN 0 ELSE now - e.generatedAt
RejectedFor(e, now) ==
  {r \in {"confidence", "optimization", "walkforward", "montecarlo", "stale"} :
     CASE r = "confidence" -> e.confidence < MinConfidence
       [] r = "optimization" -> TooLow(e.optimization, MinOptimization)
       [] r = "walkforward" -> TooLow(e.walkforward, MinWalkforward)
       [] r = "montecarlo" -> TooLow(e.montecarlo, MinMonteCarlo)
       [] OTHER -> ~ReplayMode /\ Age(e, now) > Freshness}

DuplicateByLevel(e) ==
  SeriesOf(e) \in DOMAIN verdicts /\ verdicts[SeriesOf(e)].level = e.level
(* IsDuplicate: the same level and confidence as the last verdict, valid   *)
(* or not, however old.                                                    *)
IsDuplicate(e) ==
  /\ SuppressDuplicates
  /\ SeriesOf(e) \in DOMAIN verdicts
  /\ verdicts[SeriesOf(e)].level = e.level
  /\ verdicts[SeriesOf(e)].confidence = e.confidence

(* The clock of a verdict: replayed recommendations are judged at the time *)
(* they were generated.                                                    *)
JudgedAt(e, now) == IF ReplayMode THEN e.generatedAt ELSE now

Verdict(e, now) ==
  [type |-> "validated",
   key |-> [symbol |-> e.symbol, timeframe |-> e.timeframe, strategy |-> "default"],
   level |-> e.level, confidence |-> e.confidence,
   status |-> IF RejectedFor(e, JudgedAt(e, now)) = {} THEN "VALID" ELSE "REJECTED",
   at |-> JudgedAt(e, now)]

(* Engine.handle of recommendation.updated, and what it publishes.         *)
HandleRecommendation(e, now) ==
  verdicts' = IF IsDuplicate(e) THEN verdicts ELSE (SeriesOf(e) :> Verdict(e, now)) @@ verdicts
Verdicts(e, now) == IF IsDuplicate(e) THEN <<>> ELSE << Verdict(e, now) >>

-----------------------------------------------------------------------------
==============================================================================
