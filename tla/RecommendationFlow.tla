-------------------------- MODULE RecommendationFlow --------------------------
(***************************************************************************)
(* From what the trading engines publish to delivery documents: the        *)
(* performance, optimization, scanner, opportunity, recommendation and     *)
(* validation engines upstream, and downstream the state engine, alerts,   *)
(* explanations, quality, feedback and delivery, composed as the bus       *)
(* connects them. Every engine is one goroutine that takes the events      *)
(* of its one subscription in order, a bounded channel that drops what     *)
(* finds it full; handling an event and publishing what comes of it is one *)
(* step, as the next event of the engine waits for both.                   *)
(***************************************************************************)
EXTENDS EngineBus, Verdicts, RecommendationState, StateFollowers, QualityFeedback, Delivery

CONSTANTS
  Prices,       \* closes of candles
  Arrivals,     \* validated recommendations: level, confidence and status
  Observations, \* signals, decisions, intents and research results
  Profits,      \* what closing a position may earn
  Watched,      \* keys that recommendations come for, per configuration
  Configurations, \* sets of engines whose Config.Enabled may be true
  MaxInputs,    \* bound: validated recommendations, per configuration
  MaxObserved,  \* bound: observations, per configuration
  MaxTrades,    \* bound: positions opened or closed, per configuration
  MaxCandles,   \* bound: candles closed, per configuration
  MaxTime       \* bound: the clock, per configuration

ASSUME ObservationTypes ==
  \A o \in Observations :
    "type" \in DOMAIN o /\ o.type \in {"signal", "decision", "intent", "walkforward", "montecarlo"}

ASSUME ProfitsAreNumbers == Profits \subseteq Int

VARIABLES
  enabled,      \* the engines whose Config.Enabled is true
  now,          \* the clock
  book,         \* the portfolio: symbols held, and the profit realized
  inputs, observed, trades, candles  \* bounds

downVars == <<recVars, alertVars, documents, qualityVars, feedbackVars, deliveryVars>>
upVars == <<performanceVars, scannerVars, opportunityVars, validationVars>>
worldVars == <<book, now, inputs, observed, trades, candles>>
flowVars == <<upVars, downVars, worldVars, enabled, busVars>>

Upstream == {"performance", "optimization", "scanner", "opportunity", "recommendation",
             "validation"}
Downstream == {"state", "alerts", "intelligence", "quality", "feedback", "delivery"}
Engines == Upstream \union Downstream

(* The event types an enabled engine's Start subscribes to.                *)
Wants == [performance |-> {"portfolio"}, optimization |-> {"performance"},
          scanner |-> {"signal", "decision", "performance"},
          opportunity |-> {"scanner", "signal", "decision", "intent", "performance",
                           "optimization", "walkforward", "montecarlo"},
          recommendation |-> {"opportunity"}, validation |-> {"recommendation"},
          state |-> {"validated"}, alerts |-> {"state"}, intelligence |-> {"state"},
          quality |-> {"state", "intelligence", "candle"}, feedback |-> {"quality"},
          delivery |-> {"state", "intelligence", "quality", "feedback", "alert"}]

FlowInit ==
  /\ PerformanceInit /\ ScannerInit /\ OpportunityInit /\ ValidationInit
  /\ RecInit /\ AlertInit /\ DocumentInit /\ QualityInit /\ FeedbackInit /\ DeliveryInit
  /\ enabled \in Configurations
  /\ inbox = [e \in Engines |-> <<>>] /\ lost = FALSE
  /\ book = [held |-> {}, realized |-> 0]
  /\ now = 0 /\ inputs = 0 /\ observed = 0 /\ trades = 0 /\ candles = 0

(* Bus.Publish by the engine `from`, to the engines that are enabled, of   *)
(* events stamped with the clock.                                          *)
Listening == [e \in Engines |-> IF e \in enabled THEN Wants[e] ELSE {}]
Publish(events, from) ==
  \E out \in {[n \in DOMAIN events |-> With(events[n], "ts", now)]} :
    PublishTo(out, from, Listening) /\ enabled' = enabled

(* What the engines that are not modelled here publish: validated          *)
(* recommendations where the validation engine is not one of the enabled,  *)
(* closed candles, and observations. Time may pass.                        *)
Validate ==
  /\ inputs < MaxInputs[enabled]
  /\ inputs' = inputs + 1
  /\ \E k \in Watched[enabled], a \in Arrivals :
       Publish(<< [type |-> "validated", key |-> k, level |-> a[1], confidence |-> a[2],
                   status |-> a[3], at |-> now] >>, "")
  /\ UNCHANGED <<upVars, downVars, book, now, observed, trades, candles>>

Observe ==
  /\ observed < MaxObserved[enabled]
  /\ observed' = observed + 1
  /\ \E o \in Observations : Publish(<< With(o, "at", now) >>, "")
  /\ UNCHANGED <<upVars, downVars, book, now, inputs, trades, candles>>

(* The portfolio opens or closes the one position of a symbol, and its     *)
(* update carries the profit realized over all symbols.                    *)
PortfolioTrades ==
  /\ trades < MaxTrades[enabled]
  /\ trades' = trades + 1
  /\ \E symbol \in {k.symbol : k \in Watched[enabled]}, profit \in Profits :
       LET closes == symbol \in book.held
       IN /\ book' = [held |-> IF closes THEN book.held \ {symbol} ELSE book.held \union {symbol},
                      realized |-> book.realized + IF closes THEN profit ELSE 0]
          /\ Publish(<< [type |-> "portfolio", symbol |-> symbol, open |-> ~closes,
                         realized |-> book.realized + IF closes THEN profit ELSE 0,
                         unrealized |-> 0, at |-> now] >>, "")
  /\ UNCHANGED <<upVars, downVars, now, inputs, observed, candles>>

CandleCloses ==
  /\ candles < MaxCandles[enabled]
  /\ candles' = candles + 1
  /\ \E k \in Watched[enabled], p \in Prices :
       Publish(<< [type |-> "candle", symbol |-> k.symbol, timeframe |-> k.timeframe,
                   price |-> p, at |-> now] >>, "")
  /\ UNCHANGED <<upVars, downVars, book, now, inputs, observed, trades>>

TimePasses ==
  /\ now < MaxTime[enabled]
  /\ now' = now + 1
  /\ UNCHANGED <<upVars, downVars, book, enabled, busVars, inputs, observed, trades, candles>>

PerformanceHandles ==
  /\ Waiting("performance")
  /\ HandlePortfolio(Next1("performance"))
  /\ Publish(PerformanceUpdates(Next1("performance")), "performance")
  /\ UNCHANGED <<evaluations, scannerVars, opportunityVars, validationVars, downVars, worldVars>>

OptimizationHandles ==
  /\ Waiting("optimization")
  /\ HandlePerformance(Next1("optimization"))
  /\ Publish(OptimizationUpdates(Next1("optimization")), "optimization")
  /\ UNCHANGED <<perf, scannerVars, opportunityVars, validationVars, downVars, worldVars>>

ScannerHandles ==
  /\ Waiting("scanner")
  /\ \E out \in ScanResults(Next1("scanner")) :
       HandleScan(Next1("scanner"), out) /\ Publish(out, "scanner")
  /\ UNCHANGED <<performanceVars, opportunityVars, validationVars, downVars, worldVars>>

OpportunityHandles ==
  /\ Waiting("opportunity")
  /\ \E out \in Opportunities(Next1("opportunity")) :
       HandleOpportunity(Next1("opportunity"), out) /\ Publish(out, "opportunity")
  /\ UNCHANGED <<performanceVars, scannerVars, validationVars, downVars, worldVars>>

RecommendationHandles ==
  /\ Waiting("recommendation")
  /\ HandleOpportunityUpdate(Next1("recommendation"))
  /\ Publish(RecommendationUpdates(Next1("recommendation")), "recommendation")
  /\ UNCHANGED <<verdicts, performanceVars, scannerVars, opportunityVars, downVars, worldVars>>

ValidationHandles ==
  /\ Waiting("validation")
  /\ HandleRecommendation(Next1("validation"), now)
  /\ Publish(Verdicts(Next1("validation"), now), "validation")
  /\ UNCHANGED <<recommendations, performanceVars, scannerVars, opportunityVars, downVars,
                 worldVars>>

StateHandles ==
  /\ Waiting("state")
  /\ ApplyValidated(Next1("state"))
  /\ Publish(StateUpdates(Next1("state")), "state")
  /\ UNCHANGED <<upVars, alertVars, documents, qualityVars, feedbackVars, deliveryVars, worldVars>>

AlertsHandle ==
  /\ Waiting("alerts")
  /\ HandleAlertUpdate(Next1("alerts"))
  /\ Publish(AlertsFor(Next1("alerts")), "alerts")
  /\ UNCHANGED <<upVars, recVars, documents, qualityVars, feedbackVars, deliveryVars, worldVars>>

IntelligenceHandles ==
  /\ Waiting("intelligence")
  /\ HandleExplanation(Next1("intelligence"))
  /\ Publish(DocumentUpdates(Next1("intelligence")), "intelligence")
  /\ UNCHANGED <<upVars, recVars, alertVars, qualityVars, feedbackVars, deliveryVars, worldVars>>

QualityHandles ==
  /\ Waiting("quality")
  /\ HandleQuality(Next1("quality"), now)
  /\ Publish(QualityReports(Next1("quality"), now), "quality")
  /\ UNCHANGED <<upVars, recVars, alertVars, documents, feedbackVars, deliveryVars, worldVars>>

FeedbackHandles ==
  /\ Waiting("feedback")
  /\ HandleReport(Next1("feedback"))
  /\ Publish(Snapshots(Next1("feedback")), "feedback")
  /\ UNCHANGED <<upVars, recVars, alertVars, documents, qualityVars, deliveryVars, worldVars>>

DeliveryHandles ==
  /\ Waiting("delivery")
  /\ HandleDelivery(Next1("delivery"))
  /\ Publish(<<>>, "delivery")
  /\ UNCHANGED <<upVars, recVars, alertVars, documents, qualityVars, feedbackVars, worldVars>>

EngineHandles == \/ PerformanceHandles \/ OptimizationHandles \/ ScannerHandles
                 \/ OpportunityHandles \/ RecommendationHandles \/ ValidationHandles
                 \/ StateHandles \/ AlertsHandle \/ IntelligenceHandles \/ QualityHandles
                 \/ FeedbackHandles \/ DeliveryHandles

FlowNext == \/ Validate \/ Observe \/ PortfolioTrades \/ CandleCloses \/ TimePasses
            \/ EngineHandles

FlowSpec == FlowInit /\ [][FlowNext]_flowVars

-----------------------------------------------------------------------------
FlowTypeOK == /\ RecTypeOK
              /\ \A e \in Engines : Len(inbox[e]) <= Buffer
              /\ lost \in BOOLEAN /\ now \in 0 .. MaxTime[enabled]
              /\ \A k \in DOMAIN verdicts : verdicts[k].status \in {"VALID", "REJECTED"}

(* Nothing is under way and nothing was lost.                              *)
Quiet == (\A e \in Engines : inbox[e] = <<>>) /\ lost = FALSE

(* When all is handled, performance has counted every trade the portfolio  *)
(* closed, and agrees with it on the profit.                               *)
TradesCounted ==
  Quiet /\ "performance" \in enabled =>
    /\ Len(perf.trades) = (trades - Cardinality(book.held)) \div 2
    /\ perf.realized = book.realized

(* When all is handled, the ranking has the scanner's last result of every *)
(* series.                                                                 *)
ScannerHeard ==
  Quiet /\ "opportunity" \in enabled =>
    \A k \in DOMAIN scanLatest :
      /\ k \in DOMAIN oppSymbols
      /\ oppSymbols[k].scanScore = scanLatest[k].score
      /\ oppSymbols[k].scanConfidence = scanLatest[k].confidence

(* When all is handled, the last opportunity of every series is what is    *)
(* recommended, and the last verdict is about that recommendation: the     *)
(* duplicates that were suppressed never leave an older verdict standing.  *)
VerdictsFollow ==
  Quiet /\ "validation" \in enabled =>
    /\ DOMAIN verdicts = DOMAIN recommendations
    /\ \A n \in DOMAIN oppHistory :
         (\A m \in n + 1 .. Len(oppHistory) : SeriesOf(oppHistory[m]) # SeriesOf(oppHistory[n]))
           => LET k == SeriesOf(oppHistory[n])
              IN /\ recommendations[k].confidence = oppHistory[n].confidence
                 /\ verdicts[k].confidence = oppHistory[n].confidence
                 /\ verdicts[k].level = recommendations[k].level

(* When all is handled, the explanations of a recommendation agree with    *)
(* its state, and their history has the last entry of its timeline.        *)
ExplanationsConverge ==
  Quiet /\ "intelligence" \in enabled =>
    /\ DOMAIN documents = DOMAIN recs
    /\ \A i \in DOMAIN recs :
         /\ documents[i].status = recs[i].status
         /\ documents[i].confidence = recs[i].confidence
         /\ recs[i].timeline[Len(recs[i].timeline)]
              \in {documents[i].timeline[n] : n \in DOMAIN documents[i].timeline}

(* An explanation's history is part of the recommendation's timeline, in   *)
(* the same order: the gaps are the entries an update did not carry.       *)
HistoryIsTimeline ==
  \A i \in DOMAIN documents :
    LET t == recs[i].timeline
        h == documents[i].timeline
    IN \E f \in [DOMAIN h -> DOMAIN t] :
         /\ \A n \in DOMAIN h : h[n] = t[f[n]]
         /\ \A m, n \in DOMAIN h : m < n => f[m] < f[n]

(* When all is handled, no closed recommendation is tracked, whatever the  *)
(* order in which its state and its explanation reached the trackers.      *)
ClosedIsUntracked ==
  Quiet => \A i \in DOMAIN trackers : recs[i].status # "CLOSED"

(* Feedback learned of exactly the recommendations that completed, and of  *)
(* each one an outcome quality counted.                                    *)
LearnedWhatCompleted ==
  /\ learnedIds \subseteq DOMAIN completedReports
  /\ Quiet /\ "feedback" \in enabled => learnedIds = DOMAIN completedReports

(* A change alerts at most once, however often the state engine publishes  *)
(* its entry again: no more alerts of a type than timeline entries that    *)
(* call for it, and one creation per recommendation.                       *)
CalledFor(id, type) ==
  IF type = "Recommendation Created" THEN 1
  ELSE Cardinality({n \in DOMAIN recs[id].timeline : EntryAlert(recs[id].timeline[n]) = <<type>>})
OneAlertPerChange ==
  \A n \in DOMAIN alertHistory :
    LET a == alertHistory[n]
    IN Cardinality({m \in DOMAIN alertHistory :
                      alertHistory[m].id = a.id /\ alertHistory[m].alert = a.alert})
         <= CalledFor(a.id, a.alert)

(* When all is handled, every alert is in its document.                    *)
AlertsDelivered ==
  Quiet /\ "alerts" \in enabled => \A i \in DOMAIN docs :
             docs[i].alerts = Cardinality({n \in DOMAIN alertHistory : alertHistory[n].id = i})

(* When all is handled, the document of a recommendation has its status.   *)
DeliveryConverges ==
  Quiet /\ "delivery" \in enabled => \A i \in DOMAIN recs : i \in DOMAIN docs /\ docs[i].status = recs[i].status

(* The document tells every entry of the recommendation's timeline.        *)
LifecycleDelivered ==
  Quiet /\ "delivery" \in enabled => \A i \in DOMAIN recs : \A n \in DOMAIN recs[i].timeline :
             recs[i].timeline[n] \in {docs[i].timeline[m] : m \in DOMAIN docs[i].timeline}

(* When all is handled, every recommendation that closed was evaluated,    *)
(* by its close or by the timeout.                                         *)
ClosedIsEvaluated ==
  Quiet /\ "quality" \in enabled =>
    \A k \in DOMAIN closedRecs : closedRecs[k] \in DOMAIN completedReports

(* Performance and optimization, which see only snapshots of totals, count *)
(* the trades and the profit of the portfolio: no trade is missed or       *)
(* attributed twice, as long as the bus drops nothing. What a dropped      *)
(* update of the portfolio tells is told by no later one.                  *)
TradesTold ==
  /\ ~lost => TradesAddUp /\ GrossTelescopes
  /\ TradesCounted

(* The ranking and the verdicts follow the evidence: what is ranked or     *)
(* published is best of what is known then, and when all is handled the    *)
(* last word on a series is about its last evidence.                       *)
EvidenceFollowed ==
  /\ RankedIsBest
  /\ TopIsBest
  /\ [](ScannerHeard /\ VerdictsFollow)

(* Every change that calls for an alert has at most one, a cooldown after  *)
(* the one like it, and the documents count them all.                      *)
AlertsSound == OneAlertPerChange /\ AlertsCooled /\ AlertsDelivered

(* Explanations and delivery documents, patched by the events of several   *)
(* engines in any order, come to agree with the recommendation, keep its   *)
(* history in order, and are found by all queries.                         *)
DocumentsAgree ==
  /\ ExplanationsConverge
  /\ TimelineInTime
  /\ HistoryIsTimeline
  /\ TimelineOrdered
  /\ IndexesAgree
  /\ ActiveOrClosed

(* A recommendation is tracked until it closes or times out, evaluated,    *)
(* and its outcome counted and learned from once.                          *)
OutcomesLearned ==
  /\ FlowTypeOK
  /\ ClosedIsUntracked
  /\ ProgressIsTracked
  /\ ClosedIsEvaluated
  /\ CountedOutcomes
  /\ LearnedWhatCompleted
  /\ FeedbackAddsUp
==============================================================================
