-------------------------- MODULE QualityFeedback ---------------------------
(***************************************************************************)
(* Quality tracking, and the feedback that learns from its reports.        *)
(***************************************************************************)
EXTENDS Integers, Sequences, FiniteSets, SequencesExt, TLC

(***************************************************************************)
(* Quality tracking (internal/quality): follows the price of every open    *)
(* recommendation and reports how it did when it closes or its tracking    *)
(* times out. Three kinds of events come in, in the order of the bus:      *)
(* explanations start a tracker, candles move its prices, state updates    *)
(* move its status; after each one the timeouts are checked.               *)
(*                                                                         *)
(* Prices are integers, returns are in hundredths of a percent and scores  *)
(* in ten-thousandths; a unit of time is a minute. Trackers of different   *)
(* recommendations are visited in one fixed order.                         *)
(***************************************************************************)
CONSTANTS
  TrackingTimeout,            \* Config.TrackingTimeout
  SuccessReturn, FailureReturn, \* returns that decide the outcome
  ExcellentAt, GoodAt, AverageAt \* scores that decide the classification

ASSUME QualityConfig == /\ TrackingTimeout \in Nat
                        /\ FailureReturn < SuccessReturn
                        /\ ExcellentAt >= GoodAt /\ GoodAt >= AverageAt

VARIABLES
  trackers,       \* TrackerRegistry.trackers: identifier -> tracker
  activeReports,  \* Cache.active: identifier -> report
  completedReports, \* Cache.completed: identifier -> report
  historical      \* Cache.historical: outcomes counted by add

qualityVars == <<trackers, activeReports, completedReports, historical>>

QualityOutcomes == {"SUCCESS", "FAILED", "NEUTRAL", "EXPIRED"}

QualityInit == /\ trackers = <<>> /\ activeReports = <<>> /\ completedReports = <<>>
               /\ historical = [o \in QualityOutcomes |-> 0]

-----------------------------------------------------------------------------
Clamp(v, lo, hi) == IF v < lo THEN lo ELSE IF v > hi THEN hi ELSE v

(* computeQualityMetrics: returns against the entry, 0 without a price.    *)
ReturnOn(t, price) == IF t.entry = 0 THEN 0 ELSE ((price - t.entry) * 10000) \div t.entry
ReturnPct(t) == ReturnOn(t, t.current)
Favourable(t) == ReturnOn(t, t.high)
Adverse(t) == Clamp(0 - ReturnOn(t, t.low), 0, 10000)

(* ComputeQualityScore, with its factors.                                  *)
LevelFactor == [STRONG_BUY |-> 100, BUY |-> 85, WATCH |-> 50, AVOID |-> 20]
OutcomeFactor == [SUCCESS |-> 100, NEUTRAL |-> 50, EXPIRED |-> 30, FAILED |-> 0]
DurationFactor(mins) ==
  CASE mins <= 0 -> 50 [] mins \in 1 .. 4 -> 60 [] mins \in 5 .. 90 -> 100
    [] mins \in 91 .. 120 -> 80 [] OTHER -> 50
Score(t, outcome, mins) ==
  30 * Clamp((ReturnPct(t) + 500) \div 10, 0, 100)
    + 20 * Clamp(Favourable(t) \div 5, 0, 100)
    + 15 * Clamp(100 - (Adverse(t) \div 3), 0, 100)
    + 10 * DurationFactor(mins)
    + 10 * Clamp(t.confidence, 0, 100)
    + 5 * LevelFactor[t.level]
    + 10 * OutcomeFactor[outcome]

Classify(score, outcome) ==
  CASE outcome = "FAILED" \/ score <= 0 -> "FAILED"
    [] score >= ExcellentAt -> "EXCELLENT"
    [] score >= GoodAt -> "GOOD"
    [] score >= AverageAt -> "AVERAGE"
    [] OTHER -> "POOR"

(* EvaluateOutcome *)
Evaluate(return, expired) ==
  CASE expired -> "EXPIRED"
    [] return >= SuccessReturn -> "SUCCESS"
    [] return <= FailureReturn -> "FAILED"
    [] OTHER -> "NEUTRAL"

Held(t, at) == IF at < t.entryTime THEN 0 ELSE at - t.entryTime

(* BuildReport: progress has neither outcome nor classification.           *)
Report(id, t, at, final, expired) ==
  LET done == final \/ expired
      outcome == IF done THEN Evaluate(ReturnPct(t), expired) ELSE "NEUTRAL"
      score == Score(t, outcome, Held(t, at))
  IN [type |-> "quality", id |-> id, key |-> t.key, level |-> t.level,
      confidence |-> t.confidence, status |-> t.status, entry |-> t.entry,
      latest |-> t.current, score |-> score, completed |-> done, at |-> at,
      outcome |-> IF done THEN outcome ELSE "",
      class |-> IF done THEN Classify(score, outcome) ELSE ""]

(* newActiveTracker and applyIntelligence, as TrackerRegistry.Start calls  *)
(* them for an update that is not CLOSED.                                  *)
Started(u) ==
  IF u.id \in DOMAIN trackers
    THEN [trackers[u.id] EXCEPT !.level = u.level, !.confidence = u.confidence,
                                !.status = u.status]
    ELSE [key |-> u.key, level |-> u.level, confidence |-> u.confidence,
          status |-> u.status, entryTime |-> u.at,
          entry |-> 0, current |-> 0, high |-> 0, low |-> 0]

(* applyCandle *)
Priced(t, price) ==
  IF t.entry = 0
    THEN [t EXCEPT !.entry = price, !.current = price, !.high = price, !.low = price]
    ELSE [t EXCEPT !.current = price, !.high = IF price > @ THEN price ELSE @,
                   !.low = IF price < @ THEN price ELSE @]
Matches(t, c) == t.key.symbol = c.symbol /\ t.key.timeframe = c.timeframe

(* What a handler leaves of the trackers, and the reports it publishes.    *)
Outcome(trk, out) == [trackers |-> trk, out |-> out]
Drop(f, ids) == [i \in DOMAIN f \ ids |-> f[i]]
Put(f, id, v) == [i \in DOMAIN f \union {id} |-> IF i = id THEN v ELSE f[i]]

OnDocumentOpenOnly(u, now) ==
  Outcome(Put(trackers, u.id, Started(u)), << Report(u.id, Started(u), u.at, FALSE, FALSE) >>)

(* handleIntelligence: CLOSED removes the tracker and completes it as it   *)
(* is (finalizeByID); anything else starts or refreshes it.                *)
OnDocument(u, now) ==
  IF u.status = "CLOSED"
    THEN IF u.id \notin DOMAIN trackers THEN Outcome(trackers, <<>>)
         ELSE Outcome(Drop(trackers, {u.id}),
                      << Report(u.id, trackers[u.id], now, TRUE, FALSE) >>)
    ELSE Outcome(Put(trackers, u.id, Started(u)),
                 << Report(u.id, Started(u), u.at, FALSE, FALSE) >>)

(* handleState: the tracker takes the status; CLOSED completes it, and     *)
(* leaves it in the registry.                                              *)
OnState(u) ==
  IF u.id \notin DOMAIN trackers THEN Outcome(trackers, <<>>)
  ELSE LET t == [trackers[u.id] EXCEPT !.status = u.status, !.confidence = u.confidence]
       IN Outcome(Put(trackers, u.id, t),
                  << Report(u.id, t, u.entry.at, u.status = "CLOSED", FALSE) >>)

(* handleCandle *)
OnCandle(c) ==
  LET ids == {i \in DOMAIN trackers : Matches(trackers[i], c)}
      trk == [i \in DOMAIN trackers |->
               IF i \in ids THEN Priced(trackers[i], c.price) ELSE trackers[i]]
      order == SetToSeq(ids)
  IN Outcome(trk, [n \in DOMAIN order |-> Report(order[n], trk[order[n]], c.at, FALSE, FALSE)])

(* checkTimeoutsAt: trackers past the timeout leave as EXPIRED.            *)
Expire(o, at) ==
  LET ids == {i \in DOMAIN o.trackers : TrackingTimeout > 0
                                        /\ at - o.trackers[i].entryTime >= TrackingTimeout}
      order == SetToSeq(ids)
  IN Outcome(Drop(o.trackers, ids),
             o.out \o [n \in DOMAIN order |->
                        Report(order[n], o.trackers[order[n]], at, FALSE, TRUE)])

(* Engine.handle of one event: `now` is the clock finalizeByID reads.      *)
Handled(e, now) ==
  Expire(CASE e.type = "intelligence" -> OnDocument(e, now)
           [] e.type = "state" -> OnState(e)
           [] OTHER -> OnCandle(e), e.ts)

QualityReports(e, now) == Handled(e, now).out

(* UpdateActive and Complete, report by report.                            *)
Keep(s, r) ==
  IF r.completed
    THEN [active |-> Drop(s.active, {r.id}), completed |-> Put(s.completed, r.id, r),
          historical |-> [s.historical EXCEPT ![r.outcome] = @ + 1]]
    ELSE [s EXCEPT !.active = Put(@, r.id, r)]
Kept(out) == FoldLeft(Keep, [active |-> activeReports, completed |-> completedReports,
                             historical |-> historical], out)

HandleQuality(e, now) ==
  /\ trackers' = Handled(e, now).trackers
  /\ LET s == Kept(QualityReports(e, now))
     IN /\ activeReports' = s.active
        /\ completedReports' = s.completed
        /\ historical' = s.historical

(* Tracking stops when the status becomes CLOSED or the timeout expires:   *)
(* nothing is tracked whose tracker has the status CLOSED.                 *)
TrackingStops == \A i \in DOMAIN trackers : trackers[i].status # "CLOSED"

(* A report is in progress exactly while a tracker is there for it, once   *)
(* the recommendation's last report is in: no report in progress outlives  *)
(* its tracker.                                                            *)
ProgressIsTracked == DOMAIN activeReports \subseteq DOMAIN trackers

(* Every outcome counted is one of a recommendation that completed, and    *)
(* the last one reported for each is counted.                              *)
CountedOutcomes ==
  \A o \in QualityOutcomes :
    historical[o] >= Cardinality({i \in DOMAIN completedReports :
                                    completedReports[i].outcome = o})

-----------------------------------------------------------------------------
(***************************************************************************)
(* The feedback engine (internal/feedback): learns from the first          *)
(* completed quality report of each recommendation, in totals overall and  *)
(* per strategy, symbol, timeframe and bucket of confidence, and over      *)
(* rolling windows of the last reports. Averages are left out: the totals  *)
(* count outcomes.                                                         *)
(***************************************************************************)
CONSTANTS
  BucketBounds,  \* Config.ConfidenceBuckets: ascending thresholds, in percent
  Windows        \* Config.RollingWindows: sizes

ASSUME BucketsAscend == /\ BucketBounds \in Seq(Nat) /\ BucketBounds # <<>>
                        /\ \A i \in 1 .. Len(BucketBounds) - 1 :
                             BucketBounds[i] < BucketBounds[i + 1]

VARIABLES
  learnedIds,   \* Cache.seen
  totals,       \* Aggregator: <<dimension, value>> -> runningTotals
  learned       \* Aggregator.rollingHistory

feedbackVars == <<learnedIds, totals, learned>>

FeedbackInit == learnedIds = {} /\ totals = <<>> /\ learned = <<>>

Outcomes == {"SUCCESS", "FAILED", "NEUTRAL", "EXPIRED"}

(* runningTotals: count and, by outcome, successes, failures, ...; a false *)
(* positive is a buy that failed, a false negative a non-buy that paid.    *)
NoTotals == [count |-> 0, outcome |-> [o \in Outcomes |-> 0],
             falsePositives |-> 0, falseNegatives |-> 0]
One(b) == IF b THEN 1 ELSE 0
Buys == {"STRONG_BUY", "BUY"}
AddTo(t, r) ==
  [count |-> t.count + 1, outcome |-> [t.outcome EXCEPT ![r.outcome] = @ + 1],
   falsePositives |-> t.falsePositives + One(r.outcome = "FAILED" /\ r.level \in Buys),
   falseNegatives |-> t.falseNegatives + One(r.outcome = "SUCCESS" /\ r.level \notin Buys)]

(* bucketIndex over buildBucketDefs: the highest threshold reached, 0 for  *)
(* the bucket below the first.                                             *)
BucketOf(confidence) ==
  CHOOSE i \in 0 .. Len(BucketBounds) :
    /\ i > 0 => confidence >= BucketBounds[i]
    /\ i < Len(BucketBounds) => confidence < BucketBounds[i + 1]

(* The dimensions Apply adds a report to.                                  *)
DimensionsOf(r) ==
  { <<"overall", "all">>, <<"strategy", r.key.strategy>>, <<"symbol", r.key.symbol>>,
    <<"timeframe", r.key.timeframe>>, <<"bucket", BucketOf(r.confidence)>> }

TotalsOf(d) == IF d \in DOMAIN totals THEN totals[d] ELSE NoTotals

(* IsLearnable, and Cache.Record: once per recommendation.                 *)
Learns(r) == r.completed /\ r.id \notin learnedIds

(* Engine.handle of a quality report.                                      *)
HandleReport(r) ==
  IF ~Learns(r) THEN UNCHANGED feedbackVars
  ELSE /\ learnedIds' = learnedIds \union {r.id}
       /\ totals' = [d \in DOMAIN totals \union DimensionsOf(r) |->
                      IF d \in DimensionsOf(r) THEN AddTo(TotalsOf(d), r) ELSE totals[d]]
       /\ learned' = Append(learned, r)

(* tailEntries of a window, and the totals of its reports.                 *)
Window(n) == SubSeq(learned, IF Len(learned) > n THEN Len(learned) - n + 1 ELSE 1, Len(learned))
RollingTotals(n) == FoldSeq(LAMBDA r, t : AddTo(t, r), NoTotals, Window(n))

(* Engine.publish: the snapshot, whose version counts the reports.         *)
Snapshots(r) ==
  IF Learns(r) THEN << [type |-> "feedback", version |-> Cardinality(learnedIds) + 1,
                        at |-> r.at] >>
  ELSE <<>>

(* Every dimension splits the same reports: its totals add up to those     *)
(* overall, outcome by outcome, every recommendation is counted once, and  *)
(* a window as large as the history sees what overall sees.                *)
Dimensions == {"strategy", "symbol", "timeframe", "bucket"}
SumOver(dim, F(_)) ==
  FoldSet(LAMBDA d, n : n + F(TotalsOf(d)), 0, {d \in DOMAIN totals : d[1] = dim})
FeedbackAddsUp ==
  LET all == TotalsOf(<<"overall", "all">>)
  IN /\ all.count = Cardinality(learnedIds)
     /\ \A dim \in Dimensions :
          /\ SumOver(dim, LAMBDA t : t.count) = all.count
          /\ \A o \in Outcomes : SumOver(dim, LAMBDA t : t.outcome[o]) = all.outcome[o]
     /\ \A n \in Windows : n >= Len(learned) => RollingTotals(n) = all
=============================================================================
