------------------------- MODULE MCRecommendationFlow -------------------------
(* Instances of RecommendationFlow for TLC: one or two recommendations of  *)
(* one symbol, so that they share the sequence of identifiers.             *)
EXTENDS RecommendationFlow

Series(t) == [symbol |-> "NIFTY", timeframe |-> t, strategy |-> "default"]
TwoKeys == {Series("1m"), Series("5m")}
(* A rejection's level and confidence are not read.                        *)
TurnsAndRejection == { <<"BUY", 90, "VALID">>, <<"BUY", 60, "VALID">>,
                       <<"AVOID", 60, "VALID">>, <<"AVOID", 60, "REJECTED">> }
Buckets == <<60, 80>>
Loss == 0 - 50
RollingWindows == {1, 5}
(* Each engine with those it feeds, not all of them at once: how many      *)
(* recommendations and candles for which engines.                          *)
Tracking == {"state", "intelligence", "quality", "feedback"}
Alerting == {"state", "alerts", "delivery"}
Delivering == {"state", "intelligence", "quality", "feedback", "delivery"}
Lifecycle == {"state"}
Trading == {"performance", "optimization", "scanner"}
Ranking == {"scanner", "opportunity", "recommendation", "validation"}
SomeEngines == {Tracking, Alerting, Delivering, Lifecycle, Trading, Ranking}
TwoSymbols == {Series("1m"), [Series("1m") EXCEPT !.symbol = "BANKNIFTY"]}
WatchedKeys == [c \in SomeEngines |-> IF c = Lifecycle THEN TwoKeys ELSE IF c = Trading THEN TwoSymbols ELSE {Series("1m")}]
InputBound == [c \in SomeEngines |-> IF c = Lifecycle THEN 4 ELSE IF c = Alerting THEN 3
                                 ELSE IF c \in {Trading, Ranking} THEN 0 ELSE 2]
CandleBound == [c \in SomeEngines |-> IF c = Tracking THEN 2 ELSE IF c = Delivering THEN 1 ELSE 0]
TimeBound == [c \in SomeEngines |-> IF c = Delivering THEN 0 ELSE 1]
ObservedBound == [c \in SomeEngines |-> IF c = Ranking THEN 3 ELSE 0]
TradeBound == [c \in SomeEngines |-> IF c = Trading THEN 4 ELSE 0]
GainAndLoss == {500, 0 - 200}
AllRules == {"ema", "rsi", "macd", "trend", "ranking"}
Signal(symbol, confidence) == [type |-> "signal", symbol |-> symbol, timeframe |-> "1m",
                               strategy |-> "ema_cross", side |-> "BUY", confidence |-> confidence]
SomeObservations ==
  { Signal("NIFTY", 90), Signal("NIFTY", 40), Signal("BANKNIFTY", 60),
    [type |-> "decision", symbol |-> "NIFTY", timeframe |-> "1m", strategy |-> "trend_following",
     decision |-> "LONG_ENTRY", confidence |-> 80],
    [type |-> "intent", symbol |-> "NIFTY", timeframe |-> "1m", approved |-> TRUE],
    [type |-> "montecarlo", score |-> 30] }
Weights == [signal |-> 40, strategy |-> 20, performance |-> 10, optimization |-> 10,
            walkforward |-> 10, montecarlo |-> 10]
ByName(a, b) == a = "BANKNIFTY" /\ b = "NIFTY"
==============================================================================
