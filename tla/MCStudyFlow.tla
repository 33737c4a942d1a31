----------------------------- MODULE MCStudyFlow -----------------------------
(* Instances of StudyFlow for TLC: a file of four candles of which the     *)
(* backtest selects two, out of order in the file; the second candle closes*)
(* the recommendation of the first, as a gain or as a loss.                *)
EXTENDS StudyFlow

Candle(symbol, at) == [symbol |-> symbol, at |-> at]
Candles == <<Candle("NIFTY", 2), Candle("BANKNIFTY", 2), Candle("NIFTY", 1), Candle("NIFTY", 9)>>
Of(symbol) == [symbols |-> {symbol}, from |-> 1, to |-> 5]
Backtest == Of("NIFTY")
OtherRequest == [Backtest EXCEPT !.to = 1]
Study(name, parameters) == [strategy |-> name, parameters |-> parameters] @@ Of("BANKNIFTY")
Trend == Study("trend_following", {"fast"})
Reversion == Study("mean_reversion", {})

Doc(id, symbol, at, level, status, confidence, return, outcome, class) ==
  [id |-> id, symbol |-> symbol, created |-> 1, updated |-> at, level |-> level, status |-> status,
   confidence |-> confidence, return |-> return, outcome |-> outcome, class |-> class]
Delivery(doc) == [type |-> "delivery", doc |-> doc]
Opened(s) == <<Delivery(Doc("first", s, 1, "BUY", "ACTIVE", 60, 0, "", ""))>>
Won(s) == <<Delivery(Doc("first", s, 2, "BUY", "CLOSED", 70, 4, "SUCCESS", IF s = "NIFTY" THEN "GOOD" ELSE "EXCELLENT")), [type |-> "walkforward"]>>
Lost(s) == <<Delivery(Doc("first", s, 2, "BUY", "CLOSED", 40, 0 - 3, "FAILED", "FAILED"))>>
  \o IF s = "NIFTY" THEN <<Delivery(Doc("second", s, 2, "WATCH", "ACTIVE", 30, 0, "", ""))>> ELSE <<>>
Results == [c \in {Candles[n] : n \in DOMAIN Candles} |->
              IF c.at = 1 THEN {Opened(c.symbol)} ELSE {Won(c.symbol), Lost(c.symbol)}]

Sharing == {"backtest", "callers", "cancels"}
Automatic == {"auto", "callers"}
Stopping == {"auto", "closes"}
Researching == {"laboratory"}
Ending == {"laboratory", "cancels", "closes"}
Defining == {"laboratory", "cancels"}
Contending == {"backtest", "others"}
SomeConfigurations == {Sharing, Automatic, Stopping, Researching, Ending, Defining, Contending}
Bound(begun, studied, from, by, contextsOf, compared, executed) ==
  [sessions |-> begun, studies |-> studied, requests |-> from, callers |-> by, contexts |-> contextsOf,
   comparisons |-> compared, turns |-> executed]
BoundsOf ==
  [c \in SomeConfigurations |->
     CASE c = Sharing -> Bound(2, 0, {}, {}, {}, 0, 1)
       [] c = Automatic -> Bound(2, 0, {}, {}, {}, 0, 0)
       [] c = Researching -> Bound(0, 1, {Trend}, Callers, {"caller"}, 1, 2)
       [] c = Ending -> Bound(0, 1, {Trend}, {"one"}, {"caller", "laboratory"}, 1, 1)
       [] c = Defining -> Bound(0, 3, {Trend, Reversion}, Callers, {"caller"}, 0, 0)
       [] OTHER -> Bound(0, 0, {}, {}, {}, 0, 2)]
Limits == [c \in SomeConfigurations |-> IF c = Researching THEN 1 ELSE 2]
==============================================================================
