--------------------------- MODULE MCTradePipeline ---------------------------
(* Instances of TradePipeline for TLC. A buffer of 1 makes the bus drop; a *)
(* buffer that holds every event rules drops out.                          *)
EXTENDS TradePipeline, TLC

BuySell == {"BUY", "SELL"}
AllSides == {"BUY", "SELL", "EXIT_LONG", "EXIT_SHORT"}
TrendOnly == {"trend_following"}
All == {"trend_following", "mean_reversion", "breakout"}
BothConfidences == {TRUE, FALSE}
Confident == {TRUE}

TrendRules == {"ema_cross", "macd_cross"}
AllRules == TrendRules \union {"rsi", "bollinger"}
Signals(sides, confidences) == [side : sides, confident : confidences]

(* A trend that turns and exits, against a mean reversion that sells.      *)
ContestedArrivals ==
  {"ema_cross"} \X Signals({"BUY", "SELL", "EXIT_LONG"}, {TRUE})
    \union {"macd_cross"} \X Signals(BuySell, {TRUE})
    \union {"rsi", "bollinger"} \X Signals({"SELL"}, {TRUE})
(* What the signal engine emits, for the rules of one strategy.            *)
TrendArrivals == TrendRules \X Signals(BuySell, {TRUE})

Symm == Permutations(Timeframes)
==============================================================================
