--------------------------- MODULE StrategyLibrary ---------------------------
(* The thirteen research strategies of internal/strategylib.  A strategy is   *)
(* evaluated once per bar with the candle and the position the simulator      *)
(* holds; it reads its indicators at this bar and at the bar before, either   *)
(* from a store shared by every strategy of the dataset or from indicators of *)
(* its own, and some keep a memory of what they saw.  Confidence, strength,   *)
(* reasons and tags of a signal are left out: nothing reads them.             *)
EXTENDS Indicators

CONSTANTS Tolerance,             \* width of a pullback, in percent
          Threshold,             \* ADX above which there is a trend
          Oversold, Overbought,  \* RSI bounds
          Expansion              \* ATR multiple that confirms a breakout

ASSUME StrategyParameters ==
  /\ {Tolerance, Threshold, Oversold, Overbought, Expansion} \subseteq Nat
  /\ Oversold < Overbought

(* The names of catalog.AllFresh and the indicators each strategy owns. *)
Owned ==
  [ema_cross |-> {"fast", "slow"}, ema_pullback |-> {"fast", "slow"}, macd_cross |-> {"macd"},
   rsi_reversal |-> {"rsi"}, bollinger |-> {"bollinger"}, vwap_pullback |-> {"vwap", "slow"},
   supertrend |-> {"supertrend"}, opening_range |-> {"range"}, donchian |-> {"donchian"},
   adx_trend |-> {"adx"}, trend_following |-> {"fast", "slow", "adx"},
   mean_reversion |-> {"rsi", "bollinger"}, breakout |-> {"donchian", "atr"}]

(* WarmupBars of each strategy: the bars a simulation evaluates but does not *)
(* trade on.                                                                 *)
WarmupBars(s) ==
  CASE s \in {"ema_cross", "ema_pullback", "vwap_pullback"} -> Slow + 1
    [] s = "macd_cross" -> Slow + Smoothing + 1
    [] s = "bollinger" -> Period
    [] s = "opening_range" -> 1
    [] s = "adx_trend" -> 2 * Period + 1
    [] s = "trend_following" -> Largest(Slow, 2 * Period) + 1
    [] OTHER -> Period + 1

(* What a strategy remembers besides its indicators, in one record: that a   *)
(* bound was touched (bollinger, rsi_reversal) or broken (opening_range), on *)
(* which day, and the first true range seen (breakout).                      *)
Forgotten == [low |-> FALSE, high |-> FALSE, day |-> 0, base |-> 0, based |-> FALSE]

(* New: an instance with cold indicators.  "prev" are the readings of the    *)
(* last candle it evaluated, which the code keeps in prev* fields.           *)
New(s) ==
  LET cold == [i \in Owned[s] |-> Cold(i)]
  IN  [own |-> cold, prev |-> cold, memory |-> Forgotten]

----------------------------------------------------------------------------
(* ValidCandle: OHLC data a strategy evaluates. *)
ValidCandle(c) ==
  /\ \A p \in {c.open, c.high, c.low, c.close} : p > 0
  /\ \A p \in {c.open, c.close} : c.low <= p /\ p <= c.high

(* A decision by position: the conditions to leave a long and a short one    *)
(* and, when flat, to buy and, failing that, to sell.                        *)
Decide(position, leaveLong, leaveShort, buy, sell) ==
  CASE position = "LONG" /\ leaveLong -> "EXIT"
    [] position = "SHORT" /\ leaveShort -> "EXIT"
    [] position = "FLAT" /\ buy -> "BUY"
    [] position = "FLAT" /\ ~buy /\ sell -> "SELL"
    [] OTHER -> "IGNORE"

Crossed(a0, b0, a1, b1) == a0 <= b0 /\ a1 > b1

(* The strategies without a memory: a decision from the candle and the       *)
(* readings now and before.                                                  *)
EMACross(c, now, before, position) ==
  LET warmed == before["fast"].warm /\ before["slow"].warm
      f0 == before["fast"].value  s0 == before["slow"].value
      f1 == now["fast"].value     s1 == now["slow"].value
      bullish == warmed /\ Crossed(f0, s0, f1, s1)
      bearish == warmed /\ Crossed(s0, f0, s1, f1)
  IN  Decide(position, bearish, bullish, bullish, bearish)

MACDCross(c, now, before, position) ==
  LET m0 == before["macd"]  m1 == now["macd"]
      bullish == m0.warm /\ Crossed(m0.line, m0.signal.value, m1.line, m1.signal.value)
      bearish == m0.warm /\ Crossed(m0.signal.value, m0.line, m1.signal.value, m1.line)
  IN  Decide(position, bearish, bullish, bullish, bearish)

EMAPullback(c, now, before, position) ==
  LET fast == now["fast"].value  slow == now["slow"].value  was == before["slow"].value
      up == slow > was /\ c.close > slow
      down == slow < was /\ c.close < slow
  IN  Decide(position, c.close < slow, c.close > slow,
             up /\ 100 * c.low <= (100 + Tolerance) * fast /\ c.close > fast,
             down /\ 100 * c.high >= (100 - Tolerance) * fast /\ c.close < fast)

VWAPPullback(c, now, before, position) ==
  LET vwap == now["vwap"].value  trend == now["slow"].value
      over == (100 + Tolerance) * vwap  under == (100 - Tolerance) * vwap
  IN  Decide(position, 100 * c.close < under, 100 * c.close > over,
             c.close > trend /\ 100 * c.low <= over /\ c.close > vwap,
             c.close < trend /\ 100 * c.high >= under /\ c.close < vwap)

SuperTrendFlip(c, now, before, position) ==
  LET d0 == before["supertrend"].direction  d1 == now["supertrend"].direction
      known == before["supertrend"].warm
      up == known /\ d0 < 0 /\ d1 > 0
      down == known /\ d0 > 0 /\ d1 < 0
  IN  Decide(position, down, up, up, down)

DonchianBreak(c, now, before, position) ==
  LET d == before["donchian"]
      over == d.warm /\ c.close > d.upper
      under == d.warm /\ c.close < d.lower
  IN  Decide(position, under, over, over, under)

(* Below the threshold the strategy has already returned: "ADX trend         *)
(* weakened" is never reached and a position is held through a weak trend.   *)
ADXTrend(c, now, before, position) ==
  LET a == now["adx"]
      strong == a.value >= Threshold
      bullish == strong /\ a.plus > a.minus
      bearish == strong /\ a.minus > a.plus
  IN  Decide(position, bearish, bullish, bullish, bearish)

TrendFollowing(c, now, before, position) ==
  LET a == now["adx"]
      bullish == now["fast"].value > now["slow"].value /\ a.value >= Threshold /\ a.plus > a.minus
      bearish == now["fast"].value < now["slow"].value /\ a.value >= Threshold /\ a.minus > a.plus
  IN  Decide(position, ~bullish, ~bearish, bullish, bearish)

MeanReversion(c, now, before, position) ==
  LET r == now["rsi"].value  b == now["bollinger"]
      oversold == r <= Oversold /\ AtLower(c.close, b)
      overbought == r >= Overbought /\ AtUpper(c.close, b)
      normal == /\ Oversold < r /\ r < Overbought
                /\ ~AtLower(c.close, b) /\ ~AtUpper(c.close, b)
  IN  Decide(position, overbought \/ normal, oversold \/ normal, oversold, overbought)

----------------------------------------------------------------------------
(* The strategies with a memory: the decision and what is remembered.        *)
Answer(decision, memory) == [decision |-> decision, memory |-> memory]

(* bollinger and rsi_reversal arm a flag at a bound and disarm it by acting. *)
Disarmed(decision, position, memory) ==
  [memory EXCEPT
     !.low = @ /\ <<decision, position>> \notin {<<"BUY", "FLAT">>, <<"EXIT", "LONG">>},
     !.high = @ /\ <<decision, position>> \notin {<<"SELL", "FLAT">>, <<"EXIT", "SHORT">>}]

Armed(memory, low, high) == [memory EXCEPT !.low = @ \/ low, !.high = @ \/ high]

BollingerBounce(c, now, memory, position) ==
  LET b == now["bollinger"]
      m == Armed(memory, AtLower(c.close, b), AtUpper(c.close, b))
      decision == Decide(position, AtLeastMiddle(c.close, b), AtMostMiddle(c.close, b),
                         m.low /\ ~AtLower(c.close, b), m.high /\ ~AtUpper(c.close, b))
  IN  Answer(decision, Disarmed(decision, position, m))

RSIReversal(c, now, memory, position) ==
  LET r == now["rsi"].value
      m == Armed(memory, r <= Oversold, r >= Overbought)
      decision == Decide(position, r >= Overbought \/ (m.low /\ r >= 50),
                         r <= Oversold \/ (m.high /\ r <= 50),
                         m.low /\ r > Oversold, m.high /\ r < Overbought)
  IN  Answer(decision, Disarmed(decision, position, m))

(* Each side of the opening range is bought or sold once per session day.    *)
NewDay(c, memory) ==
  IF c.day = memory.day THEN memory ELSE [memory EXCEPT !.day = c.day, !.low = FALSE, !.high = FALSE]

OpeningRangeBreak(c, now, memory, position) ==
  LET o == now["range"]
      m == NewDay(c, memory)
      decision == IF ~o.closed THEN "IGNORE"
                  ELSE Decide(position, c.close < o.low, c.close > o.high,
                              c.close > o.high /\ ~m.high, c.close < o.low /\ ~m.low)
  IN  Answer(decision, [m EXCEPT !.high = @ \/ decision = "BUY", !.low = @ \/ decision = "SELL"])

(* The first true range the instance reads is the base for its lifetime.     *)
Breakout(c, now, before, memory, position) ==
  LET d == before["donchian"]
      m == IF memory.based THEN memory ELSE [memory EXCEPT !.base = now["atr"].value, !.based = TRUE]
      expanded == now["atr"].value >= Expansion * m.base
      decision == Decide(position, c.close < d.lower, c.close > d.upper,
                         expanded /\ c.close > d.upper, expanded /\ c.close < d.lower)
  IN  IF d.warm THEN Answer(decision, m) ELSE Answer("IGNORE", memory)

----------------------------------------------------------------------------
(* What a strategy does with a valid candle and its readings.  Until its     *)
(* indicators are warm it ignores the candle; opening_range watches the      *)
(* window instead and donchian and breakout the channel of the bar before.   *)
Warm(s, now) ==
  \A i \in Owned[s] \ {"range", "donchian"} : now[i].warm

Judge(s, c, now, before, memory, position) ==
  IF ~Warm(s, now)
  THEN Answer("IGNORE", memory)
  ELSE CASE s = "opening_range" -> OpeningRangeBreak(c, now, memory, position)
         [] s = "bollinger" -> BollingerBounce(c, now, memory, position)
         [] s = "rsi_reversal" -> RSIReversal(c, now, memory, position)
         [] s = "breakout" -> Breakout(c, now, before, memory, position)
         [] s = "ema_cross" -> Answer(EMACross(c, now, before, position), memory)
         [] s = "ema_pullback" -> Answer(EMAPullback(c, now, before, position), memory)
         [] s = "macd_cross" -> Answer(MACDCross(c, now, before, position), memory)
         [] s = "vwap_pullback" -> Answer(VWAPPullback(c, now, before, position), memory)
         [] s = "supertrend" -> Answer(SuperTrendFlip(c, now, before, position), memory)
         [] s = "donchian" -> Answer(DonchianBreak(c, now, before, position), memory)
         [] s = "adx_trend" -> Answer(ADXTrend(c, now, before, position), memory)
         [] s = "trend_following" -> Answer(TrendFollowing(c, now, before, position), memory)
         [] s = "mean_reversion" -> Answer(MeanReversion(c, now, before, position), memory)

(* Evaluate without a store: the instance's own indicators ingest the candle *)
(* and its readings become those of "the bar before".                        *)
EvaluateAlone(s, inst, c, position) ==
  LET now == [i \in Owned[s] |-> Update(i, inst.own[i], c)]
      answer == Judge(s, c, now, inst.prev, inst.memory, position)
  IN  IF ValidCandle(c)
      THEN [decision |-> answer.decision,
            inst |-> [own |-> now, prev |-> now, memory |-> answer.memory]]
      ELSE [decision |-> "IGNORE", inst |-> inst]

(* The store computes the series of an indicator over the whole dataset the  *)
(* first time it is read and never again; since the dataset does not change, *)
(* the series is a function of it.  Every candle counts, valid or not.       *)
Series(i, candles) ==
  LET after[n \in 0..Len(candles)] == IF n = 0 THEN Cold(i) ELSE Update(i, after[n - 1], candles[n])
  IN  after

(* Mutant: the store's index is off by one and shows the bar to come. *)
ReadingAhead(i, candles, bar) ==
  Series(i, candles)[IF bar = 0 THEN 0 ELSE Min({bar + 1, Len(candles)})]

Reading(i, candles, bar) == Series(i, candles)[bar]

(* Evaluate with a store: readings are those of the bar and of the bar       *)
(* before; only the memory of the instance changes.                          *)
EvaluateStored(s, inst, candles, bar, position) ==
  LET now == [i \in Owned[s] |-> Reading(i, candles, bar)]
      before == [i \in Owned[s] |-> Reading(i, candles, bar - 1)]
      answer == Judge(s, candles[bar], now, before, inst.memory, position)
  IN  IF ValidCandle(candles[bar])
      THEN [decision |-> answer.decision, inst |-> [inst EXCEPT !.memory = answer.memory]]
      ELSE [decision |-> "IGNORE", inst |-> inst]
=============================================================================
