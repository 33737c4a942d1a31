----------------------------- MODULE Indicators -----------------------------
(* The incremental indicators of internal/analytics/indicator/indicators that *)
(* the strategy library reads.  An indicator is a record that an Update       *)
(* operator advances by one candle; the record is also the result of the      *)
(* update: "warm" is the result's WarmedUp and the other fields are its       *)
(* values.  Prices are fixed-point numbers, Scale to the unit; a quotient is  *)
(* rounded down to that grid where the code rounds to a float64.              *)
EXTENDS Integers, Sequences, SequencesExt, FiniteSetsExt

CONSTANTS Fast, Slow,       \* EMA periods
          Smoothing,        \* EMA period of the MACD's signal line
          Period,           \* lookback of the other windows
          Deviations,       \* Bollinger band width, in standard deviations
          Multiplier,       \* SuperTrend band width, in true ranges
          Window            \* minutes of the opening range

ASSUME IndicatorParameters ==
  /\ {Fast, Slow, Smoothing, Period, Window} \subseteq Nat \ {0}
  /\ {Deviations, Multiplier} \subseteq Nat

Largest(a, b) == Max({a, b})
Distance(a, b) == IF a >= b THEN a - b ELSE b - a

----------------------------------------------------------------------------
(* EMA: the average of the first period closes, then exponentially weighted. *)
ColdEMA == [count |-> 0, sum |-> 0, value |-> 0, warm |-> FALSE]

UpdateEMA(e, period, close) ==
  LET n == e.count + 1
      sum == e.sum + close
  IN  CASE e.warm ->
             [e EXCEPT !.count = n, !.value = (2 * close + (period - 1) * @) \div (period + 1)]
        [] ~e.warm /\ n < period -> [e EXCEPT !.count = n, !.sum = sum]
        [] OTHER -> [count |-> n, sum |-> sum, value |-> sum \div period, warm |-> TRUE]

(* MACD: fast minus slow EMA, and the EMA of that line once slow is warm. *)
ColdMACD == [fast |-> ColdEMA, slow |-> ColdEMA, signal |-> ColdEMA, line |-> 0, warm |-> FALSE]

UpdateMACD(m, close) ==
  LET fast == UpdateEMA(m.fast, Fast, close)
      slow == UpdateEMA(m.slow, Slow, close)
      line == IF slow.warm THEN fast.value - slow.value ELSE m.line
      signal == IF slow.warm THEN UpdateEMA(m.signal, Smoothing, line) ELSE m.signal
  IN  [fast |-> fast, slow |-> slow, signal |-> signal, line |-> line, warm |-> signal.warm]

----------------------------------------------------------------------------
(* Wilder's average of the first period samples and of one more. *)
Averaged(average, sample) == (average * (Period - 1) + sample) \div Period

(* The true range of a candle against the close before it. *)
TrueRange(prev, c) ==
  Largest(c.high - c.low, Largest(Distance(c.high, prev), Distance(c.low, prev)))

ColdATR == [count |-> 0, prev |-> 0, sum |-> 0, value |-> 0, warm |-> FALSE]

UpdateATR(a, c) ==
  LET n == a.count + 1
      range == IF a.count = 0 THEN c.high - c.low ELSE TrueRange(a.prev, c)
      sum == IF a.warm THEN a.sum ELSE a.sum + range
  IN  [count |-> n, prev |-> c.close, sum |-> sum, warm |-> n >= Period,
       value |-> CASE a.warm -> Averaged(a.value, range)
                   [] ~a.warm /\ n >= Period -> sum \div Period
                   [] OTHER -> 0]

(* RSI: 50 when nothing moved, 100 without a loss, else the share of gains. *)
Strength(gain, loss) ==
  CASE gain + loss = 0 -> 50
    [] gain + loss > 0 /\ loss = 0 -> 100
    [] OTHER -> (100 * gain) \div (gain + loss)

ColdRSI == [count |-> 0, prev |-> 0, gain |-> 0, loss |-> 0, value |-> 0, warm |-> FALSE]

(* gain and loss are sums over the first Period changes and averages after. *)
UpdateRSI(r, close) ==
  LET n == r.count + 1
      up == IF n > 1 THEN Largest(close - r.prev, 0) ELSE 0
      down == IF n > 1 THEN Largest(r.prev - close, 0) ELSE 0
      seeded == n - 1 = Period
      gain == CASE r.warm -> Averaged(r.gain, up)
                [] ~r.warm /\ seeded -> (r.gain + up) \div Period
                [] OTHER -> r.gain + up
      loss == CASE r.warm -> Averaged(r.loss, down)
                [] ~r.warm /\ seeded -> (r.loss + down) \div Period
                [] OTHER -> r.loss + down
      warm == r.warm \/ seeded
  IN  [count |-> n, prev |-> close, gain |-> gain, loss |-> loss, warm |-> warm,
       value |-> IF warm THEN Strength(gain, loss) ELSE 0]

----------------------------------------------------------------------------
(* ADX: directional movement and true range, smoothed; "seeded" is the       *)
(* internal warmed flag, which a flat market's early returns do not report.  *)
ColdADX == [count |-> 0, high |-> 0, low |-> 0, close |-> 0, range |-> 0, plus |-> 0, minus |-> 0,
            sumRange |-> 0, sumPlus |-> 0, sumMinus |-> 0, dx |-> 0, samples |-> 0,
            value |-> 0, seeded |-> FALSE, warm |-> FALSE]

Smoothed(total, sample) == total - total \div Period + sample

(* The movements are summed until "seeded"; from bar Period + 1 they are     *)
(* smoothed as well, starting from the sums.                                 *)
SmoothADX(a, c) ==
  LET rise == c.high - a.high
      drop == a.low - c.low
      plus == IF rise > drop /\ rise > 0 THEN rise ELSE 0
      minus == IF drop > rise /\ drop > 0 THEN drop ELSE 0
      range == TrueRange(a.close, c)
      summed == [a EXCEPT !.count = @ + 1, !.high = c.high, !.low = c.low, !.close = c.close,
                          !.sumRange = IF a.seeded THEN @ ELSE @ + range,
                          !.sumPlus = IF a.seeded THEN @ ELSE @ + plus,
                          !.sumMinus = IF a.seeded THEN @ ELSE @ + minus]
  IN  CASE ~a.seeded /\ a.count < Period -> summed
        [] ~a.seeded /\ a.count >= Period /\ a.range = 0 ->
             [summed EXCEPT !.range = summed.sumRange, !.plus = summed.sumPlus, !.minus = summed.sumMinus]
        [] OTHER ->
             [summed EXCEPT !.range = Smoothed(@, range), !.plus = Smoothed(@, plus),
                            !.minus = Smoothed(@, minus)]

UpdateADX(a, c) ==
  LET s == SmoothADX(a, c)
      dx == (100 * Distance(s.plus, s.minus)) \div (s.plus + s.minus)
      samples == s.samples + 1
      total == s.dx + dx
  IN  CASE a.count = 0 ->
             [a EXCEPT !.count = 1, !.high = c.high, !.low = c.low, !.close = c.close]
        [] a.count > 0 /\ (a.count < Period \/ s.range = 0 \/ s.plus + s.minus = 0) ->
             [s EXCEPT !.warm = FALSE]
        [] a.count >= Period /\ s.range > 0 /\ s.plus + s.minus > 0 /\ s.seeded ->
             [s EXCEPT !.value = Averaged(@, dx), !.warm = TRUE]
        [] OTHER ->
             [s EXCEPT !.dx = total, !.samples = samples, !.seeded = samples >= Period,
                       !.warm = samples >= Period,
                       !.value = IF samples >= Period THEN total \div Period ELSE @]

----------------------------------------------------------------------------
(* The ring buffers: the last Period values, oldest first. *)
Pushed(buffer, x) ==
  IF Len(buffer) < Period THEN Append(buffer, x) ELSE Append(Tail(buffer), x)

ColdDonchian == [bars |-> <<>>, upper |-> 0, lower |-> 0, warm |-> FALSE]

UpdateDonchian(d, c) ==
  LET bars == Pushed(d.bars, [high |-> c.high, low |-> c.low])
  IN  IF Len(bars) < Period
      THEN [d EXCEPT !.bars = bars]
      ELSE [bars |-> bars, warm |-> TRUE,
            upper |-> Max({b.high : b \in ToSet(bars)}), lower |-> Min({b.low : b \in ToSet(bars)})]

(* Bollinger bands are kept as the window's sum and sum of squares. *)
ColdBollinger == [closes |-> <<>>, sum |-> 0, squares |-> 0, warm |-> FALSE]

UpdateBollinger(b, close) ==
  LET closes == Pushed(b.closes, close)
  IN  [closes |-> closes, warm |-> Len(closes) = Period,
       sum |-> FoldSeq(+, 0, closes),
       squares |-> FoldSeq(LAMBDA x, y : x * x + y, 0, closes)]

(* Whether a close is at or below mean - Deviations * sigma: both sides of   *)
(* the comparison times Period, squared.  AtUpper is its mirror image.       *)
BandWidth(b) == Deviations * Deviations * (Period * b.squares - b.sum * b.sum)
AtLower(close, b) ==
  LET below == b.sum - Period * close IN below >= 0 /\ below * below >= BandWidth(b)
AtUpper(close, b) ==
  LET above == Period * close - b.sum IN above >= 0 /\ above * above >= BandWidth(b)
AtLeastMiddle(close, b) == Period * close >= b.sum
AtMostMiddle(close, b) == Period * close <= b.sum

----------------------------------------------------------------------------
(* SuperTrend: ATR bands around the middle of the candle that only tighten   *)
(* until the close crosses them; the line is the upper band in a down-trend. *)
ColdSuperTrend == [atr |-> ColdATR, prev |-> 0, upper |-> 0, lower |-> 0, value |-> 0,
                   direction |-> 0, warm |-> FALSE]

UpdateSuperTrend(s, c) ==
  LET atr == UpdateATR(s.atr, c)
      middle == (c.high + c.low) \div 2
      above == middle + Multiplier * atr.value
      below == middle - Multiplier * atr.value
      first == s.atr.count = 0
      upper == IF first \/ above < s.upper \/ s.prev > s.upper THEN above ELSE s.upper
      lower == IF first \/ below > s.lower \/ s.prev < s.lower THEN below ELSE s.lower
      bullish == CASE s.warm /\ s.value # s.upper -> c.close >= lower
                   [] OTHER -> c.close > upper
  IN  IF ~atr.warm
      THEN [s EXCEPT !.atr = atr, !.prev = c.close]
      ELSE [atr |-> atr, prev |-> c.close, upper |-> upper, lower |-> lower, warm |-> TRUE,
            value |-> IF bullish THEN lower ELSE upper,
            direction |-> IF bullish THEN 1 ELSE -1]

(* The opening range of a session: the extremes of its first Window minutes, *)
(* starting from those of the first candle of the day, whenever that is.     *)
ColdRange == [day |-> 0, high |-> 0, low |-> 0, closed |-> FALSE, warm |-> FALSE]

UpdateRange(o, c) ==
  LET today == IF c.day = o.day THEN o
               ELSE [day |-> c.day, high |-> c.high, low |-> c.low, closed |-> FALSE, warm |-> FALSE]
      within == c.minute < Window
  IN  CASE within /\ ~today.closed ->
             [today EXCEPT !.high = Largest(@, c.high), !.low = Min({@, c.low}), !.warm = TRUE]
        [] ~within /\ ~today.closed -> [today EXCEPT !.closed = TRUE]
        [] OTHER -> today

(* Session VWAP: candles without volume neither count nor start a session. *)
ColdVWAP == [day |-> 0, traded |-> 0, volume |-> 0, value |-> 0, warm |-> FALSE]

UpdateVWAP(v, c) ==
  LET typical == (c.high + c.low + c.close) \div 3
      traded == (IF c.day = v.day THEN v.traded ELSE 0) + typical * c.volume
      volume == (IF c.day = v.day THEN v.volume ELSE 0) + c.volume
  IN  IF c.volume <= 0
      THEN v
      ELSE [day |-> c.day, traded |-> traded, volume |-> volume,
            value |-> traded \div volume, warm |-> TRUE]

----------------------------------------------------------------------------
Cold(name) ==
  CASE name \in {"fast", "slow"} -> ColdEMA
    [] name = "macd" -> ColdMACD
    [] name = "rsi" -> ColdRSI
    [] name = "atr" -> ColdATR
    [] name = "adx" -> ColdADX
    [] name = "donchian" -> ColdDonchian
    [] name = "bollinger" -> ColdBollinger
    [] name = "supertrend" -> ColdSuperTrend
    [] name = "range" -> ColdRange
    [] name = "vwap" -> ColdVWAP

Update(name, i, c) ==
  CASE name = "fast" -> UpdateEMA(i, Fast, c.close)
    [] name = "slow" -> UpdateEMA(i, Slow, c.close)
    [] name = "macd" -> UpdateMACD(i, c.close)
    [] name = "rsi" -> UpdateRSI(i, c.close)
    [] name = "atr" -> UpdateATR(i, c)
    [] name = "adx" -> UpdateADX(i, c)
    [] name = "donchian" -> UpdateDonchian(i, c)
    [] name = "bollinger" -> UpdateBollinger(i, c.close)
    [] name = "supertrend" -> UpdateSuperTrend(i, c)
    [] name = "range" -> UpdateRange(i, c)
    [] name = "vwap" -> UpdateVWAP(i, c)
=============================================================================
