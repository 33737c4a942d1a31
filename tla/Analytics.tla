------------------------------ MODULE Analytics ------------------------------
(* The analytics chain: the candle engine closes bars, the indicator engine   *)
(* advances its indicators by them, the signal engine looks for crossings and *)
(* thresholds in what they publish.  The engines run in goroutines of their   *)
(* own; between them are bus subscriptions with a buffer, which drop an event *)
(* that finds no room.  A candle is known by its number in its series.        *)
EXTENDS CandleAggregator, SequencesExt

CONSTANTS
  Markets,                      \* bounds: how ticks arrive, see TicksOf, and
                                \* the indicators configured
  Fast, Slow,                   \* periods of the two averages, and of MACD
  Smoothing,                    \* signal period of MACD
  Period, Deviations,           \* lookback of RSI and Bollinger, band width
  Oversold, Overbought,         \* RSI thresholds
  SubscriberBuffer              \* capacity of each engine's subscription

ASSUME CrossingPeriods == {Fast, Slow} \subseteq Nat \ {0} /\ Fast < Slow
ASSUME ThresholdOrder == Oversold < Overbought /\ Deviations >= 1
ASSUME BufferPositive == SubscriberBuffer \in Nat \ {0}

VARIABLES
  market,        \* the kind of ticks of this behaviour
  closing,       \* candles the candle engine has still to publish
  toIndicators,  \* CandleClosed events the indicator engine has not taken
  readings,      \* the indicators of every series
  publishing,    \* values the indicator engine has still to publish
  toSignals,     \* IndicatorUpdated events the signal engine has not taken
  average,       \* latest value of each average the signal engine heard
  crossed,       \* what it compared last, by series and rule
  signals,       \* the signals generated, oldest first
  lost           \* history: an event found no room

candleVars == <<bar, lastClosed, emitted, accepted, latest, flushed, ticks>>
indicatorVars == <<readings, publishing>>
signalVars == <<average, crossed, signals>>
allVars == <<candleVars, market, closing, toIndicators, indicatorVars, toSignals, signalVars, lost>>

I == INSTANCE Indicators WITH Multiplier <- 1, Window <- 1

(* The configured indicators the signal engine listens to: two averages and, *)
(* by market, some others, in the order the cache publishes them.            *)
Averages == {"fast", "slow"}
Others == SelectSeq(<<"rsi", "macd", "bollinger">>, LAMBDA i : i \in market.others)
Instances == Averages \cup market.others

Unheard == [known |-> FALSE, a |-> 0, b |-> 0]
Heard(a, b) == [known |-> TRUE, a |-> a, b |-> b]

-----------------------------------------------------------------------------
(* Ticks of a market: anything at all, or one in every bucket of the         *)
(* smallest width.                                                           *)
TicksOf(m) ==
  {k \in Tick : /\ k.at <= m.until /\ k.price \in m.prices /\ k.volume \in m.volumes
                /\ m.steady => k.at = 2 * ticks}

(* Publish: an event goes into the buffer if there is room.                  *)
Published(buffer, e) == IF Len(buffer) < SubscriberBuffer THEN Append(buffer, e) ELSE buffer

Dropped(buffer) == Len(buffer) >= SubscriberBuffer

(* The candles closed by a step of the aggregator, as events.                *)
NewlyClosed(s) ==
  [i \in 1..(Len(emitted'[s]) - Len(emitted[s])) |->
     [series |-> s, n |-> Len(emitted[s]) + i, close |-> emitted'[s][Len(emitted[s]) + i].close]]

(* Nothing on its way.  A bound: in a slow market an engine has dealt with   *)
(* an event before the next one is published.                                *)
AtRest == closing = <<>> /\ toIndicators = <<>> /\ publishing = <<>> /\ toSignals = <<>>

(* A step of the candle engine; it publishes what it closed before it takes  *)
(* another tick.                                                             *)
Closes == closing' = FlattenSeq(SetToSeq({NewlyClosed(s) : s \in Series}))

Ingest ==
  /\ closing = <<>> /\ ticks < market.ticks
  /\ market.slow => AtRest
  /\ \E k \in TicksOf(market) : Update(k)
  /\ Closes
  /\ UNCHANGED <<market, toIndicators, indicatorVars, toSignals, signalVars, lost>>

CloseEngine ==
  /\ closing = <<>>
  /\ market.slow => AtRest
  /\ Flush
  /\ Closes
  /\ UNCHANGED <<market, toIndicators, indicatorVars, toSignals, signalVars, lost>>

PublishCandle ==
  /\ closing # <<>>
  /\ market.slow => toIndicators = <<>> /\ publishing = <<>> /\ toSignals = <<>>
  /\ closing' = Tail(closing)
  /\ toIndicators' = Published(toIndicators, Head(closing))
  /\ lost' = (lost \/ Dropped(toIndicators))
  /\ UNCHANGED <<candleVars, market, indicatorVars, toSignals, signalVars>>

-----------------------------------------------------------------------------
(* A value of the indicator as the signal engine reads it.  The side of a    *)
(* Bollinger band is -1 below, 1 above; a band without width keeps the       *)
(* percent_b of the bar before, which was inside.                            *)
Side(r, close) ==
  CASE I!BandWidth(r) > 0 /\ I!AtLower(close, r)
         /\ (r.sum - Period * close) * (r.sum - Period * close) > I!BandWidth(r) -> -1
    [] I!BandWidth(r) > 0 /\ I!AtUpper(close, r)
         /\ (Period * close - r.sum) * (Period * close - r.sum) > I!BandWidth(r) -> 1
    [] OTHER -> 0

Value(c, name, r) ==
  [series |-> c.series, n |-> c.n, name |-> name,
   a |-> CASE name = "macd" -> r.line [] name = "bollinger" -> Side(r, c.close) [] OTHER -> r.value,
   b |-> IF name = "macd" THEN r.signal.value ELSE 0]

(* Apply of the configured instances: each reads the close of the candle.    *)
Advanced(name, r, close) ==
  CASE name = "fast" -> I!UpdateEMA(r, Fast, close)
    [] name = "slow" -> I!UpdateEMA(r, Slow, close)
    [] name = "macd" -> I!UpdateMACD(r, close)
    [] name = "rsi" -> I!UpdateRSI(r, close)
    [] name = "bollinger" -> I!UpdateBollinger(r, close)

(* handle: every indicator of the series is advanced; the warm ones are      *)
(* published, the averages in any order.                                     *)
TakeCandle ==
  /\ toIndicators # <<>> /\ publishing = <<>>
  /\ toIndicators' = Tail(toIndicators)
  /\ LET c == Head(toIndicators)
         now == [i \in Instances |-> Advanced(i, readings[c.series][i], c.close)]
         warm == {i \in Instances : now[i].warm}
     IN  \E emas \in SetToSeqs(Averages \cap warm) :
           LET names == emas \o SelectSeq(Others, LAMBDA i : i \in warm)
           IN  /\ readings' = [readings EXCEPT ![c.series] = now]
               /\ publishing' = [i \in DOMAIN names |-> Value(c, names[i], now[names[i]])]
  /\ UNCHANGED <<candleVars, market, closing, toSignals, signalVars, lost>>

PublishValue ==
  /\ publishing # <<>>
  /\ market.slow => toSignals = <<>>
  /\ publishing' = Tail(publishing)
  /\ toSignals' = Published(toSignals, Head(publishing))
  /\ lost' = (lost \/ Dropped(toSignals))
  /\ UNCHANGED <<candleVars, market, closing, toIndicators, readings, signalVars>>

-----------------------------------------------------------------------------
(* The rule both crossings share: what was compared last against what is     *)
(* compared now.                                                             *)
Crossing(old, new) ==
  CASE old.known /\ old.a <= old.b /\ new.a > new.b -> "BUY"
    [] old.known /\ old.a >= old.b /\ new.a < new.b -> "SELL"
    [] OTHER -> "none"

Signal(rule, side, v) ==
  IF side = "none" THEN <<>> ELSE <<[rule |-> rule, side |-> side, series |-> v.series, n |-> v.n]>>

(* Mutant: crossings are looked for when the slow average arrives. *)
EvalEMACrossOnSlow(v) ==
  LET heard == [average EXCEPT ![v.series][v.name] = Heard(v.a, 0)]
      pair == Heard(heard[v.series]["fast"].a, heard[v.series]["slow"].a)
      both == \A name \in Averages : heard[v.series][name].known
  IN  /\ average' = heard
      /\ crossed' = IF both THEN [crossed EXCEPT ![v.series]["ema_cross"] = pair] ELSE crossed
      /\ signals' = signals \o
           (IF both /\ v.name = "slow"
            THEN Signal("ema_cross", Crossing(crossed[v.series]["ema_cross"], pair), v) ELSE <<>>)

(* evalEMACross: each value of an average is compared, at once, with the     *)
(* latest value of the other one.                                            *)
EvalEMACross(v) ==
  LET heard == [average EXCEPT ![v.series][v.name] = Heard(v.a, 0)]
      pair == Heard(heard[v.series]["fast"].a, heard[v.series]["slow"].a)
      both == \A name \in Averages : heard[v.series][name].known
  IN  /\ average' = heard
      /\ crossed' = IF both THEN [crossed EXCEPT ![v.series]["ema_cross"] = pair] ELSE crossed
      /\ signals' = signals \o
           (IF both THEN Signal("ema_cross", Crossing(crossed[v.series]["ema_cross"], pair), v) ELSE <<>>)

EvalMACDCross(v) ==
  LET pair == Heard(v.a, v.b)
  IN  /\ crossed' = [crossed EXCEPT ![v.series]["macd_cross"] = pair]
      /\ signals' = signals \o Signal("macd_cross", Crossing(crossed[v.series]["macd_cross"], pair), v)
      /\ UNCHANGED average

EvalRSI(v) ==
  /\ signals' = signals \o
       Signal("rsi", CASE v.a < Oversold -> "BUY" [] v.a > Overbought -> "SELL" [] OTHER -> "none", v)
  /\ UNCHANGED <<average, crossed>>

EvalBollinger(v) ==
  /\ signals' = signals \o
       Signal("bollinger", CASE v.a < 0 -> "BUY" [] v.a > 0 -> "SELL" [] OTHER -> "none", v)
  /\ UNCHANGED <<average, crossed>>

(* handle of the signal engine.                                              *)
Evaluate(v) ==
  \/ v.name \in Averages /\ EvalEMACross(v)
  \/ v.name = "macd" /\ EvalMACDCross(v)
  \/ v.name = "rsi" /\ EvalRSI(v)
  \/ v.name = "bollinger" /\ EvalBollinger(v)

TakeValue ==
  /\ toSignals # <<>>
  /\ toSignals' = Tail(toSignals)
  /\ Evaluate(Head(toSignals))
  /\ UNCHANGED <<candleVars, market, closing, toIndicators, indicatorVars, lost>>

-----------------------------------------------------------------------------
AnalyticsInit ==
  /\ Init
  /\ market \in Markets
  /\ closing = <<>> /\ toIndicators = <<>> /\ publishing = <<>> /\ toSignals = <<>>
  /\ readings = [s \in Series |-> [i \in Instances |-> I!Cold(i)]]
  /\ average = [s \in Series |-> [i \in Averages |-> Unheard]]
  /\ crossed = [s \in Series |-> [r \in {"ema_cross", "macd_cross"} |-> Unheard]]
  /\ signals = <<>>
  /\ lost = FALSE

AnalyticsNext == Ingest \/ CloseEngine \/ PublishCandle \/ TakeCandle \/ PublishValue \/ TakeValue

AnalyticsSpec == AnalyticsInit /\ [][AnalyticsNext]_allVars

-----------------------------------------------------------------------------
(* Properties of the chain.                                                  *)

(* The averages after the first n candles of a series, computed from its     *)
(* bars alone.                                                               *)
AverageAt(s, name, n) ==
  LET after[i \in 0..n] ==
        IF i = 0 THEN I!Cold(name) ELSE Advanced(name, after[i - 1], emitted[s][i].close)
  IN  after[n]

(* Everything that was closed has been evaluated, and nothing was dropped.   *)
Settled == AtRest /\ ~lost

Of(rule, s, n) == SelectSeq(signals, LAMBDA g : g.rule = rule /\ g.series = s /\ g.n = n)

EMAPair(s, n) ==
  LET f == AverageAt(s, "fast", n)  w == AverageAt(s, "slow", n)
  IN  [known |-> f.warm /\ w.warm, a |-> f.value, b |-> w.value]

MACDPair(s, n) ==
  LET m == AverageAt(s, "macd", n) IN [known |-> m.warm, a |-> m.line, b |-> m.signal.value]

(* No crossing of the averages is missed: in whatever order the two values   *)
(* of a candle arrive, when the fast average has crossed the slow one on a   *)
(* candle the last EMA signal of that candle says so.  (evalEMACross.)       *)
CrossingsSignalled ==
  Settled => \A s \in Series : \A n \in 2..Len(emitted[s]) :
    LET side == Crossing(EMAPair(s, n - 1), EMAPair(s, n))
    IN  side # "none" => Of("ema_cross", s, n) # <<>> /\ Last(Of("ema_cross", s, n)).side = side

(* The MACD rule, which hears line and signal in one value, signals exactly  *)
(* the crossings.  (evalMACDCross.)                                          *)
MACDSignalsExact ==
  Settled => \A s \in Series : \A n \in 2..Len(emitted[s]) :
    LET side == Crossing(MACDPair(s, n - 1), MACDPair(s, n))
    IN  [i \in DOMAIN Of("macd_cross", s, n) |-> Of("macd_cross", s, n)[i].side]
          = IF side = "none" THEN <<>> ELSE <<side>>

(* Whatever was dropped on the way, the last crossing signalled is never     *)
(* contradicted by what the engine compared last: averages that meet and     *)
(* part on the other side are noticed.  Downstream, the scanner and the      *)
(* strategies act on the last signal they heard.                             *)
LastSignalStands ==
  \A s \in Series : \A rule \in {"ema_cross", "macd_cross"} :
    LET mine == SelectSeq(signals, LAMBDA g : g.rule = rule /\ g.series = s)
        now == crossed[s][rule]
    IN  mine # <<>> =>
          IF Last(mine).side = "BUY" THEN now.a >= now.b ELSE now.a <= now.b

(* "Fast EMA crosses above/below slow EMA" is the trigger of the rule: an    *)
(* EMA signal means that the averages have crossed between the candle before *)
(* and its own.  Since a new value of one is compared with the old value of  *)
(* the other, a fall that is heard of the slow average first looks like a    *)
(* BUY.                                                                      *)
EMASignalsExact ==
  Settled => \A i \in DOMAIN signals :
    LET g == signals[i]
    IN  g.rule = "ema_cross" /\ EMAPair(g.series, g.n - 1).known =>
          g.side = Crossing(EMAPair(g.series, g.n - 1), EMAPair(g.series, g.n))

(* A crossing is signalled when there was one, in whatever order the two   *)
(* averages arrived, and the last signal stands until there is another,    *)
(* whatever was dropped.                                                   *)
SignalsTell == CrossingsSignalled /\ MACDSignalsExact /\ LastSignalStands
=============================================================================
