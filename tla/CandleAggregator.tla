--------------------------- MODULE CandleAggregator ---------------------------
(***************************************************************************)
(* The candle aggregator of src/internal/analytics/candle: one bar in      *)
(* progress per symbol and timeframe, closed when a tick of a later bucket *)
(* arrives, when the series has been idle for too long, or by Flush.       *)
(*                                                                         *)
(* Times are natural numbers, a timeframe is the width of its buckets, and *)
(* ZoneOffset is what the configured timezone is ahead of UTC. A history   *)
(* keeps the bars that were closed.                                        *)
(***************************************************************************)
EXTENDS Integers, Sequences, FiniteSets, Functions

CONSTANTS
  Symbols,      \* symbols ticks arrive for
  Timeframes,   \* configured bucket widths
  Day,          \* the width that is aligned to local midnight
  ZoneOffset,   \* offset of the configured timezone
  OrderPolicy,  \* "reject_older" or "reject_stale"
  VolumeMode,   \* "cumulative" or "incremental"
  IdleEvict,    \* AggregatorOptions.IdleEvict, 0 to keep idle bars
  Horizon,      \* bound: times of ticks
  Prices,       \* last traded prices
  Volumes,      \* Tick.Volume
  MaxTicks      \* bound: ticks ingested

ASSUME WidthsPositive == Timeframes \subseteq Nat \ {0} /\ Day \in Nat \ {0}
ASSUME ZoneNat == ZoneOffset \in Nat
ASSUME Policies == /\ OrderPolicy \in {"reject_older", "reject_stale"}
                   /\ VolumeMode \in {"cumulative", "incremental"}
ASSUME EvictNat == IdleEvict \in Nat
ASSUME TickValues == Prices \subseteq Nat \ {0} /\ Volumes \subseteq Nat
ASSUME TickBounds == Horizon \in Nat /\ MaxTicks \in Nat

VARIABLES
  bar,         \* bars, and lastActivity of their series
  lastClosed,  \* open time of the last bar closed, Never when absent
  emitted,     \* history: the bars closed, oldest first
  accepted,    \* history: ticks applied to some bar of the series
  latest,      \* history: time and volume of the symbol's latest tick, and
               \* whether its ticks came in order with a growing volume
  flushed,     \* the engine has flushed: Close runs it last, and once
  ticks        \* bound: ticks ingested

vars == <<bar, lastClosed, emitted, accepted, latest, flushed, ticks>>

Series == Symbols \X Timeframes
Width(k) == k[2]
Never == -Day
NoBar == [count |-> 0]
Tick == [symbol : Symbols, at : 0 .. Horizon, price : Prices, volume : Volumes]

-----------------------------------------------------------------------------
(* BucketStart: only daily bars are aligned in the configured timezone.    *)
BucketStart(t, w) ==
  IF w = Day THEN ((t + ZoneOffset) \div w) * w - ZoneOffset
             ELSE (t \div w) * w

WeightIgnoringReset(v, last) ==
  IF VolumeMode = "incremental" \/ last = 0 THEN v ELSE v - last

(* tickWeight: what a tick adds to the volume of its bar. A bar that has   *)
(* seen no positive volume has last = 0.                                   *)
Weight(v, last) ==
  CASE VolumeMode = "incremental" -> v
    [] v = last                   -> 0
    [] v > last                   -> v - last
    [] OTHER                      -> v

LastVolume(v, last) == IF VolumeMode = "incremental" \/ v = 0 THEN last ELSE v

NewBar(t, w) ==
  [open |-> BucketStart(t, w), at |-> t, count |-> 0, first |-> 0, high |-> 0,
   low |-> 0, close |-> 0, volume |-> 0, lastVolume |-> 0, numer |-> 0]

(* barBuilder.addTick; VWAP is numer over volume.                          *)
AddTick(b, k) ==
  LET weight == Weight(k.volume, b.lastVolume)
  IN [b EXCEPT !.at = k.at, !.count = @ + 1,
        !.first = IF b.count = 0 THEN k.price ELSE @,
        !.high = IF b.count = 0 \/ k.price > @ THEN k.price ELSE @,
        !.low = IF b.count = 0 \/ k.price < @ THEN k.price ELSE @,
        !.close = k.price,
        !.volume = @ + weight,
        !.lastVolume = LastVolume(k.volume, @),
        !.numer = @ + k.price * weight]

-----------------------------------------------------------------------------
(* evictIdleLocked, run for all series of the tick's symbol.               *)
Idle(b, t) == IdleEvict > 0 /\ b # NoBar /\ t - b.at > IdleEvict

AfterEvict(b, t) == IF Idle(b, t) THEN NoBar ELSE b

ClosedByEvictNothing(b, t) == <<>>

ClosedByEvict(b, t) == IF Idle(b, t) THEN <<b>> ELSE <<>>
LastAfterEvict(b, t, last) == IF Idle(b, t) THEN b.open ELSE last

(* A tick is dropped when its bucket is older than the bar in progress, or *)
(* under reject_stale not newer than the last bar closed.                  *)
Rejects(b, open, last) ==
  \/ b # NoBar /\ open < b.open
  \/ OrderPolicy = "reject_stale" /\ last # Never /\ open <= last

(* A tick of a later bucket closes the bar in progress - but the case for  *)
(* reject_stale comes first in the switch of Update and never gets there.  *)
Rolls(b, open) ==
  OrderPolicy = "reject_older" /\ b # NoBar /\ open > b.open

(* What Update does to one series of the tick's symbol: the bar, the last  *)
(* bucket closed, the bars closed, and whether the tick was applied.       *)
Step(b0, last0, w, k) ==
  LET b == AfterEvict(b0, k.at)
      last == LastAfterEvict(b0, k.at, last0)
      open == BucketStart(k.at, w)
      rejects == Rejects(b, open, last)
      rolls == ~rejects /\ Rolls(b, open)
  IN [bar |-> IF rejects THEN b
              ELSE AddTick(IF b = NoBar \/ rolls THEN NewBar(k.at, w) ELSE b, k),
      last |-> IF rolls THEN b.open ELSE last,
      closed |-> ClosedByEvict(b0, k.at) \o (IF rolls THEN <<b>> ELSE <<>>),
      applied |-> IF rejects THEN 0 ELSE 1]

(* Aggregator.Update, over every timeframe of the tick's symbol.           *)
Update(k) ==
  LET mine == {s \in Series : s[1] = k.symbol}
      step == [s \in mine |-> Step(bar[s], lastClosed[s], Width(s), k)]
      old == latest[k.symbol]
  IN /\ ~flushed
     /\ ticks < MaxTicks
     /\ ticks' = ticks + 1
     /\ bar' = [s \in Series |-> IF s \in mine THEN step[s].bar ELSE bar[s]]
     /\ lastClosed' = [s \in Series |->
                        IF s \in mine THEN step[s].last ELSE lastClosed[s]]
     /\ emitted' = [s \in Series |->
                     IF s \in mine THEN emitted[s] \o step[s].closed ELSE emitted[s]]
     /\ accepted' = [s \in Series |->
                      IF s \in mine THEN accepted[s] + step[s].applied ELSE accepted[s]]
     /\ latest' = [latest EXCEPT ![k.symbol] =
                    [at |-> k.at, volume |-> k.volume,
                     inOrder |-> /\ old.inOrder
                                 /\ old.at <= k.at /\ old.volume <= k.volume]]
     /\ UNCHANGED flushed

(* Aggregator.Flush closes every bar and forgets everything. The engine    *)
(* calls it in Close, after its consumer has ended.                        *)
Flush ==
  /\ ~flushed
  /\ flushed' = TRUE
  /\ emitted' = [s \in Series |->
                  IF bar[s] = NoBar THEN emitted[s] ELSE Append(emitted[s], bar[s])]
  /\ bar' = [s \in Series |-> NoBar]
  /\ lastClosed' = [s \in Series |-> Never]
  /\ UNCHANGED <<accepted, latest, ticks>>

Init ==
  /\ bar = [s \in Series |-> NoBar]
  /\ lastClosed = [s \in Series |-> Never]
  /\ emitted = [s \in Series |-> <<>>]
  /\ accepted = [s \in Series |-> 0]
  /\ latest = [y \in Symbols |-> [at |-> 0, volume |-> 0, inOrder |-> TRUE]]
  /\ flushed = FALSE
  /\ ticks = 0

Next == (\E k \in Tick : Update(k)) \/ Flush

Spec == Init /\ [][Next]_vars

-----------------------------------------------------------------------------
Bar == [open : Int, at : Nat, count : Nat \ {0}, first : Prices, high : Prices,
        low : Prices, close : Prices, volume : Nat, lastVolume : Nat, numer : Nat]

TypeOK ==
  /\ bar \in [Series -> Bar \union {NoBar}]
  /\ lastClosed \in [Series -> Int]
  /\ emitted \in [Series -> Seq(Bar)]
  /\ accepted \in [Series -> Nat]
  /\ flushed \in BOOLEAN
  /\ ticks \in 0 .. MaxTicks

Bars(s) == IF bar[s] = NoBar THEN emitted[s] ELSE Append(emitted[s], bar[s])

(* A price summary is consistent: open, close and the volume-weighted mean *)
(* lie between low and high, whatever mix of zero, repeated, growing and   *)
(* shrinking volumes the ticks carried.                                    *)
BarConsistent ==
  \A s \in Series : \A i \in 1 .. Len(Bars(s)) :
    LET b == Bars(s)[i]
    IN /\ b.low <= b.first /\ b.first <= b.high
       /\ b.low <= b.close /\ b.close <= b.high
       /\ b.low * b.volume <= b.numer /\ b.numer <= b.high * b.volume

(* Every accepted tick is counted in exactly one bar of the series: in one *)
(* that was closed, or in the one in progress. Nothing is lost when a bar  *)
(* rolls, is evicted or flushed.                                           *)
TicksInBars ==
  \A s \in Series :
    accepted[s] = SumFunctionOnSet([i \in DOMAIN Bars(s) |-> Bars(s)[i].count],
                                   DOMAIN Bars(s))

(* The bars of a series are closed in the order of their buckets and no    *)
(* bucket is closed twice: downstream, every CandleClosed is a new candle. *)
OncePerBucket ==
  \A s \in Series : \A i, j \in 1 .. Len(Bars(s)) :
    i < j => Bars(s)[i].open < Bars(s)[j].open

(* BucketStart "returns the inclusive open time of the bar containing ts": *)
(* the last tick applied to a bar lies in the bar's bucket.                *)
TicksInTheirBucket ==
  \A s \in Series : \A i \in 1 .. Len(Bars(s)) :
    LET b == Bars(s)[i] IN b.open <= b.at /\ b.at < b.open + Width(s)

(* "Tick.Volume is the running total for the session. Each tick            *)
(* contributes max(0, current_volume - last_volume) to the bar": the bars  *)
(* of a session add up to the session volume.                              *)
SessionVolume ==
  \A s \in Series :
    latest[s[1]].inOrder =>
      SumFunctionOnSet([i \in DOMAIN Bars(s) |-> Bars(s)[i].volume], DOMAIN Bars(s))
        = latest[s[1]].volume

(* Within one bar the contributions telescope: without a session reset the *)
(* volume of the bar is the running total at its last tick.                *)
BarVolumeTelescopes ==
  VolumeMode = "cumulative" =>
    \A s \in Series :
      latest[s[1]].inOrder /\ bar[s] # NoBar => bar[s].volume = bar[s].lastVolume

(* However ticks are ordered, dropped behind, evicted or flushed, each     *)
(* accepted one is in exactly one bar, that of its bucket, and downstream  *)
(* hears of each bucket once, in order.                                    *)
EachTickInItsBar ==
  /\ TypeOK
  /\ TicksInBars
  /\ TicksInTheirBucket
  /\ OncePerBucket

(* What a bar says of its ticks fits together: prices frame the mean, and  *)
(* volumes telescope.                                                      *)
BarsConsistent == BarConsistent /\ BarVolumeTelescopes
===============================================================================
