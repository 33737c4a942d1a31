--------------------------- MODULE MCChampionship ---------------------------
(* The instance of Championship that TLC checks.                              *)
EXTENDS Championship

Units == 60

Shape(open, high, low, close, volume) ==
  [open |-> open * Units, high |-> high * Units, low |-> low * Units, close |-> close * Units,
   volume |-> volume]

Low == Shape(2, 3, 1, 2, 1)
Middle == Shape(3, 4, 3, 3, 2)
High == Shape(5, 6, 4, 6, 1)
Peak == Shape(5, 9, 4, 8, 3)
Broken == Shape(3, 2, 2, 3, 0)     \* closes above its high: not a valid candle
Quiet == Shape(3, 4, 3, 4, 0)      \* no volume

AllPasses == <<"alone", "diagnose", "compete">>

(* Any decisions at all; the strategies that trade after a few bars, on three *)
(* shapes; those with longer warm-ups, on more bars and two shapes; and some  *)
(* on data with invalid candles and candles without volume.                   *)
MCFields ==
  { [entrants |-> <<Scripted>>, shapes |-> {Low, High}, bars |-> 5, passes |-> <<"alone">>],
    [entrants |-> <<Scripted>>, shapes |-> {Low, High, Broken}, bars |-> 4, passes |-> <<"alone">>],
    [entrants |-> <<"rsi_reversal", "bollinger", "vwap_pullback", "supertrend", "opening_range",
                    "donchian", "mean_reversion", "breakout">>,
     shapes |-> {Low, Middle, Peak}, bars |-> 6, passes |-> AllPasses],
    [entrants |-> <<"ema_cross", "ema_pullback", "macd_cross", "vwap_pullback", "adx_trend",
                    "trend_following">>,
     shapes |-> {Low, Peak}, bars |-> 9, passes |-> AllPasses],
    [entrants |-> <<"vwap_pullback", "opening_range", "donchian", "supertrend">>,
     shapes |-> {High, Low, Broken, Quiet}, bars |-> 4, passes |-> AllPasses] }

MCNames == <<"adx_trend", "bollinger", "breakout", "donchian", "ema_cross", "ema_pullback",
             "macd_cross", "mean_reversion", "opening_range", "rsi_reversal", "supertrend",
             "trend_following", "vwap_pullback">>
=============================================================================
