------------------------------ MODULE Simulator ------------------------------
(* The trade simulator of internal/researchengine: one strategy's decisions   *)
(* are filled at the close of the bar they were taken on, one position at a   *)
(* time, and every closed position becomes a trade of the journal, from which *)
(* the statistics, the score and the qualification are computed.  Amounts are *)
(* fixed-point like the prices; a trade keeps the bars of its entry and exit  *)
(* for their times.                                                           *)
EXTENDS Integers, Sequences, SequencesExt, FiniteSetsExt

CONSTANTS Scale,        \* fixed-point units per unit of price
          Capital,      \* InitialCapital
          Commission,   \* per side
          TaxPercent,   \* of a profit
          Slippage      \* percent of the close, against the trader

ASSUME SimulatorParameters ==
  /\ {Scale, Capital} \subseteq Nat \ {0}
  /\ {Commission, TaxPercent, Slippage} \subseteq Nat
  /\ Slippage < 100

NetOf(trades) == FoldSeq(LAMBDA t, sum : t.net + sum, 0, trades)

(* Fill prices: slippage raises what is bought and lowers what is sold.      *)
Fill(close, bought) ==
  IF bought THEN (close * (100 + Slippage)) \div 100 ELSE (close * (100 - Slippage)) \div 100

(* A simulation that has not seen a bar: no position, an empty journal and   *)
(* the counters of SimulationMetrics.                                        *)
Started ==
  [position |-> "FLAT", entry |-> 0, since |-> 0, best |-> 0, worst |-> 0, trades |-> <<>>,
   signals |-> 0, opens |-> 0, closes |-> 0, ignored |-> 0]

(* CanOpen: what the journal has left of the capital.                        *)
CanOpen(sim) == Capital + NetOf(sim.trades) > 0

Open(sim, direction, c, bar) ==
  IF CanOpen(sim)
  THEN [sim EXCEPT !.position = direction, !.entry = Fill(c.close, direction = "LONG"),
                   !.since = bar, !.best = 0, !.worst = 0, !.opens = @ + 1]
  ELSE sim

(* The trade a position becomes when it is closed on a bar.  Slippage is in  *)
(* the fills already; a trade closed on its own bar counts as held for one.  *)
TradeOf(sim, c, bar) ==
  LET exit == Fill(c.close, sim.position = "SHORT")
      gross == IF sim.position = "LONG" THEN exit - sim.entry ELSE sim.entry - exit
      taxes == IF gross < 0 THEN 0 ELSE (gross * TaxPercent) \div 100
  IN  [direction |-> sim.position, from |-> sim.since, to |-> bar, entry |-> sim.entry, exit |-> exit,
       held |-> Max({1, bar - sim.since}), best |-> sim.best, worst |-> sim.worst,
       gross |-> gross, net |-> gross - 2 * Commission - taxes]

Close(sim, c, bar) ==
  [sim EXCEPT !.trades = Append(@, TradeOf(sim, c, bar)), !.position = "FLAT", !.closes = @ + 1]

(* The best and the worst the open position has been worth, by the extremes  *)
(* of the bars after its entry.                                              *)
Excursion(sim, c) ==
  LET above == c.high - sim.entry
      below == sim.entry - c.low
      favourable == IF sim.position = "LONG" THEN above ELSE below
      adverse == IF sim.position = "LONG" THEN below ELSE above
  IN  IF sim.position = "FLAT"
      THEN sim
      ELSE [sim EXCEPT !.best = Max({@, favourable}), !.worst = Max({@, adverse})]

(* One decision: a repeated direction and an exit without a position are     *)
(* ignored, the opposite direction closes the position and opens the other.  *)
Turn(sim, direction, c, bar) ==
  CASE sim.position = direction -> [sim EXCEPT !.ignored = @ + 1]
    [] sim.position = "FLAT" -> Open(sim, direction, c, bar)
    [] OTHER -> Open(Close(sim, c, bar), direction, c, bar)

Act(sim, decision, c, bar) ==
  LET counted == [sim EXCEPT !.signals = @ + 1]
  IN  CASE decision = "BUY" -> Turn(counted, "LONG", c, bar)
        [] decision = "SELL" -> Turn(counted, "SHORT", c, bar)
        [] decision = "EXIT" /\ sim.position = "FLAT" -> [counted EXCEPT !.ignored = @ + 1]
        [] decision = "EXIT" /\ sim.position # "FLAT" -> Close(counted, c, bar)
        [] decision = "IGNORE" -> sim

(* Mutant: trades during the warm-up. *)
OnBarEager(sim, decision, c, bar, warmup) == Act(Excursion(sim, c), decision, c, bar)

(* A bar of the loop once the decision is known, and the end of the data,    *)
(* which closes what is still open at the last candle.                       *)
OnBar(sim, decision, c, bar, warmup) ==
  IF bar <= warmup THEN sim ELSE Act(Excursion(sim, c), decision, c, bar)

EndOfData(sim, c, bar) == IF sim.position = "FLAT" THEN sim ELSE Close(sim, c, bar)

----------------------------------------------------------------------------
(* ComputeStatistics: one pass over the journal.  A trade that nets nothing  *)
(* is neither a win nor a loss and leaves both running streaks as they are.  *)
NoTrades == [total |-> 0, wins |-> 0, losses |-> 0, profit |-> 0, loss |-> 0, net |-> 0, squares |-> 0,
             peak |-> Capital, drawdown |-> 0, winning |-> 0, losing |-> 0,
             winStreak |-> 0, lossStreak |-> 0]

Counted(st, t) ==
  LET net == st.net + t.net
      equity == Capital + net
      won == t.net > 0
      lost == t.net < 0
      winning == CASE won -> st.winning + 1 [] lost -> 0 [] OTHER -> st.winning
      losing == CASE lost -> st.losing + 1 [] won -> 0 [] OTHER -> st.losing
      peak == Max({st.peak, equity})
  IN  [total |-> st.total + 1, net |-> net, squares |-> st.squares + t.net * t.net,
       wins |-> st.wins + (IF won THEN 1 ELSE 0), losses |-> st.losses + (IF lost THEN 1 ELSE 0),
       profit |-> st.profit + (IF won THEN t.net ELSE 0), loss |-> st.loss - (IF lost THEN t.net ELSE 0),
       peak |-> peak, drawdown |-> Max({st.drawdown, peak - equity}),
       winning |-> winning, losing |-> losing,
       winStreak |-> Max({st.winStreak, winning}), lossStreak |-> Max({st.lossStreak, losing})]

Statistics(trades) == FoldLeft(Counted, NoTrades, trades)

(* Ratios in percent: without a losing trade the profit factor stays zero.   *)
ProfitFactor(st) == IF st.loss > 0 THEN (100 * st.profit) \div st.loss ELSE 0
WinRate(st) == IF st.total > 0 THEN (100 * st.wins) \div st.total ELSE 0
DrawdownPercent(st) == Min({100, (100 * st.drawdown) \div Capital})

(* The Sharpe ratio in fifths, by the largest k whose square is below it;    *)
(* 15 is the cap of the score, where a ratio of 3 counts in full.            *)
Sharpe(st) ==
  LET spread == st.total * st.squares - st.net * st.net
  IN  IF st.total < 2 \/ spread <= 0 \/ st.net <= 0
      THEN 0
      ELSE Max({k \in 0..15 : k * k * spread <= 25 * st.total * st.net * st.net})

(* Qualify: from the statistics to a class.                                  *)
Qualify(st) ==
  LET pf == ProfitFactor(st)
      dd == DrawdownPercent(st)
      rejected == pf < 80 \/ dd > 30
      excellent == pf > 200 /\ WinRate(st) > 60 /\ dd < 10
      good == pf > 150 /\ dd < 15
  IN  CASE rejected -> "rejected"
        [] ~rejected /\ excellent -> "excellent"
        [] ~rejected /\ ~excellent /\ good -> "good"
        [] ~rejected /\ ~excellent /\ ~good -> IF pf > 120 THEN "average" ELSE "poor"

(* ComputeOverallScore with the default weights, in thousandths: each factor *)
(* is capped, the expectancy enters by its size whatever its sign.           *)
Capped(value) == Max({0, Min({1000, value})})

Score(st) ==
  LET size == IF st.net < 0 THEN -st.net ELSE st.net
      total == 30 * Capped(2 * ProfitFactor(st)) + 20 * Capped((1000 * Sharpe(st)) \div 15)
               + 15 * Capped(10 * WinRate(st)) + 10 * Capped((10 * size) \div (st.total * Scale))
               + 5 * Capped(st.total \div 2) - 20 * Capped(20 * DrawdownPercent(st))
  IN  IF st.total = 0 THEN 0 ELSE Capped(total \div 100)

(* Mutant: equals stay as they come. *)
AheadByScore(names, a, b) == a.score > b.score

(* BuildLeaderboard: by score, best first, and by name among equals.  Name   *)
(* order is that of the sequence "names".                                    *)
Ahead(names, a, b) ==
  \/ a.score > b.score
  \/ /\ a.score = b.score
     /\ \E i, j \in DOMAIN names : i < j /\ names[i] = a.strategy /\ names[j] = b.strategy

Leaderboard(reports, names) ==
  LET scored == [i \in DOMAIN reports |->
                   [strategy |-> reports[i].strategy, score |-> Score(reports[i].statistics),
                    class |-> Qualify(reports[i].statistics)]]
  IN  SortSeq(scored, LAMBDA a, b : Ahead(names, a, b))

----------------------------------------------------------------------------
(* invariants.go: what ValidateJournal and ValidateSimulationMetrics accept. *)
ValidTrade(t) == t.from <= t.to /\ t.entry > 0 /\ t.exit > 0 /\ t.held >= 1
ValidMetrics(sim) == sim.opens = sim.closes /\ (sim.signals = 0 => sim.opens = 0)
=============================================================================
