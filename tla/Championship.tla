---------------------------- MODULE Championship ----------------------------
(* The research command, cmd/backtest, run over one dataset: the candles are  *)
(* loaded once, then every entrant is simulated bar by bar in three passes.   *)
(*   alone     a new instance with indicators of its own, as the validation   *)
(*             suite and Simulator.Run evaluate a strategy                    *)
(*   diagnose  DiagnoseStrategy on a new instance and the dataset's store     *)
(*   compete   ChampionshipEngine.Run on the instances diagnose left behind   *)
(* Afterwards the leaderboard is built.  Nothing here runs concurrently; what *)
(* the passes share is the dataset and, the last two, the instances.          *)
EXTENDS StrategyLibrary, Simulator

CONSTANTS Fields,      \* what is run: records of entrants, candle shapes, number of bars and passes
          Names,       \* the strategies' names in alphabetical order
          BarsPerDay,  \* candles of one session
          BarMinutes   \* minutes of one candle

VARIABLES field,      \* the field of this behaviour
          candles,    \* the dataset
          pass,       \* the passes still to be made, the current one first
          turn,       \* entrants finished in this pass
          bar,        \* bars of this simulation that are done
          instances,  \* the strategy instances in use
          sim,        \* the simulation of the entrant whose turn it is
          decisions,  \* its decisions so far
          results,    \* what the finished simulations returned, by pass and entrant
          board       \* the leaderboard

vars == <<field, candles, pass, turn, bar, instances, sim, decisions, results, board>>

Passes == {"alone", "diagnose", "compete"}

(* A strategy that returns whatever it likes, as the suite's scripted ones.  *)
Scripted == "scripted"

Entrants == ToSet(field.entrants)
NewInstances == [s \in Entrants \ {Scripted} |-> New(s)]
Warmup(s) == IF s = Scripted THEN 1 ELSE WarmupBars(s)

Running == pass # <<>> /\ Head(pass) # "load"
Playing == Running /\ turn < Len(field.entrants)
Entrant == field.entrants[turn + 1]

TypeOK ==
  /\ field \in Fields
  /\ Len(candles) <= field.bars
  /\ ToSet(pass) \subseteq Passes \cup {"load"}
  /\ turn \in 0..Len(field.entrants)
  /\ bar \in 0..Len(candles) /\ Len(decisions) = bar
  /\ sim.position \in {"FLAT", "LONG", "SHORT"}
  /\ DOMAIN results \subseteq Passes

----------------------------------------------------------------------------
Init ==
  /\ field \in Fields
  /\ candles = <<>>
  /\ pass = <<"load">> \o field.passes
  /\ turn = 0 /\ bar = 0
  /\ instances = NewInstances
  /\ sim = Started
  /\ decisions = <<>>
  /\ results = [p \in {} |-> <<>>]
  /\ board = <<>>

(* LoadCSVCandles: rows become candles unchecked; their times follow the     *)
(* session calendar.                                                         *)
Stamped(shape, n) ==
  [day |-> 1 + n \div BarsPerDay, minute |-> (n % BarsPerDay) * BarMinutes] @@ shape

Load ==
  /\ pass # <<>> /\ Head(pass) = "load"
  /\ Len(candles) < field.bars
  /\ \E shape \in field.shapes : candles' = Append(candles, Stamped(shape, Len(candles)))
  /\ UNCHANGED <<field, pass, turn, bar, instances, sim, decisions, results, board>>

(* The end of the file; a file without rows is an error and ends the run.    *)
Loaded ==
  /\ pass # <<>> /\ Head(pass) = "load"
  /\ pass' = IF candles = <<>> THEN <<>> ELSE Tail(pass)
  /\ UNCHANGED <<field, candles, turn, bar, instances, sim, decisions, results, board>>

----------------------------------------------------------------------------
(* One bar of RunWithMetrics: the strategy is evaluated, with the position   *)
(* it is in, and its decision is acted upon.                                 *)
Played(decision, inst) ==
  /\ bar' = bar + 1
  /\ decisions' = Append(decisions, decision)
  /\ sim' = OnBar(sim, decision, candles[bar + 1], bar + 1, Warmup(Entrant))
  /\ instances' = inst
  /\ UNCHANGED <<field, candles, pass, turn, results, board>>

Evaluated ==
  IF Head(pass) = "alone"
  THEN EvaluateAlone(Entrant, instances[Entrant], candles[bar + 1], sim.position)
  ELSE EvaluateStored(Entrant, instances[Entrant], candles, bar + 1, sim.position)

PlayBar ==
  /\ Playing /\ bar < Len(candles) /\ Entrant # Scripted
  /\ \E e \in {Evaluated} : Played(e.decision, [instances EXCEPT ![Entrant] = e.inst])

PlayScripted ==
  /\ Playing /\ bar < Len(candles) /\ Entrant = Scripted
  /\ \E decision \in {"BUY", "SELL", "EXIT", "IGNORE"} : Played(decision, instances)

(* The end of the data: the journal is complete and the next entrant starts. *)
Outcome ==
  LET over == EndOfData(sim, candles[Len(candles)], Len(candles))
  IN  [decisions |-> decisions, sim |-> over, statistics |-> Statistics(over.trades)]

EndSimulation ==
  /\ Playing /\ bar = Len(candles)
  /\ LET done == IF Head(pass) \in DOMAIN results THEN results[Head(pass)] ELSE <<>>
     IN  results' = (Head(pass) :> Append(done, Outcome)) @@ results
  /\ turn' = turn + 1
  /\ bar' = 0 /\ sim' = Started /\ decisions' = <<>>
  /\ UNCHANGED <<field, candles, pass, instances, board>>

----------------------------------------------------------------------------
(* The next pass: diagnose starts with new instances (catalog.AllFresh),     *)
(* compete goes on with those diagnose ran.                                  *)
NextPass ==
  /\ Running /\ turn = Len(field.entrants)
  /\ pass' = Tail(pass)
  /\ turn' = 0
  /\ instances' = IF Head(pass) = "alone" THEN NewInstances ELSE instances
  /\ board' = IF Head(pass) = "compete"
              THEN Leaderboard([i \in DOMAIN field.entrants |->
                                  [strategy |-> field.entrants[i],
                                   statistics |-> results["compete"][i].statistics]], Names)
              ELSE board
  /\ UNCHANGED <<field, candles, bar, sim, decisions, results>>

Finished == pass = <<>> /\ UNCHANGED vars

Next == Load \/ Loaded \/ PlayBar \/ PlayScripted \/ EndSimulation \/ NextPass \/ Finished

Spec == Init /\ [][Next]_vars

----------------------------------------------------------------------------
(* Properties.                                                               *)
Finals(p) == IF p \in DOMAIN results THEN results[p] ELSE <<>>
Outcomes == UNION {ToSet(Finals(p)) : p \in Passes}
AllValid == \A n \in DOMAIN candles : ValidCandle(candles[n])

(* The strategies that keep flags of what they saw from bar to bar.          *)
Remembering == {"bollinger", "rsi_reversal", "opening_range"}

(* The two ways a strategy reads its indicators are the same strategy: with  *)
(* the shared store, whose series are computed over the whole dataset before *)
(* the first bar, it decides on every bar what it decides with indicators    *)
(* that have seen only the bars so far.  So the store never shows a strategy *)
(* a later candle or the wrong bar, and what the validation suite finds of   *)
(* the strategies holds of those that compete.  (Evaluate of the thirteen    *)
(* strategies, indaccess and indicatorstore.)  It needs a dataset of valid   *)
(* candles: an invalid one enters the store's series and not the others.     *)
StoreAgrees ==
  AllValid => \A k \in DOMAIN Finals("diagnose") :
    "alone" \in DOMAIN results => Finals("diagnose")[k].decisions = Finals("alone")[k].decisions

(* A strategy that keeps no flags competes as it was diagnosed although the  *)
(* instance is used a second time: with the store its own indicators stay    *)
(* cold, and the base range breakout has kept is the one it would read       *)
(* again.  (RunStrategyOnDataset after DiagnoseStrategy.)                    *)
RerunAgrees ==
  \A k \in DOMAIN Finals("compete") :
    field.entrants[k] \notin Remembering =>
      Finals("compete")[k].decisions = Finals("diagnose")[k].decisions

(* The same of every strategy.  catalog.AllFresh says that instances "must   *)
(* not be reused across simulations"; runChampionship hands those it         *)
(* diagnosed to the championship.                                            *)
ReuseAgrees ==
  \A k \in DOMAIN Finals("compete") :
    Finals("compete")[k].decisions = Finals("diagnose")[k].decisions

(* One position at a time: the trades of a journal follow one another, none  *)
(* begins before the warm-up is over or before its predecessor has ended,    *)
(* and an open position is newer than all of them.  (RunWithMetrics.)        *)
OneAtATime ==
  LET inOrder(trades, warmup) ==
        \A k \in DOMAIN trades :
          /\ warmup < trades[k].from /\ trades[k].from <= trades[k].to
          /\ k > 1 => trades[k - 1].to <= trades[k].from
  IN  Playing =>
        /\ inOrder(sim.trades, Warmup(Entrant))
        /\ sim.position # "FLAT" /\ sim.trades # <<>> => Last(sim.trades).to <= sim.since

(* A strategy that has lost its capital trades no more: every position but   *)
(* the last loss was opened on positive equity, so at most one trade, the    *)
(* last, ends with nothing left.  (canOpen, also on a reversal.)             *)
NoTradeWhenBroke ==
  \A o \in Outcomes : \A k \in 1..(Len(o.sim.trades) - 1) :
    Capital + NetOf(SubSeq(o.sim.trades, 1, k)) > 0

(* Every position that was opened was closed and journalled, with the end of *)
(* the data as the last resort.  (DiagnoseStrategy expects no issue from     *)
(* ValidateSimulationMetrics.)                                               *)
AllClosedOut ==
  \A o \in Outcomes : ValidMetrics(o.sim) /\ Len(o.sim.trades) = o.sim.closes

(* The journal of a dataset whose last candle is valid passes                *)
(* ValidateJournal.  All other fills are at a close a strategy evaluated;    *)
(* the one at the end of the data is not.                                    *)
JournalAccepted ==
  \A o \in Outcomes :
    ValidCandle(Last(candles)) => \A t \in ToSet(o.sim.trades) : ValidTrade(t)

(* The excursions frame the result of a trade: it cannot have earned more    *)
(* than the position was worth at its best, nor, but for the slippage of its *)
(* exit, have lost more than at its worst.  (updateExcursion runs before the *)
(* decision that may close the position; valid candles only.)                *)
ExcursionsFrameResult ==
  AllValid => \A o \in Outcomes : \A t \in ToSet(o.sim.trades) :
    /\ t.gross <= t.best
    /\ t.from < t.to => -t.gross <= t.worst + Distance(t.exit, candles[t.to].close)

(* ComputeStatistics finds the deepest fall of the equity curve: the largest *)
(* difference between a point and a later one.                               *)
DrawdownIsDeepest ==
  \A o \in Outcomes :
    LET trades == o.sim.trades
        equity == [k \in 0..Len(trades) |-> Capital + NetOf(SubSeq(trades, 1, k))]
    IN  o.statistics.drawdown = Max({equity[q[1]] - equity[q[2]] : q \in
                                      {r \in (DOMAIN equity) \X (DOMAIN equity) : r[1] <= r[2]}})

(* The streaks are the longest runs of consecutive wins and of consecutive   *)
(* losses, in a journal without a trade that nets nothing.                   *)
StreaksAreRuns ==
  LET longest(trades, Good(_)) ==
        Max({0} \cup {q[2] - q[1] + 1 : q \in
               {r \in (DOMAIN trades) \X (DOMAIN trades) :
                  r[1] <= r[2] /\ \A k \in r[1]..r[2] : Good(trades[k].net)}})
  IN  \A o \in Outcomes :
        (\A t \in ToSet(o.sim.trades) : t.net # 0) =>
          /\ o.statistics.winStreak = longest(o.sim.trades, LAMBDA n : n > 0)
          /\ o.statistics.lossStreak = longest(o.sim.trades, LAMBDA n : n < 0)

(* The leaderboard ranks every entrant once and depends only on the results: *)
(* had the strategies run in another order it would be the same.             *)
(* (sortReportsByScore on top of an unstable sort.)                          *)
BoardIsOrderFree ==
  board # <<>> =>
    LET reports == [i \in DOMAIN field.entrants |->
                      [strategy |-> field.entrants[i],
                       statistics |-> results["compete"][i].statistics]]
    IN  /\ {board[i].strategy : i \in DOMAIN board} = Entrants
        /\ board = Leaderboard(Reverse(reports), Names)

(* A strategy that never lost is not turned down.  Its profit factor is      *)
(* zero, though, for want of losses to divide by, and Qualify rejects it.    *)
FlawlessIsQualified ==
  \A o \in Outcomes :
    o.statistics.wins > 0 /\ o.statistics.losses = 0 => Qualify(o.statistics) # "rejected"

(* A strategy decides alike however it reads its indicators and how often  *)
(* its instance is used.                                                   *)
StrategiesAgree == StoreAgrees /\ RerunAgrees

(* A journal is of one position at a time, that the capital allowed,       *)
(* closed in the end, with figures that fit the candles.                   *)
JournalSound ==
  /\ TypeOK
  /\ OneAtATime
  /\ NoTradeWhenBroke
  /\ AllClosedOut
  /\ JournalAccepted
  /\ ExcursionsFrameResult

(* Statistics and leaderboard are what they claim, at zero divisors and    *)
(* equal scores too.                                                       *)
BoardTells == DrawdownIsDeepest /\ StreaksAreRuns /\ BoardIsOrderFree
=============================================================================
