--------------------------- MODULE StrategyEngine ---------------------------
(***************************************************************************)
(* The strategy engine of src/internal/analytics/strategy: it keeps the    *)
(* last signal of every rule of a series, evaluates its strategies on them *)
(* and on the position it believes the series has, and records what it     *)
(* decided. All of Process runs under the cache lock.                      *)
(*                                                                         *)
(* A confidence is abstracted to whether it reaches MinConfidence: the     *)
(* lower of two confidences reaches it exactly when both do.               *)
(***************************************************************************)
EXTENDS Naturals, Sequences, FiniteSetsExt

CONSTANTS
  Series,      \* the (symbol, timeframe) pairs signals arrive for
  SignalSides, \* the values of a signal
  Enabled      \* the enabled strategies

VARIABLES
  signals,   \* seriesState.signals: the last signal stored of every rule
  position,  \* seriesState.position: what the engine believes
  decided    \* whether lastDecisionAt is set

vars == <<signals, position, decided>>

Rules == {"ema_cross", "macd_cross", "rsi", "bollinger"}
Signal == [side : SignalSides, confident : BOOLEAN]
NoSignal == [side |-> "none", confident |-> FALSE]
Entries == {"LONG_ENTRY", "SHORT_ENTRY"}
Exits == {"LONG_EXIT", "SHORT_EXIT"}
Decisions == Entries \union Exits \union {"HOLD"}

Init ==
  /\ signals = [s \in Series |-> [r \in Rules |-> NoSignal]]
  /\ position = [s \in Series |-> "flat"]
  /\ decided = [s \in Series |-> FALSE]

-----------------------------------------------------------------------------
AlignOnPrimary(p, c, pos) ==
  CASE ~p.confident -> "HOLD"
    [] p.confident /\ p.side = "BUY"  -> "LONG_ENTRY"
    [] p.confident /\ p.side = "SELL" -> "SHORT_ENTRY"
    [] p.confident /\ p.side = "EXIT_LONG" /\ pos = "long" -> "LONG_EXIT"
    [] p.confident /\ p.side = "EXIT_SHORT" /\ pos = "short" -> "SHORT_EXIT"
    [] OTHER -> "HOLD"

(* alignEntrySignals of the primary and the confirming signal.             *)
Align(p, c, pos) ==
  LET confident == p.confident /\ c.confident
  IN CASE confident /\ p.side = "BUY" /\ c.side = "BUY"   -> "LONG_ENTRY"
       [] confident /\ p.side = "SELL" /\ c.side = "SELL" -> "SHORT_ENTRY"
       [] confident /\ p.side = "EXIT_LONG" /\ pos = "long"   -> "LONG_EXIT"
       [] confident /\ p.side = "EXIT_SHORT" /\ pos = "short" -> "SHORT_EXIT"
       [] OTHER -> "HOLD"

(* positionAllowsEntry: no second entry on the side already held.          *)
AllowsEntry(decision, pos) ==
  /\ decision = "LONG_ENTRY" => pos # "long"
  /\ decision = "SHORT_ENTRY" => pos # "short"

(* evalTrendFollowing, evalMeanReversion: nothing until both signals have  *)
(* been seen, nothing for an entry the position does not allow.            *)
EvaluatePair(sigs, pos, primary, confirm) ==
  LET d == Align(sigs[primary], sigs[confirm], pos)
  IN IF \/ sigs[primary] = NoSignal \/ sigs[confirm] = NoSignal
        \/ ~AllowsEntry(d, pos)
       THEN <<>> ELSE <<d>>

If(strategy, decisions) == IF strategy \in Enabled THEN decisions ELSE <<>>

(* Evaluator.Evaluate: every strategy sees the position the series had     *)
(* before the signal, not what an earlier strategy has just decided.       *)
Evaluate(s, sigs) ==
     If("trend_following", EvaluatePair(sigs, position[s], "ema_cross", "macd_cross"))
  \o If("mean_reversion", EvaluatePair(sigs, position[s], "rsi", "bollinger"))
  \o If("breakout", IF decided[s] THEN <<"HOLD">> ELSE <<>>)

PositionAfter(decision) ==
  CASE decision = "LONG_ENTRY"  -> "long"
    [] decision = "SHORT_ENTRY" -> "short"
    [] OTHER                    -> "flat"

(* recordDecision for each decision in turn: the last one that is not a    *)
(* HOLD is the position the engine believes.                               *)
Record(pos, decisions) ==
  LET acts == {i \in DOMAIN decisions : decisions[i] # "HOLD"}
  IN IF acts = {} THEN pos ELSE PositionAfter(decisions[Max(acts)])

(* What Process publishes for a signal of a rule on a series.              *)
Decided(s, rule, sig) == Evaluate(s, [signals[s] EXCEPT ![rule] = sig])

(* Evaluator.Process: store, evaluate, record.                             *)
Process(s, rule, sig) ==
  LET decisions == Decided(s, rule, sig)
  IN /\ signals' = [signals EXCEPT ![s][rule] = sig]
     /\ position' = [position EXCEPT ![s] = Record(@, decisions)]
     /\ decided' = [decided EXCEPT ![s] = @ \/ decisions # <<>>]

Next == \E s \in Series, rule \in Rules, sig \in Signal : Process(s, rule, sig)

Spec == Init /\ [][Next]_vars

-----------------------------------------------------------------------------
TypeOK ==
  /\ signals \in [Series -> [Rules -> Signal \union {NoSignal}]]
  /\ position \in [Series -> {"flat", "long", "short"}]
  /\ decided \in [Series -> BOOLEAN]

(* The rules a position may come from.                                     *)
Pairs == {p \in {<<"trend_following", {"ema_cross", "macd_cross"}>>,
                 <<"mean_reversion", {"rsi", "bollinger"}>>} : p[1] \in Enabled}

(* Side is the latest, confident word of both rules of an enabled strategy *)
Unanimous(sigs, side) ==
  \E p \in Pairs : \A r \in p[2] : sigs[r] = [side |-> side, confident |-> TRUE]

ExitSide(pos) == IF pos = "long" THEN "EXIT_LONG" ELSE "EXIT_SHORT"

(* However the signals of four rules interleave, and whichever strategies  *)
(* decide on the same signal, the position moves to a side only while both *)
(* rules of a strategy ask for that side with confidence, and to flat only *)
(* on a confident exit from the side it was on; one stale or doubtful      *)
(* confirmation is enough to keep it where it is.                          *)
MovesWithBothRules ==
  \A s \in Series :
    position'[s] # position[s] =>
      CASE position'[s] = "long"  -> Unanimous(signals'[s], "BUY")
        [] position'[s] = "short" -> Unanimous(signals'[s], "SELL")
        [] OTHER -> \E r \in Rules : signals'[s][r] =
                      [side |-> ExitSide(position[s]), confident |-> TRUE]
=============================================================================
