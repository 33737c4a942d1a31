----------------------------- MODULE RiskEngine -----------------------------
(***************************************************************************)
(* The risk engine of src/internal/analytics/risk: one decision at a time, *)
(* under the cache lock, it resets the daily counter when a later trading  *)
(* day begins, approves or rejects, and books what it approved.            *)
(*                                                                         *)
(* A confidence is abstracted to whether it reaches MinConfidence, and a   *)
(* timestamp to its day in the reset timezone (day 0: no reset yet).       *)
(***************************************************************************)
EXTENDS Integers, FiniteSets

CONSTANTS
  Series,            \* the (symbol, timeframe) pairs that are traded
  MaxPositions,      \* Config.MaxPositions
  MaxTradesPerDay,   \* Config.MaxTradesPerDay
  LastDay            \* bound: the days decisions are stamped with

ASSUME SeriesFinite == IsFiniteSet(Series)
ASSUME LimitsNat == MaxPositions \in Nat /\ MaxTradesPerDay \in Nat
ASSUME LastDayNat == LastDay \in Nat

VARIABLES
  position,      \* Cache.series[key].position; an absent key is flat
  tradesToday,   \* Cache.tradesToday
  resetDay,      \* Cache.resetDay, 0 for the zero time
  approvedOn,    \* history: approved intents by the day of their decision
  approvals,     \* history: approved intents by series
  lastApproved   \* history: the last action approved on a series

vars == <<position, tradesToday, resetDay, approvedOn, approvals, lastApproved>>

Days == 1 .. LastDay
Entries == {"LONG_ENTRY", "SHORT_ENTRY"}
Exits == {"LONG_EXIT", "SHORT_EXIT"}
Decisions == Entries \union Exits \union {"HOLD", "UNSUPPORTED"}
Input == [series : Series, decision : Decisions, confident : BOOLEAN, day : Days]

Active == {s \in Series : position[s] # "flat"}

Init ==
  /\ position = [s \in Series |-> "flat"]
  /\ tradesToday = 0
  /\ resetDay = 0
  /\ approvedOn = [d \in Days |-> 0]
  /\ approvals = [s \in Series |-> 0]
  /\ lastApproved = [s \in Series |-> "none"]

-----------------------------------------------------------------------------
NewDayWhenDifferent(day) == day # resetDay

(* resetDayIfNeeded: the first decision, or one of a later day.            *)
NewDay(day) == resetDay = 0 \/ day > resetDay

(* Cache.tradesToday once resetDayIfNeeded has seen the decision's day.    *)
TradesOn(day) == IF NewDay(day) THEN 0 ELSE tradesToday

RoomForOneMore(s) == position[s] = "flat" => Cardinality(Active) <= MaxPositions

(* A flat series needs a free slot; a reversal keeps the one it has.       *)
HasRoom(s) == position[s] = "flat" => Cardinality(Active) < MaxPositions

AllowedWithPyramiding(s, decision) ==
  \/ decision \in Entries /\ HasRoom(s)
  \/ decision = "LONG_EXIT" /\ position[s] = "long"
  \/ decision = "SHORT_EXIT" /\ position[s] = "short"

Allowed(s, decision) ==
  \/ decision = "LONG_ENTRY" /\ position[s] # "long" /\ HasRoom(s)
  \/ decision = "SHORT_ENTRY" /\ position[s] # "short" /\ HasRoom(s)
  \/ decision = "LONG_EXIT" /\ position[s] = "long"
  \/ decision = "SHORT_EXIT" /\ position[s] = "short"

(* Evaluator.evaluate: TRUE for an APPROVED intent. The order of the       *)
(* checks only decides which reason a rejection carries.                   *)
Approves(in) ==
  /\ in.confident
  /\ TradesOn(in.day) < MaxTradesPerDay
  /\ Allowed(in.series, in.decision)

(* A decision that a limit or the threshold refuses, and nothing else.     *)
RefusedByLimit(in) ==
  /\ in.decision # "HOLD"
  /\ ~in.confident \/ TradesOn(in.day) >= MaxTradesPerDay \/ ~HasRoom(in.series)

PositionAfter(decision) ==
  CASE decision = "LONG_ENTRY"  -> "long"
    [] decision = "SHORT_ENTRY" -> "short"
    [] OTHER                    -> "flat"

(* Evaluator.Process: reset, evaluate, apply, in one critical section.     *)
Process(in) ==
  /\ resetDay' = IF NewDay(in.day) THEN in.day ELSE resetDay
  /\ IF Approves(in)
       THEN /\ tradesToday' = TradesOn(in.day) + 1
            /\ position' = [position EXCEPT ![in.series] = PositionAfter(in.decision)]
            /\ approvedOn' = [approvedOn EXCEPT ![in.day] = @ + 1]
            /\ approvals' = [approvals EXCEPT ![in.series] = @ + 1]
            /\ lastApproved' = [lastApproved EXCEPT ![in.series] = in.decision]
       ELSE /\ tradesToday' = TradesOn(in.day)
            /\ UNCHANGED <<position, approvedOn, approvals, lastApproved>>

(* Decisions reach the engine in any order of their timestamps: a bar of   *)
(* an illiquid symbol is closed by that symbol's first tick of a later day *)
Next == \E in \in Input : Process(in)

Spec == Init /\ [][Next]_vars

(* Decisions whose days never go back.                                     *)
NextInOrder == \E in \in Input : in.day >= resetDay /\ Process(in)

InOrderSpec == Init /\ [][NextInOrder]_vars

-----------------------------------------------------------------------------
TypeOK ==
  /\ position \in [Series -> {"flat", "long", "short"}]
  /\ tradesToday \in Nat
  /\ resetDay \in 0 .. LastDay
  /\ approvedOn \in [Days -> Nat]
  /\ approvals \in [Series -> Nat]
  /\ lastApproved \in [Series -> Entries \union Exits \union {"none"}]

(* "Reject new flat entries when max_positions is reached": however        *)
(* entries, reversals and exits of several series interleave, no more than *)
(* MaxPositions series are long or short.                                  *)
PositionLimit == Cardinality(Active) <= MaxPositions

(* The counter the daily limit is enforced with never exceeds the limit.   *)
DailyCounterLimit == tradesToday <= MaxTradesPerDay

(* Whatever the order of the days, the latest day seen keeps the limit:    *)
(* decisions that arrive late use it up, they never extend it.             *)
LatestDayLimit == resetDay \in Days => approvedOn[resetDay] <= MaxTradesPerDay

(* "Reject when max_trades_per_day approved trades are exceeded": no       *)
(* calendar day has more approved trades than the limit. The counter       *)
(* belongs to the latest day seen, so this needs days in order.            *)
DailyLimit == \A d \in Days : approvedOn[d] <= MaxTradesPerDay

(* What was approved for a series reads as trades: an exit directly        *)
(* follows an entry of its side, and an entry never repeats its side       *)
(* without an exit or a reversal in between.                               *)
NoOrphanNoDouble ==
  \A s \in Series :
    approvals'[s] # approvals[s] =>
      CASE lastApproved'[s] = "LONG_EXIT"  -> lastApproved[s] = "LONG_ENTRY"
        [] lastApproved'[s] = "SHORT_EXIT" -> lastApproved[s] = "SHORT_ENTRY"
        [] OTHER -> lastApproved'[s] # lastApproved[s]

ApprovedReadsAsTrades == [][NoOrphanNoDouble]_vars
=============================================================================
