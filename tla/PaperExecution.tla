--------------------------- MODULE PaperExecution ---------------------------
(***************************************************************************)
(* The paper execution engine of src/internal/execution/paper: it turns an *)
(* approved intent into an order that is filled at the reference price,    *)
(* worsened by the slippage, or rejected when there is no price, and keeps *)
(* the position of every series.                                           *)
(***************************************************************************)
EXTENDS Integers

CONSTANTS
  Series,        \* the (symbol, timeframe) pairs traded
  DefaultPrice,  \* Config.DefaultPrice: 0 for "market", else the fallback
  Slippage       \* price units an order loses to slippage

VARIABLES
  orderCounter,  \* Cache.orderCounter
  positions,     \* Cache.positions: the side held, "flat" when absent
  ctxCancelled   \* whether Close has cancelled the engine's context

vars == <<orderCounter, positions, ctxCancelled>>

Init ==
  /\ orderCounter = 0
  /\ positions = [s \in Series |-> "flat"]
  /\ ctxCancelled = FALSE

(* The price an intent executes at, 0 when there is none: its reference    *)
(* price, or the configured default.                                       *)
BasePrice(refPrice) == IF refPrice <= 0 THEN DefaultPrice ELSE refPrice

(* applySlippage: who buys pays more, who sells gets less.                 *)
Slipped(price, action) ==
  IF action \in {"LONG_ENTRY", "SHORT_EXIT"} THEN price + Slippage
                                             ELSE price - Slippage

SideAfterUnlessReversal(action, side) ==
  CASE action = "LONG_ENTRY" /\ side = "flat"  -> "long"
    [] action = "SHORT_ENTRY" /\ side = "flat" -> "short"
    [] action \in {"LONG_ENTRY", "SHORT_ENTRY"} -> side
    [] OTHER -> "flat"

(* Cache.apply: an entry overwrites whatever was held, an exit deletes it  *)
(* whatever its side.                                                      *)
SideAfter(action, side) ==
  CASE action = "LONG_ENTRY"  -> "long"
    [] action = "SHORT_ENTRY" -> "short"
    [] OTHER                  -> "flat"

(* The report of Executor.Execute.                                         *)
ReportOf(s, action, refPrice) ==
  LET price == BasePrice(refPrice)
  IN [series |-> s, action |-> action,
      status |-> IF price <= 0 THEN "REJECTED" ELSE "FILLED",
      price  |-> IF price <= 0 THEN 0 ELSE Slipped(price, action)]

(* Executor.Execute: an order number is used up by a rejection too.        *)
Execute(s, action, refPrice) ==
  /\ ~ctxCancelled
  /\ orderCounter' = orderCounter + 1
  /\ positions' = IF BasePrice(refPrice) > 0
                    THEN [positions EXCEPT ![s] = SideAfter(action, @)]
                    ELSE positions
  /\ UNCHANGED ctxCancelled

(* Engine.Execute checks the engine's context first: once Close has        *)
(* cancelled it, handle drops the intent without a report.                 *)
DropCancelled ==
  /\ ctxCancelled
  /\ UNCHANGED vars

Cancel ==
  /\ ~ctxCancelled
  /\ ctxCancelled' = TRUE
  /\ UNCHANGED <<orderCounter, positions>>

TypeOK ==
  /\ orderCounter \in Nat
  /\ positions \in [Series -> {"flat", "long", "short"}]
  /\ ctxCancelled \in BOOLEAN
=============================================================================
