------------------------------ MODULE Portfolio ------------------------------
(***************************************************************************)
(* The portfolio engine of src/internal/portfolio: it books the FILLED     *)
(* execution reports it receives, keeps one position per series, realizes  *)
(* profit when a position is closed, and marks the open positions to the   *)
(* latest execution price of their symbol. Prices are natural numbers.     *)
(***************************************************************************)
EXTENDS Integers, FiniteSets, Functions

CONSTANTS
  Symbols,     \* what carries a reference price
  Timeframes,  \* a series is a symbol and a timeframe
  Prices,      \* execution prices of filled orders
  Quantity,    \* the quantity of every order (risk DefaultQuantity)
  MaxTrades    \* bound: filled reports booked

VARIABLES
  holding,         \* Cache.positions: side and average price of a series
  referencePrice,  \* Cache.referencePrice by symbol, 0 when absent
  realizedTotal,   \* Cache.realizedTotal
  unrealizedTotal, \* Cache.unrealizedTotal
  exposure,        \* Cache.exposure
  trades,          \* how many records Cache.trades holds
  cash,            \* history: money received minus money paid by the fills
  replaced         \* history: profit of the positions reversals replaced

vars == <<holding, referencePrice, realizedTotal, unrealizedTotal, exposure,
          trades, cash, replaced>>

Series == Symbols \X Timeframes
Symbol(s) == s[1]
Entries == {"LONG_ENTRY", "SHORT_ENTRY"}
Exits == {"LONG_EXIT", "SHORT_EXIT"}
Sides == {"flat", "long", "short"}

NoHolding == [side |-> "flat", price |-> 0]
Holding == [side : Sides, price : Prices \union {0}]
Report == [series : Series, action : Entries \union Exits, price : Prices,
           status : {"FILLED", "REJECTED"}]

OpenIn(h) == {s \in Series : h[s].side # "flat"}
Open == OpenIn(holding)

Init ==
  /\ holding = [s \in Series |-> NoHolding]
  /\ referencePrice = [y \in Symbols |-> 0]
  /\ realizedTotal = 0
  /\ unrealizedTotal = 0
  /\ exposure = 0
  /\ trades = 0
  /\ cash = 0
  /\ replaced = 0

-----------------------------------------------------------------------------
(* signedQuantity: a short position counts its quantity negative.          *)
SignedQuantity(side) ==
  CASE side = "long"  -> Quantity
    [] side = "short" -> -Quantity
    [] OTHER          -> 0

(* RealizedPnL and UnrealizedPnL: (to - from) * signed quantity.           *)
PnL(side, from, to) == (to - from) * SignedQuantity(side)

SideOf(action) == IF action = "LONG_ENTRY" THEN "long" ELSE "short"

HoldingAfter(s, action, price) ==
  IF action \in Entries THEN [side |-> SideOf(action), price |-> price]
                        ELSE NoHolding

(* What Apply adds to realizedTotal: an exit realizes the position it      *)
(* closes, if there is one; an entry replaces the position, and realizes   *)
(* nothing.                                                                *)
Realizes(s, action, price) ==
  IF action \in Exits THEN PnL(holding[s].side, holding[s].price, price) ELSE 0

MarkBeforeTrade(y, ref) == referencePrice[y]

(* The price a position of symbol y is marked to.                          *)
Mark(y, ref) == ref[y]

(* recomputeAggregates over the positions h and reference prices ref.      *)
UnrealizedOf(h, ref) ==
  SumFunctionOnSet(
    [s \in Series |-> PnL(h[s].side, h[s].price, Mark(Symbol(s), ref))], OpenIn(h))

ExposureOf(h, ref) ==
  SumFunctionOnSet([s \in Series |-> Mark(Symbol(s), ref) * Quantity], OpenIn(h))

(* Money moved by a fill: an entry of a long side pays, of a short side    *)
(* receives, and an exit does the opposite for the position it closes.     *)
CashFlow(s, action, price) ==
  CASE action = "LONG_ENTRY"  -> -price * Quantity
    [] action = "SHORT_ENTRY" -> price * Quantity
    [] OTHER                  -> price * SignedQuantity(holding[s].side)

(* A reversal also buys or sells back what the replaced position held.     *)
ReversalFlow(s, action, price) ==
  IF action \in Entries THEN price * SignedQuantity(holding[s].side) ELSE 0

(* Cache.Apply of a FILLED report.                                         *)
Apply(r) ==
  LET s == r.series
      h == [holding EXCEPT ![s] = HoldingAfter(s, r.action, r.price)]
      ref == [referencePrice EXCEPT ![Symbol(s)] = r.price]
  IN /\ r.status = "FILLED"
     /\ trades' = trades + 1
     /\ referencePrice' = ref
     /\ holding' = h
     /\ realizedTotal' = realizedTotal + Realizes(s, r.action, r.price)
     /\ unrealizedTotal' = UnrealizedOf(h, ref)
     /\ exposure' = ExposureOf(h, ref)
     /\ cash' = cash + CashFlow(s, r.action, r.price)
                     + ReversalFlow(s, r.action, r.price)
     /\ replaced' = IF r.action \in Entries
                      THEN replaced + PnL(holding[s].side, holding[s].price, r.price)
                      ELSE replaced

(* A report that is not FILLED is ignored by handle and by Apply.          *)
Ignore(r) == r.status # "FILLED" /\ UNCHANGED vars

Handle(r) == Apply(r) \/ Ignore(r)

(* Reports as the risk engine lets them happen: no entry repeats its side, *)
(* and an exit closes a position of its side; an entry may reverse.        *)
Approvable(r) ==
  CASE r.action = "LONG_ENTRY"  -> holding[r.series].side # "long"
    [] r.action = "SHORT_ENTRY" -> holding[r.series].side # "short"
    [] r.action = "LONG_EXIT"   -> holding[r.series].side = "long"
    [] r.action = "SHORT_EXIT"  -> holding[r.series].side = "short"

Next == \E r \in Report : trades < MaxTrades /\ Approvable(r) /\ Handle(r)

Spec == Init /\ [][Next]_vars

-----------------------------------------------------------------------------
TypeOK ==
  /\ holding \in [Series -> Holding]
  /\ referencePrice \in [Symbols -> Prices \union {0}]
  /\ realizedTotal \in Int
  /\ unrealizedTotal \in Int
  /\ exposure \in Nat
  /\ trades \in 0 .. MaxTrades
  /\ cash \in Int
  /\ replaced \in Int

(* What the open positions are worth at the latest prices.                 *)
Worth ==
  SumFunctionOnSet(
    [s \in Series |-> SignedQuantity(holding[s].side) * referencePrice[Symbol(s)]], Open)

(* The account adds up: realized plus unrealized profit, and the profit of *)
(* the legs that reversals replaced, is the money moved by the fills plus  *)
(* what the open positions are worth, for positions of several series that *)
(* share a symbol's reference price.                                       *)
AccountAddsUp == realizedTotal + unrealizedTotal + replaced = cash + Worth

(* Cumulative realized PnL: once every position is closed, what was        *)
(* realized is all the money the fills moved.                              *)
RealizedIsCumulative == Open = {} => realizedTotal = cash
=============================================================================
