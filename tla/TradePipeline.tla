---------------------------- MODULE TradePipeline ----------------------------
(***************************************************************************)
(* Strategy -> risk -> paper execution -> portfolio, composed as the       *)
(* container wires them: each engine is one goroutine that consumes its    *)
(* bounded subscription and publishes to the bus, and the bus drops what   *)
(* finds the next engine's buffer full (EventBus).                         *)
(*                                                                         *)
(* The four engines each keep their own idea of the position of a series,  *)
(* and nothing flows back: neither a rejection nor a drop is ever told to  *)
(* the engine that acted first. The properties say when the four ideas     *)
(* agree.                                                                  *)
(***************************************************************************)
EXTENDS Integers, Sequences, FiniteSets

CONSTANTS
  Symbols, Timeframes,          \* a series is a symbol and a timeframe
  SignalSides, Enabled,         \* strategy: signals and enabled strategies
  Arrivals,                     \* the (rule, signal) pairs that arrive
  Strong,                       \* whether decisions may (TRUE) or may not
                                \* (FALSE) reach risk's own MinConfidence
  MaxPositions, MaxTradesPerDay, \* risk limits
  DefaultPrice, Slippage,       \* paper execution prices
  Quantity,                     \* size of an order
  Buffer,                       \* capacity of every subscription
  MaxSignals                    \* bound: signals that arrive

ASSUME PaperPrices == DefaultPrice \in Nat /\ Slippage \in Nat
ASSUME QuantityPositive == Quantity \in Nat \ {0}
ASSUME EnabledStrategies ==
  Enabled \subseteq {"trend_following", "mean_reversion", "breakout"}
ASSUME SeriesFinite == IsFiniteSet(Symbols) /\ IsFiniteSet(Timeframes)
ASSUME LimitsNat == MaxPositions \in Nat /\ MaxTradesPerDay \in Nat
ASSUME BufferNat == Buffer \in Nat
ASSUME StrongBoolean == Strong \subseteq BOOLEAN

Series == Symbols \X Timeframes

VARIABLES
  signals, believed, decided,                       \* strategy engine
  riskPosition, tradesToday, resetDay, approvedOn, approvals, lastApproved,  \* risk engine
  orderCounter, positions, ctxCancelled,            \* paper execution
  holding, referencePrice, realizedTotal, unrealizedTotal, exposure,
  trades, cash, replaced,                           \* portfolio
  outbox,      \* decisions of the strategy's last Process still to publish
  decisions,   \* risk's subscription: StrategyDecision
  intents,     \* paper's subscription: ApprovedTradeIntent, rejected ones too
  reports,     \* portfolio's subscription: execution.report
  droppedDecisions, droppedIntents, droppedReports,  \* Subscription.Dropped
  approved,    \* history: intents risk approved
  refused,     \* history: decisions a limit or the threshold of risk refused
  cancelled,   \* history: approved intents paper took after its Close
  arrived      \* bound: signals consumed

strategyVars == <<signals, believed, decided, outbox>>
riskVars == <<riskPosition, tradesToday, resetDay, approvedOn, approvals,
              lastApproved, approved, refused>>
paperVars == <<orderCounter, positions, ctxCancelled, cancelled>>
portfolioVars == <<holding, referencePrice, realizedTotal, unrealizedTotal,
                   exposure, trades, cash, replaced>>
vars == <<strategyVars, riskVars, paperVars, portfolioVars, decisions, intents,
          reports, droppedDecisions, droppedIntents, droppedReports, arrived>>

Strategy == INSTANCE StrategyEngine WITH position <- believed
Risk == INSTANCE RiskEngine WITH position <- riskPosition, LastDay <- 1
Paper == INSTANCE PaperExecution
Account == INSTANCE Portfolio WITH
             Prices <- {DefaultPrice - Slippage, DefaultPrice + Slippage},
             MaxTrades <- MaxSignals

ASSUME ArrivalsAreSignals == Arrivals \subseteq Strategy!Rules \X Strategy!Signal

(* The signal engine emits BUY and SELL only: EXIT_LONG and EXIT_SHORT are *)
(* declared, and have no producer. The strategies need that of the rule    *)
(* mean reversion exits on.                                                *)
ASSUME ReversionNeverExits ==
  \A a \in Arrivals : a[1] = "rsi" => a[2].side \in {"BUY", "SELL"}

Init ==
  /\ Strategy!Init /\ Risk!Init /\ Paper!Init /\ Account!Init
  /\ outbox = <<>> /\ decisions = <<>> /\ intents = <<>> /\ reports = <<>>
  /\ droppedDecisions = 0 /\ droppedIntents = 0 /\ droppedReports = 0
  /\ approved = 0 /\ refused = 0 /\ cancelled = 0 /\ arrived = 0

-----------------------------------------------------------------------------
(* Bus.Publish into one subscription: a non-blocking send.                 *)
Publish(e, queue, queueNext, dropped, droppedNext) ==
  IF Len(queue) < Buffer
    THEN queueNext = Append(queue, e) /\ droppedNext = dropped
    ELSE queueNext = queue /\ droppedNext = dropped + 1

(* The strategy engine handles one SignalGenerated: Process, then publish  *)
(* the decisions one by one. Its goroutine takes no signal in between.     *)
StrategyHandle(s, rule, sig) ==
  /\ outbox = <<>>
  /\ arrived < MaxSignals
  /\ arrived' = arrived + 1
  /\ Strategy!Process(s, rule, sig)
  /\ outbox' = [i \in 1 .. Len(Strategy!Decided(s, rule, sig)) |->
                 [series |-> s, action |-> Strategy!Decided(s, rule, sig)[i]]]
  /\ UNCHANGED <<riskVars, paperVars, portfolioVars, decisions, intents, reports,
                 droppedDecisions, droppedIntents, droppedReports>>

StrategyPublish ==
  /\ outbox # <<>>
  /\ outbox' = Tail(outbox)
  /\ Publish(Head(outbox), decisions, decisions', droppedDecisions, droppedDecisions')
  /\ UNCHANGED <<signals, believed, decided, riskVars, paperVars, portfolioVars,
                 intents, reports, droppedIntents, droppedReports, arrived>>

RiskInput(d, strong) == [series |-> d.series, decision |-> d.action,
                         confident |-> strong, day |-> 1]

(* The risk engine handles one StrategyDecision: it publishes an intent    *)
(* for rejected decisions as well.                                         *)
RiskHandle ==
  /\ decisions # <<>>
  /\ \E strong \in Strong :
     LET d == Head(decisions)
         ok == Risk!Approves(RiskInput(d, strong))
         intent == [series |-> d.series, action |-> d.action,
                    status |-> IF ok THEN "APPROVED" ELSE "REJECTED"]
     IN /\ Risk!Process(RiskInput(d, strong))
        /\ approved' = IF ok THEN approved + 1 ELSE approved
        /\ refused' = IF Risk!RefusedByLimit(RiskInput(d, strong))
                        THEN refused + 1 ELSE refused
        /\ Publish(intent, intents, intents', droppedIntents, droppedIntents')
  /\ decisions' = Tail(decisions)
  /\ UNCHANGED <<strategyVars, paperVars, portfolioVars, reports,
                 droppedDecisions, droppedReports, arrived>>

(* An ApprovedTradeIntent of the risk engine carries no reference_price,   *)
(* so paper execution always reads 0.                                      *)
IntentPrice == 0

(* The paper engine handles one ApprovedTradeIntent.                       *)
PaperSkip ==
  /\ intents # <<>>
  /\ Head(intents).status # "APPROVED"
  /\ intents' = Tail(intents)
  /\ UNCHANGED <<strategyVars, riskVars, paperVars, portfolioVars, decisions,
                 reports, droppedDecisions, droppedIntents, droppedReports, arrived>>

PaperExecute ==
  /\ intents # <<>>
  /\ Head(intents).status = "APPROVED"
  /\ LET i == Head(intents)
     IN /\ Paper!Execute(i.series, i.action, IntentPrice)
        /\ Publish(Paper!ReportOf(i.series, i.action, IntentPrice),
                   reports, reports', droppedReports, droppedReports')
  /\ intents' = Tail(intents)
  /\ UNCHANGED <<strategyVars, riskVars, cancelled, portfolioVars, decisions,
                 droppedDecisions, droppedIntents, arrived>>

(* While it drains after Close, the engine's context is cancelled.         *)
PaperDrain ==
  /\ intents # <<>>
  /\ Head(intents).status = "APPROVED"
  /\ Paper!DropCancelled
  /\ cancelled' = cancelled + 1
  /\ intents' = Tail(intents)
  /\ UNCHANGED <<strategyVars, riskVars, portfolioVars, decisions, reports,
                 droppedDecisions, droppedIntents, droppedReports, arrived>>

PaperClose ==
  /\ Paper!Cancel
  /\ UNCHANGED <<strategyVars, riskVars, cancelled, portfolioVars, decisions, intents,
                 reports, droppedDecisions, droppedIntents, droppedReports, arrived>>

(* The portfolio engine handles one execution report.                      *)
PortfolioHandle ==
  /\ reports # <<>>
  /\ Account!Handle(Head(reports))
  /\ reports' = Tail(reports)
  /\ UNCHANGED <<strategyVars, riskVars, paperVars, decisions, intents,
                 droppedDecisions, droppedIntents, droppedReports, arrived>>

PaperStep == PaperSkip \/ PaperExecute \/ PaperDrain

Engines == StrategyPublish \/ RiskHandle \/ PaperStep \/ PortfolioHandle

Next ==
  \/ \E s \in Series, a \in Arrivals : StrategyHandle(s, a[1], a[2])
  \/ Engines
  \/ PaperClose

Spec == Init /\ [][Next]_vars

-----------------------------------------------------------------------------
TypeOK ==
  /\ Strategy!TypeOK /\ Risk!TypeOK /\ Paper!TypeOK
  /\ holding \in [Series -> Account!Holding]
  /\ Len(decisions) <= Buffer /\ Len(intents) <= Buffer /\ Len(reports) <= Buffer

(* goal is the side of series s once the first n of the queued actions,    *)
(* oldest first, have been applied to side: the last that is not a HOLD    *)
(* decides.                                                                *)
AfterMoves(side, s, queue, n, goal) ==
  LET moves == {i \in 1 .. n : queue[i].series = s /\ queue[i].action # "HOLD"}
  IN \/ moves = {} /\ goal = side
     \/ \E i \in moves : /\ \A j \in moves : j <= i
                         /\ goal = Risk!PositionAfter(queue[i].action)

Leads(side, s, queue, goal) == AfterMoves(side, s, queue, Len(queue), goal)

(* What the queued events ask the next engine for: decisions of risk,      *)
(* approved intents of paper, fills of the portfolio.                      *)
Asked == decisions \o outbox
Ask(e, acts) == [series |-> e.series, action |-> IF acts THEN e.action ELSE "HOLD"]
Asks(queue, status) ==
  [i \in DOMAIN queue |-> Ask(queue[i], queue[i].status = status)]
Approvals == Asks(intents, "APPROVED")
Fills == Asks(reports, "FILLED")

(* As long as no intent was dropped and paper is open and has a price,     *)
(* the position the risk limits are enforced on is the one paper holds,    *)
(* up to the intents on their way.                                         *)
RiskAgreesWithPaper ==
  droppedIntents = 0 /\ cancelled = 0 /\ DefaultPrice > 0 =>
    \A s \in Series : Leads(positions[s], s, Approvals, riskPosition[s])

(* As long as no report was dropped, the positions paper holds are those   *)
(* of the portfolio, up to the reports on their way.                       *)
PaperAgreesWithPortfolio ==
  droppedReports = 0 =>
    \A s \in Series : Leads(holding[s].side, s, Fills, positions[s])

(* As long as no decision was dropped and no limit refused one, what the   *)
(* strategies believe is what risk has booked, up to the decisions on      *)
(* their way. (A strategy that believes in a position nobody holds never   *)
(* enters that side again.)                                                *)
StrategyAgreesWithRisk ==
  droppedDecisions = 0 /\ refused = 0 =>
    \A s \in Series : Leads(riskPosition[s], s, Asked, believed[s])

(* Every approved intent is executed, on its way, dropped by the bus or,   *)
(* after paper's Close, discarded: none is executed twice.                 *)
ApprovedIntents == {i \in DOMAIN intents : intents[i].status = "APPROVED"}
IntentsAccounted ==
  LET accounted == orderCounter + Cardinality(ApprovedIntents) + cancelled
  IN accounted <= approved /\ approved <= accounted + droppedIntents

(* The portfolio never holds more positions than the risk limit allows,    *)
(* as long as nothing was lost on the way to it.                           *)
PortfolioWithinLimit ==
  droppedIntents = 0 /\ droppedReports = 0 /\ cancelled = 0 =>
    Cardinality({s \in Series : holding[s].side # "flat"}) <= MaxPositions

(* An approved entry is simulated: when nothing was lost and nothing is on *)
(* its way, the portfolio holds the positions risk has approved.           *)
ApprovedIsHeld ==
  /\ droppedIntents + droppedReports + cancelled = 0
  /\ intents = <<>> /\ reports = <<>>
  => \A s \in Series : holding[s].side = riskPosition[s]

(* The account adds up after every fill, as long as slippage moves prices. *)
AccountAddsUp == Account!AccountAddsUp

(* "Cumulative realized PnL": once every position is closed, what was      *)
(* realized is all the money the fills moved. It is not, when an entry     *)
(* reversed a position, since Apply overwrites the one it replaces.        *)
RealizedIsCumulative == Account!RealizedIsCumulative

(* The position the strategies believe in moves only while both rules of   *)
(* an enabled strategy agree, or on an exit from the side held.            *)
PositionFollowsRules == [][Strategy!MovesWithBothRules]_vars

(* Strategy, risk, paper and portfolio never correct each other, and yet   *)
(* hold one idea of every position, as far as nothing was lost or refused  *)
(* between them; then the limit risk enforces is one on what is really     *)
(* held. And no intent is executed twice or disappears.                    *)
EnginesAgree ==
  /\ TypeOK
  /\ StrategyAgreesWithRisk
  /\ RiskAgreesWithPaper
  /\ PaperAgreesWithPortfolio
  /\ PortfolioWithinLimit
  /\ IntentsAccounted
==============================================================================
