------------------------------- MODULE Runtime -------------------------------
(***************************************************************************)
(* Start and shutdown of the event-driven engines, as StartRuntime and     *)
(* Close of the container (src/internal/infrastructure/di) order them, and *)
(* main of cmd/server calls them. Every engine has the same shape: Start   *)
(* subscribes and then starts one goroutine that handles events until its  *)
(* context is cancelled or its channel is closed; Close cancels, waits for *)
(* the goroutine and gives up the subscription.                            *)
(*                                                                         *)
(* Consumes and Produces are the event types of each engine's subscription *)
(* and publications. Which of its types an engine publishes for an event,  *)
(* if any, is left open. Engines with workers of their own (experiments,   *)
(* walk-forward, Monte Carlo, research, laboratory, backtest runner) and   *)
(* the two AI engines behind them are not part of this module.             *)
(***************************************************************************)
EXTENDS Naturals, Sequences

CONSTANTS
  Enabled,   \* the engines the configuration enables
  Buffer,    \* SubscriberBuffer of every engine
  MaxTicks   \* bound: ticks the provider emits

Consumes ==
  [provider |-> {}, gateway |-> {"raw"}, candle |-> {"tick"}, indicator |-> {"candle"},
   signal |-> {"indicator"}, strategy |-> {"signal"}, risk |-> {"decision"},
   paper |-> {"intent"}, portfolio |-> {"execution"}, performance |-> {"portfolio"},
   optimization |-> {"performance"}, scanner |-> {"signal", "decision", "performance"},
   opportunity |-> {"scanner", "signal", "decision", "intent", "performance",
                    "optimization"},
   recommendation |-> {"opportunity"}, validation |-> {"recommendation"},
   state |-> {"validated"}, alerts |-> {"state"}, intelligence |-> {"state"},
   quality |-> {"intelligence", "candle", "state"}, feedback |-> {"quality"},
   delivery |-> {"state", "intelligence", "quality", "feedback", "alert"},
   console |-> {"delivery"}]

Produces ==
  [provider |-> "raw", gateway |-> "tick", candle |-> "candle", indicator |-> "indicator",
   signal |-> "signal", strategy |-> "decision", risk |-> "intent",
   paper |-> "execution", portfolio |-> "portfolio", performance |-> "performance",
   optimization |-> "optimization", scanner |-> "scanner",
   opportunity |-> "opportunity", recommendation |-> "recommendation",
   validation |-> "validated", state |-> "state", alerts |-> "alert",
   intelligence |-> "intelligence", quality |-> "quality", feedback |-> "feedback",
   delivery |-> "delivery", console |-> "nothing"]

Engines == DOMAIN Consumes

ASSUME SomeEngines == {"provider", "gateway"} \subseteq Enabled /\ Enabled \subseteq Engines
ASSUME RuntimeBounds == Buffer \in Nat \ {0} /\ MaxTicks \in Nat

StartOrderUpstreamFirst ==
  <<"provider", "gateway", "candle", "indicator", "signal", "strategy", "risk", "paper",
    "portfolio", "performance", "optimization", "scanner", "opportunity",
    "recommendation", "validation", "state", "console", "delivery", "feedback",
    "quality", "intelligence", "alerts">>

(* StartRuntime: the gateway, then the provider manager's Connect, last.   *)
StartOrder ==
  <<"alerts", "intelligence", "quality", "feedback", "delivery", "console", "state",
    "validation", "recommendation", "opportunity", "scanner", "optimization",
    "performance", "portfolio", "paper", "risk", "strategy", "signal",
    "indicator", "candle", "gateway", "provider">>

(* Container.Close. Closing the gateway closes the bus; the provider goes  *)
(* on emitting until it is disconnected.                                   *)
CloseOrder ==
  <<"gateway", "candle", "indicator", "risk", "paper", "portfolio", "performance",
    "optimization", "scanner", "opportunity", "recommendation", "validation",
    "alerts", "intelligence", "quality", "feedback", "delivery", "console",
    "state", "strategy", "signal", "provider">>

VARIABLES
  phase,      \* of main: "starting", "running", "closing", "closed", "exited"
  at,         \* the place of the engine StartRuntime started, or Close closed, last
  engine,     \* "new", "running" or "ended": an engine's goroutine
  cancelled,  \* engines whose context is cancelled
  backlog,    \* events buffered in an engine's channel
  busClosed,  \* Bus.closed
  openBar,    \* whether the candle engine has a bar in progress
  finalBars,  \* history: what Flush's bars met: "none", "published" or "lost"
  missed,     \* history: engines that had not yet subscribed to an event published
  ticks       \* bound: ticks emitted

vars == <<phase, at, engine, cancelled, backlog, busClosed, openBar, finalBars,
          missed, ticks>>

Init ==
  /\ phase = "starting"
  /\ at = 0
  /\ engine = [e \in Enabled |-> "new"]
  /\ cancelled = {}
  /\ backlog = [e \in Enabled |-> 0]
  /\ busClosed = FALSE
  /\ openBar = FALSE
  /\ finalBars = "none"
  /\ missed = {}
  /\ ticks = 0

-----------------------------------------------------------------------------
Reaches(kind, e) ==
  kind \in Consumes[e] /\ (kind = "raw" \/ (engine[e] # "new" /\ ~busClosed))

(* The backlogs once an event of that kind has been published: an engine   *)
(* that has subscribed gets it if its buffer has room. The provider has a  *)
(* channel of its own that the gateway reads.                              *)
Delivered(kind, before) ==
  [e \in Enabled |-> IF Reaches(kind, e) /\ before[e] < Buffer
                       THEN before[e] + 1 ELSE before[e]]

Missing(kind) ==
  {e \in Enabled : kind # "raw" /\ kind \in Consumes[e] /\ engine[e] = "new"}

(* The engine at n is the next one in an order that skips disabled engines *)
Skipped(order, places) == \A m \in places : order[m] \notin Enabled
NextIn(order, n) == order[n] \in Enabled /\ Skipped(order, at + 1 .. n - 1)

(* StartRuntime starts the next engine.                                    *)
Start ==
  /\ phase = "starting"
  /\ \E n \in at + 1 .. Len(StartOrder) :
       /\ NextIn(StartOrder, n)
       /\ engine' = [engine EXCEPT ![StartOrder[n]] = "running"]
       /\ at' = n
  /\ UNCHANGED <<phase, cancelled, backlog, busClosed, openBar, finalBars, missed, ticks>>

(* Every engine is started, the provider connected.                        *)
Started ==
  /\ phase = "starting"
  /\ Skipped(StartOrder, at + 1 .. Len(StartOrder))
  /\ phase' = "running"
  /\ at' = 0
  /\ UNCHANGED <<engine, cancelled, backlog, busClosed, openBar, finalBars, missed, ticks>>

(* A Start or the provider's Connect fails: main exits without Close.      *)
StartFails ==
  /\ phase = "starting"
  /\ phase' = "exited"
  /\ UNCHANGED <<at, engine, cancelled, backlog, busClosed, openBar, finalBars, missed, ticks>>

(* The provider emits, as long as it is connected.                         *)
Emit ==
  /\ phase # "exited"
  /\ engine["provider"] = "running"
  /\ ticks < MaxTicks
  /\ ticks' = ticks + 1
  /\ backlog' = Delivered("raw", backlog)
  /\ UNCHANGED <<phase, at, engine, cancelled, busClosed, openBar, finalBars, missed>>

(* An engine handles an event and publishes an event of its own, or not;   *)
(* the candle engine only when it has a bar to close.                      *)
EngineHandle(e) ==
  LET taken == [backlog EXCEPT ![e] = @ - 1]
      kind == Produces[e]
  IN /\ phase # "exited"
     /\ engine[e] = "running"
     /\ backlog[e] > 0
     /\ \/ backlog' = taken /\ UNCHANGED missed
        \/ /\ e = "candle" => openBar
           /\ backlog' = Delivered(kind, taken)
           /\ missed' = missed \union Missing(kind)
     /\ openBar' = (openBar \/ e = "candle")
     /\ UNCHANGED <<phase, at, engine, cancelled, busClosed, finalBars, ticks>>

(* The goroutine of an engine ends when its channel is closed and empty,   *)
(* or when it is cancelled: after draining its channel, except for the     *)
(* gateway and the candle engine, whose run returns at once. The bus does  *)
(* not close the provider's channel.                                       *)
EngineEnd(e) ==
  /\ phase # "exited"
  /\ engine[e] = "running"
  /\ \/ e \notin {"provider", "gateway"} /\ busClosed /\ backlog[e] = 0
     \/ e \in cancelled /\ (backlog[e] = 0 \/ e \in {"gateway", "candle"})
  /\ engine' = [engine EXCEPT ![e] = "ended"]
  /\ UNCHANGED <<phase, at, cancelled, backlog, busClosed, openBar, finalBars, missed, ticks>>

(* The HTTP server fails, which ends main without Close as well.           *)
ServerFails ==
  /\ phase = "running"
  /\ phase' = "exited"
  /\ UNCHANGED <<at, engine, cancelled, backlog, busClosed, openBar, finalBars, missed, ticks>>

(* A signal: main stops the HTTP server and returns to Container.Close.    *)
Shutdown ==
  /\ phase = "running"
  /\ phase' = "closing"
  /\ UNCHANGED <<at, engine, cancelled, backlog, busClosed, openBar, finalBars, missed, ticks>>

CancelAfterWait ==
  /\ phase = "closing"
  /\ \E n \in at + 1 .. Len(CloseOrder) :
       /\ NextIn(CloseOrder, n)
       /\ engine[CloseOrder[n]] = "ended"
       /\ CloseOrder[n] \notin cancelled
       /\ cancelled' = cancelled \union {CloseOrder[n]}
  /\ UNCHANGED <<phase, at, engine, backlog, busClosed, openBar, finalBars, missed, ticks>>

(* Engine.Close of the next engine cancels its context ...                 *)
Cancel ==
  /\ phase = "closing"
  /\ \E n \in at + 1 .. Len(CloseOrder) :
       /\ NextIn(CloseOrder, n)
       /\ CloseOrder[n] \notin cancelled
       /\ cancelled' = cancelled \union {CloseOrder[n]}
  /\ UNCHANGED <<phase, at, engine, backlog, busClosed, openBar, finalBars, missed, ticks>>

Proceed(e) ==
  /\ busClosed' = (busClosed \/ e = "gateway")
  /\ IF e = "candle" /\ openBar
       THEN /\ openBar' = FALSE
            /\ finalBars' = IF busClosed THEN "lost" ELSE "published"
            /\ backlog' = Delivered("candle", backlog)
       ELSE UNCHANGED <<openBar, finalBars, backlog>>
  /\ UNCHANGED <<phase, engine, cancelled, missed, ticks>>

(* ... waits for its goroutine; the candle engine then flushes its bars in *)
(* progress (flush_on_shutdown), the gateway closes the bus.               *)
Closed ==
  /\ phase = "closing"
  /\ \E n \in at + 1 .. Len(CloseOrder) :
       /\ NextIn(CloseOrder, n)
       /\ CloseOrder[n] \in cancelled
       /\ engine[CloseOrder[n]] = "ended"
       /\ at' = n
       /\ Proceed(CloseOrder[n])

AllClosed ==
  /\ phase = "closing"
  /\ Skipped(CloseOrder, at + 1 .. Len(CloseOrder))
  /\ phase' = "closed"
  /\ UNCHANGED <<at, engine, cancelled, backlog, busClosed, openBar, finalBars, missed, ticks>>

-----------------------------------------------------------------------------
Main == Start \/ Started \/ Cancel \/ Closed \/ AllClosed

Next ==
  \/ Main
  \/ StartFails \/ ServerFails
  \/ Shutdown
  \/ Emit
  \/ \E e \in Enabled : EngineHandle(e) \/ EngineEnd(e)

Spec == Init /\ [][Next]_vars

(* The scheduler runs main and every engine that has something to do.      *)
Fairness ==
  /\ WF_vars(Main)
  /\ \A e \in Enabled : WF_vars(EngineHandle(e) \/ EngineEnd(e))

FairSpec == Spec /\ Fairness

-----------------------------------------------------------------------------
TypeOK ==
  /\ phase \in {"starting", "running", "closing", "closed", "exited"}
  /\ at \in 0 .. Len(StartOrder)
  /\ engine \in [Enabled -> {"new", "running", "ended"}]
  /\ cancelled \subseteq Enabled
  /\ backlog \in [Enabled -> 0 .. Buffer]
  /\ busClosed \in BOOLEAN /\ openBar \in BOOLEAN
  /\ finalBars \in {"none", "published", "lost"}
  /\ missed \subseteq Enabled
  /\ ticks \in 0 .. MaxTicks

(* "Candle engine subscribes to the bus before the gateway starts (no      *)
(* startup race)", and so for every engine: whatever is published, all the *)
(* engines that consume it have subscribed.                                *)
NoStartupRace == missed = {}

(* Engines the container has closed.                                       *)
ClosedEngines ==
  IF phase \in {"closing", "closed"} THEN {CloseOrder[i] : i \in 1 .. at} \intersect Enabled
  ELSE {}

(* Once an engine's Close has returned, its goroutine has ended: nothing   *)
(* it shares with the engines closed after it is used any more.            *)
ClosedIsQuiet == \A e \in ClosedEngines : engine[e] = "ended"

(* An engine leaves no event behind in its channel, whatever was on its    *)
(* way when the shutdown began; the gateway and the candle engine, which   *)
(* do not drain, are the exceptions.                                       *)
NothingLeftBehind ==
  \A e \in ClosedEngines \ {"gateway", "candle"} : backlog[e] = 0

(* A shutdown comes to its end: no engine waits for one closed after it.   *)
ShutdownEnds == phase = "closing" ~> phase = "closed"

(* "When flush_on_shutdown is true, in-progress bars are published as      *)
(* final CandleClosed events", to a bus that is still open.                *)
FinalBarsPublished == finalBars # "lost"

(* Starting misses no event and closing leaves none, nor a goroutine that  *)
(* still runs.                                                             *)
CleanLifecycle ==
  /\ TypeOK
  /\ NoStartupRace
  /\ ClosedIsQuiet
  /\ NothingLeftBehind
==============================================================================
