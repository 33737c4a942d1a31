----------------------------- MODULE MarketFeed -----------------------------
(***************************************************************************)
(* The way of a tick into the system: the provider manager (connect,       *)
(* reconnect, switch of provider), the subscription manager that replays   *)
(* the desired symbols, the providers with their event channels, and the   *)
(* gateway that validates ticks, caches the latest and publishes them.     *)
(*                                                                         *)
(* A provider here is one instance: Switch has the registry create a fresh *)
(* one each time. A call of the manager is made by an admin goroutine in   *)
(* steps, and a call of the subscription manager by one client per symbol; *)
(* neither holds a lock across a provider call. A tick keeps its symbol,   *)
(* time and price. Ticks that fail the validator's checks of the tick      *)
(* alone (sign, missing or stale timestamp) change nothing and are left    *)
(* out; no provider sets a sequence number, so that check is left out too. *)
(***************************************************************************)
EXTENDS Naturals, Sequences, FiniteSets

CONSTANTS
  Providers,    \* provider instances
  First,        \* the one InitWithProvider installs
  Admins,       \* goroutines that call the provider manager
  Symbols,      \* symbols that may be subscribed
  Prices,       \* prices of ticks
  LastTime,     \* bound: provider timestamps
  Buffer,       \* capacity of a provider's event channel
  MaxTicks,     \* bound: ticks emitted
  MaxCalls      \* bound: calls of the managers

ASSUME FirstProvider == First \in Providers
ASSUME FeedBounds == LastTime \in Nat /\ Buffer \in Nat \ {0}
                     /\ MaxTicks \in Nat /\ MaxCalls \in Nat

VARIABLES
  active,      \* Manager.provider, which is also the session's provider
  created,     \* instances that exist
  connected,   \* Provider.connected
  subscribed,  \* Provider.subscribed
  events,      \* the channel of Provider.Events
  admin,       \* where the call of an admin goroutine is
  desired,     \* subscription.Manager.desired
  target,      \* subscription.Manager.provider
  call,        \* the provider call a client of a symbol has still to make
  waiting,     \* provider whose channel the gateway's select waits for
  inHand,      \* the tick handle has validated and cached, not yet published
  last,        \* Validator.last
  cached,      \* Cache.ticks
  gateway,     \* "running", "closing" (cancelled), "ended"
  busClosed,   \* Bus.closed
  published,   \* history: the last tick published of a symbol
  ticks, calls \* bounds

managerVars == <<active, created, connected, admin, target>>
gatewayVars == <<waiting, inHand, last, cached, gateway, busClosed, published>>
vars == <<active, created, connected, subscribed, events, admin, desired, target,
          call, waiting, inHand, last, cached, gateway, busClosed, published,
          ticks, calls>>

Tick == [symbol : Symbols, time : 1 .. LastTime, price : Prices]
NoTick == [time |-> 0]
NoProvider == "none"
NoCall == [op |-> "none", provider |-> NoProvider]
Idle == [step |-> "idle", provider |-> NoProvider, todo |-> {}]

Init ==
  /\ active = First
  /\ created = {First}
  /\ connected = [p \in Providers |-> FALSE]
  /\ subscribed = [p \in Providers |-> {}]
  /\ events = [p \in Providers |-> <<>>]
  /\ admin = [a \in Admins |-> Idle]
  /\ desired = {}
  /\ target = First
  /\ call = [s \in Symbols |-> NoCall]
  /\ waiting = NoProvider
  /\ inHand = NoTick
  /\ last = [s \in Symbols |-> NoTick]
  /\ cached = [s \in Symbols |-> NoTick]
  /\ gateway = "running"
  /\ busClosed = FALSE
  /\ published = [s \in Symbols |-> NoTick]
  /\ ticks = 0 /\ calls = 0

-----------------------------------------------------------------------------
(* Provider manager. Connect, Disconnect and Switch all begin by reading   *)
(* the active provider under the manager's lock, and go on without it.     *)
Begin(a, step) ==
  /\ admin[a] = Idle
  /\ calls < MaxCalls
  /\ calls' = calls + 1
  /\ admin' = [admin EXCEPT ![a] = [step |-> step, provider |-> active, todo |-> {}]]
  /\ UNCHANGED <<active, created, connected, subscribed, events, desired, target,
                 call, gatewayVars, ticks>>

(* Disconnect of the provider: it waits for its emit loop, so nothing is   *)
(* emitted once it has returned; its channel stays open and keeps what is  *)
(* buffered. Switch goes on to create the new provider.                    *)
Disconnect(a) ==
  /\ admin[a].step \in {"disconnect", "switch"}
  /\ connected' = [connected EXCEPT ![admin[a].provider] = FALSE]
  /\ admin' = [admin EXCEPT ![a] =
                IF @.step = "switch" THEN [@ EXCEPT !.step = "create"] ELSE Idle]
  /\ UNCHANGED <<active, created, subscribed, events, desired, target, call,
                 gatewayVars, ticks, calls>>

(* Switch: the registry knows no such provider, or its factory fails.      *)
CreateFails(a) ==
  /\ admin[a].step = "create"
  /\ admin' = [admin EXCEPT ![a] = Idle]
  /\ UNCHANGED <<active, created, connected, subscribed, events, desired, target,
                 call, gatewayVars, ticks, calls>>

(* Switch: the new instance becomes the active provider and the session's. *)
Replace(a, p) ==
  /\ admin[a].step = "create"
  /\ p \notin created
  /\ created' = created \union {p}
  /\ active' = p
  /\ admin' = [admin EXCEPT ![a] = [@ EXCEPT !.step = "connect", !.provider = p]]
  /\ UNCHANGED <<connected, subscribed, events, desired, target, call,
                 gatewayVars, ticks, calls>>

(* Provider.Connect; on a connected provider it returns at once.           *)
Connect(a) ==
  /\ admin[a].step = "connect"
  /\ connected' = [connected EXCEPT ![admin[a].provider] = TRUE]
  /\ admin' = [admin EXCEPT ![a].step = "recover"]
  /\ UNCHANGED <<active, created, subscribed, events, desired, target, call,
                 gatewayVars, ticks, calls>>

ConnectFails(a) ==
  /\ admin[a].step = "connect"
  /\ ~connected[admin[a].provider]
  /\ admin' = [admin EXCEPT ![a] = Idle]
  /\ UNCHANGED <<active, created, connected, subscribed, events, desired, target,
                 call, gatewayVars, ticks, calls>>

RecoverLeavingTarget(a) ==
  /\ admin[a].step = "recover"
  /\ admin' = [admin EXCEPT ![a].step = "replay", ![a].todo = desired]
  /\ UNCHANGED <<active, created, connected, subscribed, events, desired, target,
                 call, gatewayVars, ticks, calls>>

(* subscription.Manager.Recover, under its lock: redirect, copy the set.   *)
Recover(a) ==
  /\ admin[a].step = "recover"
  /\ target' = admin[a].provider
  /\ admin' = [admin EXCEPT ![a].step = "replay", ![a].todo = desired]
  /\ UNCHANGED <<active, created, connected, subscribed, events, desired, call,
                 gatewayVars, ticks, calls>>

(* The replay outside the lock, in batches of one: the finest there is.    *)
Replay(a) ==
  /\ admin[a].step = "replay"
  /\ \/ /\ admin[a].todo = {}
        /\ admin' = [admin EXCEPT ![a] = Idle]
        /\ UNCHANGED subscribed
     \/ \E s \in admin[a].todo :
          /\ subscribed' = [subscribed EXCEPT ![admin[a].provider] = @ \union {s}]
          /\ admin' = [admin EXCEPT ![a].todo = @ \ {s}]
  /\ UNCHANGED <<active, created, connected, events, desired, target, call,
                 gatewayVars, ticks, calls>>

-----------------------------------------------------------------------------
(* Subscription manager: Subscribe and Unsubscribe change the desired set  *)
(* and read the target under the lock; the provider is called without it.  *)
Subscribe(s) ==
  /\ call[s] = NoCall
  /\ calls < MaxCalls
  /\ calls' = calls + 1
  /\ desired' = desired \union {s}
  /\ call' = [call EXCEPT ![s] = [op |-> "subscribe", provider |-> target]]
  /\ UNCHANGED <<managerVars, subscribed, events, gatewayVars, ticks>>

Unsubscribe(s) ==
  /\ call[s] = NoCall
  /\ calls < MaxCalls
  /\ calls' = calls + 1
  /\ desired' = desired \ {s}
  /\ call' = [call EXCEPT ![s] = [op |-> "unsubscribe", provider |-> target]]
  /\ UNCHANGED <<managerVars, subscribed, events, gatewayVars, ticks>>

CallProvider(s) ==
  /\ call[s] # NoCall
  /\ subscribed' = [subscribed EXCEPT ![call[s].provider] =
                     IF call[s].op = "subscribe" THEN @ \union {s} ELSE @ \ {s}]
  /\ call' = [call EXCEPT ![s] = NoCall]
  /\ UNCHANGED <<managerVars, events, desired, gatewayVars, ticks, calls>>

-----------------------------------------------------------------------------
(* A provider emits a tick of a subscribed symbol if its channel has room: *)
(* the mock drops the tick otherwise, the others wait. Times may go back,  *)
(* as when the groww stream restarts from its first candle. (An emit loop  *)
(* may finish a round with the symbols it has read before Unsubscribe: a   *)
(* tick emitted earlier, as far as anybody can tell.)                      *)
Emit(p, t) ==
  /\ ticks < MaxTicks
  /\ connected[p]
  /\ t.symbol \in subscribed[p]
  /\ Len(events[p]) < Buffer
  /\ ticks' = ticks + 1
  /\ events' = [events EXCEPT ![p] = Append(@, t)]
  /\ UNCHANGED <<managerVars, subscribed, desired, call, gatewayVars, calls>>

-----------------------------------------------------------------------------
ValidUnlessOlder(t, prev) == prev = NoTick \/ t.time >= prev.time

(* Validate: not older than the last tick accepted of its symbol, and not  *)
(* that same tick again.                                                   *)
Valid(t, prev) ==
  prev = NoTick \/ t.time > prev.time \/ (t.time = prev.time /\ t.price # prev.price)

(* The loop of Engine.run: the select evaluates Events() once, when it is  *)
(* entered, and then waits for that channel or for the context.            *)
Select ==
  /\ gateway # "ended"
  /\ waiting = NoProvider /\ inHand = NoTick
  /\ waiting' = active
  /\ UNCHANGED <<managerVars, subscribed, events, desired, call, inHand, last,
                 cached, gateway, busClosed, published, ticks, calls>>

(* The select receives an event, and handle validates and caches its tick. *)
Handle ==
  /\ gateway # "ended"
  /\ waiting # NoProvider
  /\ events[waiting] # <<>>
  /\ LET t == Head(events[waiting])
     IN IF Valid(t, last[t.symbol])
          THEN /\ last' = [last EXCEPT ![t.symbol] = t]
               /\ cached' = [cached EXCEPT ![t.symbol] = t]
               /\ inHand' = t
          ELSE UNCHANGED <<last, cached, inHand>>
  /\ events' = [events EXCEPT ![waiting] = Tail(@)]
  /\ waiting' = NoProvider
  /\ UNCHANGED <<managerVars, subscribed, desired, call, gateway, busClosed,
                 published, ticks, calls>>

(* handle publishes the canonical tick: on a closed bus it would be lost.  *)
Publish ==
  /\ inHand # NoTick
  /\ published' = IF busClosed THEN published
                  ELSE [published EXCEPT ![inHand.symbol] = inHand]
  /\ inHand' = NoTick
  /\ UNCHANGED <<managerVars, subscribed, events, desired, call, waiting, last,
                 cached, gateway, busClosed, ticks, calls>>

EndBetweenEvents ==
  /\ gateway = "closing"
  /\ waiting # NoProvider
  /\ events[waiting] # <<>>
  /\ gateway' = "ended"
  /\ UNCHANGED <<managerVars, subscribed, events, desired, call, waiting, inHand,
                 last, cached, busClosed, published, ticks, calls>>

(* The select sees the cancelled context.                                  *)
End ==
  /\ gateway = "closing"
  /\ waiting # NoProvider
  /\ gateway' = "ended"
  /\ UNCHANGED <<managerVars, subscribed, events, desired, call, waiting, inHand,
                 last, cached, busClosed, published, ticks, calls>>

(* Engine.Close cancels the context ...                                    *)
Close ==
  /\ gateway = "running"
  /\ gateway' = "closing"
  /\ UNCHANGED <<managerVars, subscribed, events, desired, call, waiting, inHand,
                 last, cached, busClosed, published, ticks, calls>>

CloseBusAtOnce ==
  /\ gateway # "running"
  /\ ~busClosed
  /\ busClosed' = TRUE
  /\ UNCHANGED <<managerVars, subscribed, events, desired, call, waiting, inHand,
                 last, cached, gateway, published, ticks, calls>>

(* ... waits for the goroutine, and only then closes the bus.              *)
CloseBus ==
  /\ gateway = "ended"
  /\ ~busClosed
  /\ busClosed' = TRUE
  /\ UNCHANGED <<managerVars, subscribed, events, desired, call, waiting, inHand,
                 last, cached, gateway, published, ticks, calls>>

-----------------------------------------------------------------------------
AdminStep(a) ==
  Disconnect(a) \/ CreateFails(a) \/ (\E p \in Providers : Replace(a, p))
    \/ Connect(a) \/ ConnectFails(a) \/ Recover(a) \/ Replay(a)

GatewayStep == Select \/ Handle \/ Publish \/ End \/ CloseBus

Next ==
  \/ \E a \in Admins, step \in {"connect", "disconnect", "switch"} : Begin(a, step)
  \/ \E a \in Admins : AdminStep(a)
  \/ \E s \in Symbols : Subscribe(s) \/ Unsubscribe(s) \/ CallProvider(s)
  \/ \E p \in Providers, t \in Tick : Emit(p, t)
  \/ GatewayStep
  \/ Close

Spec == Init /\ [][Next]_vars

(* The gateway's goroutine is scheduled while it has something to do; so   *)
(* is a goroutine inside a call of a manager. Nothing forces a call, a     *)
(* tick or Close to happen.                                                *)
Fairness ==
  /\ WF_vars(GatewayStep)
  /\ \A a \in Admins : WF_vars(AdminStep(a))
  /\ \A s \in Symbols : WF_vars(CallProvider(s))

FairSpec == Spec /\ Fairness

-----------------------------------------------------------------------------
TypeOK ==
  /\ active \in created /\ created \subseteq Providers
  /\ connected \in [Providers -> BOOLEAN]
  /\ subscribed \in [Providers -> SUBSET Symbols]
  /\ \A p \in Providers : Len(events[p]) <= Buffer
  /\ \A a \in Admins : admin[a].todo \subseteq Symbols
  /\ desired \subseteq Symbols /\ target \in created
  /\ waiting \in created \union {NoProvider}
  /\ inHand \in Tick \union {NoTick}
  /\ last \in [Symbols -> Tick \union {NoTick}]
  /\ cached \in [Symbols -> Tick \union {NoTick}]
  /\ gateway \in {"running", "closing", "ended"}
  /\ ticks \in 0 .. MaxTicks /\ calls \in 0 .. MaxCalls

(* "On reconnect or provider switch, the subscription manager replays the  *)
(* desired subscriptions to the new provider instance": once the manager's *)
(* call has returned and the active provider is connected, it has every    *)
(* desired symbol whose own call has returned, however subscriptions,      *)
(* failed connects and replays interleaved.                                *)
DesiredIsSubscribed ==
  (\A a \in Admins : admin[a] = Idle) /\ connected[active] =>
    \A s \in desired : call[s] = NoCall => s \in subscribed[active]

(* A provider that was replaced is never left connected: it would go on    *)
(* emitting into a channel nobody reads.                                   *)
OnlyActiveConnected ==
  \A p \in created : connected[p] /\ p # active =>
    \E a \in Admins : admin[a] # Idle

(* Whoever receives a tick from the bus finds it, or a later one of its    *)
(* symbol, in the cache; and every tick that went into the cache is        *)
(* published, also when the gateway is closed meanwhile.                   *)
CacheMatchesBus ==
  \A s \in Symbols :
    cached[s] = IF inHand # NoTick /\ inHand.symbol = s THEN inHand ELSE published[s]

(* The ticks of a symbol on the bus never go back in time and never repeat *)
(* themselves, whichever providers they came from and however often a      *)
(* provider restarted its stream.                                          *)
Progresses(old, new) ==
  old = NoTick \/ new.time > old.time \/ (new.time = old.time /\ new.price # old.price)

FeedProgresses ==
  [][\A s \in Symbols : inHand # NoTick /\ inHand' = NoTick /\ inHand.symbol = s =>
       Progresses(published[s], inHand)]_vars

(* Engine.Close returns: the gateway ends whatever channel it waits for,   *)
(* that of a disconnected provider included, and the bus is closed.        *)
CloseReturns == gateway = "closing" ~> busClosed

(* "Provider lifecycle, reconnect, and switching are not exposed to the    *)
(* gateway": it comes round to the events of the active provider.          *)
ActiveIsRead ==
  \A p \in Providers :
    active = p /\ events[p] # <<>> ~> active # p \/ waiting = p \/ gateway # "running"

(* Subscriptions follow the provider: the active one, once connected, has  *)
(* what clients want, and a replaced one is left to nobody, whatever step  *)
(* of a switch failed and who called in between.                           *)
SubscriptionsFollow == TypeOK /\ DesiredIsSubscribed /\ OnlyActiveConnected
=============================================================================
