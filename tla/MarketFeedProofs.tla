-------------------------- MODULE MarketFeedProofs --------------------------
(***************************************************************************)
(* The feed for any providers, symbols, prices, clients and buffer sizes:  *)
(* subscriptions follow the active provider, the cache matches the bus,    *)
(* and the ticks of a symbol never go back.                                *)
(***************************************************************************)
EXTENDS MarketFeed, SequenceTheorems, TLAPS

Calls == [op : {"subscribe", "unsubscribe"}, provider : Providers] \union {NoCall}
Steps == {"disconnect", "switch", "create", "connect", "recover", "replay"}
Courses == [step : Steps, provider : Providers, todo : SUBSET Symbols] \union {Idle}

Typed ==
  /\ active \in created /\ created \subseteq Providers
  /\ connected \in [Providers -> BOOLEAN]
  /\ subscribed \in [Providers -> SUBSET Symbols]
  /\ events \in [Providers -> Seq(Tick)]
  /\ admin \in [Admins -> Courses]
  /\ \A a \in Admins : admin[a].step # "idle" => admin[a].provider \in created
  /\ call \in [Symbols -> Calls]
  /\ published \in [Symbols -> Tick \union {NoTick}]
  /\ TypeOK

(* ticks in a provider's channel are ticks, whoever takes them.            *)
LEMMA TickOfSymbol ==
  ASSUME NEW t \in Tick PROVE t.symbol \in Symbols /\ t.time \in Nat /\ t # NoTick
BY DEF Tick, NoTick

LEMMA TypedInductive == ASSUME Typed, [Next]_vars PROVE Typed'
<1> USE DEF Typed, TypeOK, managerVars, gatewayVars
<1>0. MaxTicks \in Nat /\ MaxCalls \in Nat /\ Buffer \in Nat
  BY FeedBounds
<1>1. ASSUME NEW a \in Admins, NEW step \in {"connect", "disconnect", "switch"}, Begin(a, step)
      PROVE  Typed'
  <2>1. /\ calls' = calls + 1 /\ calls < MaxCalls
        /\ admin' = [admin EXCEPT ![a] = [step |-> step, provider |-> active, todo |-> {}]]
        /\ UNCHANGED <<active, created, connected, subscribed, events, desired, target,
                       call, gatewayVars, ticks>>
    BY <1>1 DEF Begin
  <2>2. [step |-> step, provider |-> active, todo |-> {}] \in Courses
    BY DEF Courses, Steps
  <2>3. admin' \in [Admins -> Courses] /\ \A b \in Admins : admin'[b].todo \subseteq Symbols
    BY <2>1, <2>2
  <2>4. calls' \in 0 .. MaxCalls
    BY <1>0, <2>1
  <2>5. QED BY <2>1, <2>3, <2>4
<1>2. ASSUME NEW a \in Admins, AdminStep(a)
      PROVE  Typed'
  <2>0. admin[a].todo \in SUBSET Symbols
    OBVIOUS
  <2>1. ASSUME admin[a].step # "idle"
        PROVE  /\ admin[a].provider \in Providers /\ admin[a].step \in Steps
               /\ admin[a] = [step |-> admin[a].step, provider |-> admin[a].provider,
                              todo |-> admin[a].todo]
    BY <2>1 DEF Courses, Idle
  <2>2. CASE Disconnect(a)
    BY <2>0, <2>1, <2>2 DEF Disconnect, Courses, Steps, Idle
  <2>3. CASE CreateFails(a)
    BY <2>3 DEF CreateFails, Courses, Idle
  <2>4. ASSUME NEW p \in Providers, Replace(a, p) PROVE Typed'
    BY <2>0, <2>1, <2>4 DEF Replace, Courses, Steps, Idle
  <2>5. CASE Connect(a)
    BY <2>0, <2>1, <2>5 DEF Connect, Courses, Steps, Idle
  <2>6. CASE ConnectFails(a)
    BY <2>6 DEF ConnectFails, Courses, Idle
  <2>7. CASE Recover(a)
    BY <2>0, <2>1, <2>7 DEF Recover, Courses, Steps, Idle
  <2>8. CASE Replay(a)
    <3>1. CASE admin[a].todo = {} /\ admin' = [admin EXCEPT ![a] = Idle] /\ UNCHANGED subscribed
      BY <2>8, <3>1 DEF Replay, Courses, Idle
    <3>2. ASSUME NEW s \in admin[a].todo,
                 subscribed' = [subscribed EXCEPT ![admin[a].provider] = @ \union {s}],
                 admin' = [admin EXCEPT ![a].todo = @ \ {s}]
          PROVE  Typed'
      <4>1. admin[a].step = "replay" /\ UNCHANGED <<active, created, connected, events, desired,
              target, call, gatewayVars, ticks, calls>>
        BY <2>8 DEF Replay
      <4>2. [admin[a] EXCEPT !.todo = @ \ {s}] \in Courses
        BY <2>0, <2>1, <4>1 DEF Courses, Steps
      <4>3. QED BY <2>0, <2>1, <3>2, <4>1, <4>2 DEF Courses, Steps, Idle
    <3>3. QED BY <2>8, <3>1, <3>2 DEF Replay
  <2>9. QED BY <1>2, <2>2, <2>3, <2>4, <2>5, <2>6, <2>7, <2>8 DEF AdminStep
<1>3. ASSUME NEW s \in Symbols, Subscribe(s) \/ Unsubscribe(s)
      PROVE  Typed'
  <2>1. calls' = calls + 1 /\ calls < MaxCalls
    BY <1>3 DEF Subscribe, Unsubscribe
  <2>2. calls' \in 0 .. MaxCalls
    BY <1>0, <2>1
  <2>3. call' \in [Symbols -> Calls] /\ desired' \subseteq Symbols
    <3>1. target \in Providers
      OBVIOUS
    <3>2. /\ [op |-> "subscribe", provider |-> target] \in Calls
          /\ [op |-> "unsubscribe", provider |-> target] \in Calls
      BY <3>1 DEF Calls
    <3>3. QED BY <1>3, <3>2 DEF Subscribe, Unsubscribe
  <2>4. UNCHANGED <<managerVars, subscribed, events, gatewayVars, ticks>>
    BY <1>3 DEF Subscribe, Unsubscribe
  <2>5. QED BY <2>2, <2>3, <2>4
<1>4. ASSUME NEW s \in Symbols, CallProvider(s)
      PROVE  Typed'
  BY <1>4 DEF CallProvider, Calls
<1>5. ASSUME NEW p \in Providers, NEW t \in Tick, Emit(p, t)
      PROVE  Typed'
  BY <1>0, <1>5, AppendProperties DEF Emit
<1>6. CASE Select
  BY <1>6 DEF Select
<1>7. CASE Handle
  <2> DEFINE t == Head(events[waiting])
  <2>1. /\ waiting \in Providers /\ events[waiting] # <<>>
        /\ events' = [events EXCEPT ![waiting] = Tail(@)] /\ waiting' = NoProvider
        /\ UNCHANGED <<managerVars, subscribed, desired, call, gateway, busClosed,
                       published, ticks, calls>>
    BY <1>7 DEF Handle
  <2>2. t \in Tick /\ Tail(events[waiting]) \in Seq(Tick)
        /\ Len(Tail(events[waiting])) <= Buffer
    BY <1>0, <2>1, HeadTailProperties, LenProperties
  <2>3. \/ /\ last' = [last EXCEPT ![t.symbol] = t]
           /\ cached' = [cached EXCEPT ![t.symbol] = t]
           /\ inHand' = t
        \/ UNCHANGED <<last, cached, inHand>>
    BY <1>7 DEF Handle
  <2> HIDE DEF t
  <2>4. /\ last' \in [Symbols -> Tick \union {NoTick}]
        /\ cached' \in [Symbols -> Tick \union {NoTick}]
        /\ inHand' \in Tick \union {NoTick}
    <3>1. t.symbol \in Symbols
      BY <2>2, TickOfSymbol
    <3>2. CASE UNCHANGED <<last, cached, inHand>>
      BY <3>2
    <3>3. CASE /\ last' = [last EXCEPT ![t.symbol] = t]
               /\ cached' = [cached EXCEPT ![t.symbol] = t]
               /\ inHand' = t
      BY <2>2, <3>1, <3>3
    <3>4. QED BY <2>3, <3>2, <3>3
  <2>5. events' \in [Providers -> Seq(Tick)]
        /\ \A p \in Providers : Len(events'[p]) <= Buffer
    BY <2>1, <2>2
  <2>6. QED BY <2>1, <2>4, <2>5
<1>8. CASE Publish
  BY <1>8 DEF Publish
<1>9. CASE End \/ CloseBus \/ Close
  BY <1>9 DEF End, CloseBus, Close
<1>10. CASE UNCHANGED vars
  BY <1>10 DEF vars
<1>11. QED
  BY <1>1, <1>2, <1>3, <1>4, <1>5, <1>6, <1>7, <1>8, <1>9, <1>10 DEF Next, GatewayStep

(* Well-typed states: the base of the other arguments.                     *)
THEOREM Typing == Spec => []Typed
<1>1. Init => Typed
  <2> SUFFICES ASSUME Init PROVE Typed
    OBVIOUS
  <2>1. First \in Providers /\ LastTime \in Nat /\ Buffer \in Nat /\ MaxTicks \in Nat
        /\ MaxCalls \in Nat
    BY FirstProvider, FeedBounds
  <2>2. TypeOK
    BY <2>1 DEF Init, TypeOK, Idle
  <2>3. admin \in [Admins -> Courses] /\ call \in [Symbols -> Calls]
    BY DEF Init, Courses, Calls
  <2>4. events \in [Providers -> Seq(Tick)]
    BY DEF Init
  <2>5. QED BY <2>1, <2>2, <2>3, <2>4 DEF Init, Typed, Idle
<1>2. QED BY <1>1, TypedInductive, PTL DEF Spec

-----------------------------------------------------------------------------
(* With one administrator, whose calls do not overlap, only the active     *)
(* provider is ever connected: a switch disconnects the old one before it  *)
(* installs the new one. (With two, a Connect that read the old provider   *)
(* before a Switch connects it again after it.)                            *)
OneAdministrator == \A a, b \in Admins : a = b

AtWork(a, step) == admin[a].step = step

(* A call works on the active provider, and a Switch creates the new one   *)
(* with the old disconnected.                                              *)
OnActive ==
  /\ \A a \in Admins : admin[a].step # "idle" => admin[a].provider = active
  /\ \A p \in Providers : connected[p] => p = active
  /\ \A a \in Admins : AtWork(a, "create") => ~connected[active]

(* What clients want of the active provider is subscribed, still to be     *)
(* replayed, or asked of it by a call on its way.                          *)
Covered(s) ==
  \/ s \in subscribed[active]
  \/ \E a \in Admins : AtWork(a, "replay") /\ s \in admin[a].todo
  \/ call[s] = [op |-> "subscribe", provider |-> active]

Follows ==
  connected[active] /\ (\A a \in Admins : ~AtWork(a, "recover")) =>
    target = active /\ \A s \in desired : Covered(s)

(* Who unsubscribes no longer wants the symbol.                            *)
Unwanted == \A s \in Symbols : call[s].op = "unsubscribe" => s \notin desired

FollowInv == OnActive /\ Follows /\ Unwanted

LEMMA OnActiveInductive ==
  ASSUME OneAdministrator, Typed, OnActive, [Next]_vars
  PROVE  OnActive'
<1> USE DEF OnActive, AtWork, managerVars, gatewayVars
<1>0. /\ active \in Providers /\ active \in created /\ connected \in [Providers -> BOOLEAN]
      /\ admin \in [Admins -> Courses]
      /\ \A a, b \in Admins : a = b
  BY DEF Typed, OneAdministrator
<1>1. ASSUME NEW a \in Admins, NEW step \in {"connect", "disconnect", "switch"}, Begin(a, step)
      PROVE  OnActive'
  BY <1>0, <1>1 DEF Begin
<1>2. ASSUME NEW a \in Admins, AdminStep(a)
      PROVE  OnActive'
  <2>1. CASE Disconnect(a)
    <3>1. /\ admin[a].step # "idle" /\ admin[a].provider = active
          /\ connected' = [connected EXCEPT ![active] = FALSE]
          /\ UNCHANGED active
      BY <2>1 DEF Disconnect
    <3>2. admin'[a] = Idle \/ admin'[a] = [admin[a] EXCEPT !.step = "create"]
      BY <1>0, <2>1 DEF Disconnect
    <3>3. admin'[a].step # "idle" => admin'[a].provider = active
      BY <1>0, <3>1, <3>2 DEF Idle, Courses
    <3>4. QED BY <1>0, <3>1, <3>3
  <2>2. CASE CreateFails(a) \/ ConnectFails(a)
    BY <1>0, <2>2 DEF CreateFails, ConnectFails, Idle
  <2>3. ASSUME NEW p \in Providers, Replace(a, p) PROVE OnActive'
    <3>1. /\ p \notin created /\ active' = p /\ UNCHANGED connected /\ ~connected[active]
          /\ admin' = [admin EXCEPT ![a] = [@ EXCEPT !.step = "connect", !.provider = p]]
      BY <2>3 DEF Replace
    <3>2. admin'[a].step = "connect" /\ admin'[a].provider = p
      BY <1>0, <3>1 DEF Courses, Idle
    <3>3. \A q \in Providers : ~connected[q]
      BY <1>0, <3>1
    <3>4. QED BY <1>0, <3>1, <3>2, <3>3
  <2>4. CASE Connect(a)
    <3>1. /\ admin[a].provider = active /\ connected' = [connected EXCEPT ![active] = TRUE]
          /\ admin' = [admin EXCEPT ![a].step = "recover"] /\ UNCHANGED active
      BY <2>4 DEF Connect
    <3>2. admin'[a].step = "recover" /\ admin'[a].provider = active
      BY <1>0, <3>1 DEF Courses, Idle
    <3>3. QED BY <1>0, <3>1, <3>2
  <2>5. CASE Recover(a) \/ Replay(a)
    <3>1. /\ admin[a].provider = active /\ UNCHANGED <<active, connected>>
      BY <2>5 DEF Recover, Replay
    <3>2. admin[a] = [step |-> admin[a].step, provider |-> active, todo |-> admin[a].todo]
      BY <1>0, <2>5, <3>1 DEF Recover, Replay, Courses, Idle
    <3>3. ASSUME NEW todo, admin' = [admin EXCEPT ![a].step = "replay", ![a].todo = todo]
          PROVE  admin'[a].step = "replay" /\ admin'[a].provider = active
      BY <1>0, <3>2, <3>3
    <3>4. \/ admin'[a] = Idle
          \/ admin'[a].step = "replay" /\ admin'[a].provider = active
      <4>1. CASE Recover(a)
        BY <3>3, <4>1 DEF Recover
      <4>2. CASE Replay(a)
        <5>1. /\ admin[a].step = "replay"
              /\ \/ admin' = [admin EXCEPT ![a] = Idle]
                 \/ \E s \in admin[a].todo : admin' = [admin EXCEPT ![a].todo = @ \ {s}]
          BY <4>2 DEF Replay
        <5>2. CASE admin' = [admin EXCEPT ![a] = Idle]
          BY <1>0, <5>2
        <5>3. ASSUME NEW s \in admin[a].todo, admin' = [admin EXCEPT ![a].todo = @ \ {s}]
              PROVE  admin'[a].step = "replay" /\ admin'[a].provider = active
          BY <1>0, <3>2, <5>1, <5>3
        <5>4. QED BY <5>1, <5>2, <5>3
      <4>3. QED BY <2>5, <4>1, <4>2
    <3>5. \A b \in Admins : b = a
      BY <1>0
    <3>6. QED BY <3>1, <3>4, <3>5 DEF Idle
  <2>6. QED BY <1>2, <2>1, <2>2, <2>3, <2>4, <2>5 DEF AdminStep
<1>3. CASE UNCHANGED <<active, connected, admin>>
  BY <1>3
<1>4. QED
  BY <1>1, <1>2, <1>3
     DEF Next, GatewayStep, Subscribe, Unsubscribe, CallProvider, Emit, Select, Handle,
         Publish, End, CloseBus, Close, vars

LEMMA UnwantedInductive ==
  ASSUME Typed, Unwanted, [Next]_vars
  PROVE  Unwanted'
<1> USE DEF Unwanted, managerVars, gatewayVars
<1>1. call \in [Symbols -> Calls]
  BY DEF Typed
<1>2. ASSUME NEW s \in Symbols, Subscribe(s) \/ Unsubscribe(s) \/ CallProvider(s)
      PROVE  Unwanted'
  BY <1>1, <1>2 DEF Subscribe, Unsubscribe, CallProvider, NoCall
<1>3. CASE UNCHANGED <<desired, call>>
  BY <1>3
<1>4. QED
  BY <1>2, <1>3
     DEF Next, GatewayStep, Begin, AdminStep, Disconnect, CreateFails, Replace, Connect,
         ConnectFails, Recover, Replay, Emit, Select, Handle, Publish, End, CloseBus, Close,
         vars

LEMMA FollowsInductive ==
  ASSUME OneAdministrator, Typed, FollowInv, [Next]_vars
  PROVE  Follows'
<1> USE DEF AtWork, managerVars, gatewayVars
<1>0. /\ active \in Providers /\ active \in created /\ connected \in [Providers -> BOOLEAN]
      /\ admin \in [Admins -> Courses] /\ subscribed \in [Providers -> SUBSET Symbols]
      /\ call \in [Symbols -> Calls] /\ desired \subseteq Symbols
      /\ \A a, b \in Admins : a = b
  BY DEF Typed, TypeOK, OneAdministrator
<1>1. ASSUME NEW a \in Admins, NEW step \in {"connect", "disconnect", "switch"}, Begin(a, step)
      PROVE  Follows'
  <2>1. /\ admin[a] = Idle /\ admin'[a].step # "recover" /\ admin'[a].step # "replay"
        /\ UNCHANGED <<active, connected, subscribed, desired, target, call>>
    BY <1>0, <1>1 DEF Begin
  <2>2. QED BY <1>0, <2>1 DEF FollowInv, Follows, Covered, Idle
<1>2. ASSUME NEW a \in Admins, AdminStep(a)
      PROVE  Follows'
  <2>0. admin[a].step # "idle" => admin[a].provider = active
    BY DEF FollowInv, OnActive
  <2>1. CASE Disconnect(a)
    BY <1>0, <2>0, <2>1 DEF Disconnect, Follows
  <2>2. CASE CreateFails(a) \/ ConnectFails(a)
    <3>1. ~connected[active] /\ UNCHANGED <<connected, active>>
      BY <2>0, <2>2 DEF CreateFails, ConnectFails, FollowInv, OnActive
    <3>2. QED BY <3>1 DEF Follows
  <2>3. ASSUME NEW p \in Providers, Replace(a, p) PROVE Follows'
    <3>1. ~connected[p] /\ active' = p /\ UNCHANGED connected
      BY <1>0, <2>3 DEF Replace, FollowInv, OnActive
    <3>2. QED BY <3>1 DEF Follows
  <2>4. CASE Connect(a)
    <3>1. admin'[a].step = "recover"
      BY <1>0, <2>4 DEF Connect, Courses, Idle
    <3>2. QED BY <3>1 DEF Follows
  <2>5. CASE Recover(a)
    <3>1. /\ target' = active /\ UNCHANGED <<active, desired>>
          /\ admin'[a].step = "replay" /\ admin'[a].todo = desired
      BY <1>0, <2>0, <2>5 DEF Recover, Courses, Idle
    <3>2. QED BY <3>1 DEF Follows, Covered
  <2>6. CASE Replay(a)
    <3>1. /\ admin[a].step = "replay" /\ admin[a].provider = active
          /\ UNCHANGED <<active, connected, desired, target, call>>
      BY <2>0, <2>6 DEF Replay
    <3>2. \A b \in Admins : ~AtWork(b, "recover")
      BY <1>0, <3>1
    <3>3. ASSUME NEW s \in Symbols, Covered(s) PROVE Covered(s)'
      <4>1. CASE admin[a].todo = {}
        <5>1. UNCHANGED subscribed
          BY <2>6, <4>1 DEF Replay
        <5>2. QED BY <1>0, <3>1, <3>3, <4>1, <5>1 DEF Covered
      <4>2. ASSUME NEW t \in admin[a].todo,
                   subscribed' = [subscribed EXCEPT ![admin[a].provider] = @ \union {t}],
                   admin' = [admin EXCEPT ![a].todo = @ \ {t}]
            PROVE  Covered(s)'
        <5>1. /\ subscribed'[active] = subscribed[active] \union {t}
              /\ admin'[a].step = "replay" /\ admin'[a].todo = admin[a].todo \ {t}
          BY <1>0, <3>1, <4>2 DEF Courses, Idle
        <5>2. QED BY <1>0, <3>1, <3>3, <5>1 DEF Covered
      <4>3. QED BY <2>6, <4>1, <4>2 DEF Replay
    <3>4. QED BY <1>0, <3>1, <3>2, <3>3 DEF FollowInv, Follows
  <2>7. QED BY <1>2, <2>1, <2>2, <2>3, <2>4, <2>5, <2>6 DEF AdminStep
<1>3. ASSUME NEW s \in Symbols, Subscribe(s)
      PROVE  Follows'
  <2>1. /\ call[s] = NoCall /\ desired' = desired \union {s}
        /\ call' = [call EXCEPT ![s] = [op |-> "subscribe", provider |-> target]]
        /\ UNCHANGED <<active, connected, subscribed, target, admin>>
    BY <1>3 DEF Subscribe
  <2>2. QED BY <1>0, <2>1 DEF FollowInv, Follows, Covered
<1>4. ASSUME NEW s \in Symbols, Unsubscribe(s)
      PROVE  Follows'
  <2>1. /\ call[s] = NoCall /\ desired' = desired \ {s}
        /\ \A t \in Symbols : t # s => call'[t] = call[t]
        /\ UNCHANGED <<active, connected, subscribed, target, admin>>
    BY <1>0, <1>4 DEF Unsubscribe
  <2>2. QED BY <1>0, <2>1 DEF FollowInv, Follows, Covered
<1>5. ASSUME NEW s \in Symbols, CallProvider(s)
      PROVE  Follows'
  <2>1. /\ call[s] # NoCall
        /\ subscribed' = [subscribed EXCEPT ![call[s].provider] =
                           IF call[s].op = "subscribe" THEN @ \union {s} ELSE @ \ {s}]
        /\ \A t \in Symbols : t # s => call'[t] = call[t]
        /\ UNCHANGED <<active, connected, desired, target, admin>>
    BY <1>0, <1>5 DEF CallProvider
  <2>2. call[s].op \in {"subscribe", "unsubscribe"}
    BY <1>0, <2>1 DEF Calls
  <2>3. ASSUME NEW t \in desired, Covered(t) PROVE Covered(t)'
    <3>1. CASE t # s
      <4>1. t \in subscribed[active] => t \in subscribed'[active]
        BY <1>0, <2>1, <3>1
      <4>2. QED BY <1>0, <2>1, <2>3, <3>1, <4>1 DEF Covered
    <3>2. CASE t = s
      <4>1. call[s].op = "subscribe"
        BY <1>0, <2>2, <3>2 DEF FollowInv, Unwanted
      <4>2. \/ s \in subscribed[active] \/ call[s].provider = active => s \in subscribed'[active]
        BY <1>0, <2>1, <4>1
      <4>3. s \in subscribed[active] => s \in subscribed'[active]
        BY <1>0, <2>1, <4>1
      <4>4. QED BY <2>1, <2>3, <3>2, <4>2, <4>3 DEF Covered
    <3>3. QED BY <3>1, <3>2
  <2>4. QED BY <2>1, <2>3 DEF FollowInv, Follows
<1>6. CASE UNCHANGED <<active, connected, subscribed, target, desired, admin, call>>
  BY <1>6 DEF FollowInv, Follows, Covered
<1>7. QED
  BY <1>1, <1>2, <1>3, <1>4, <1>5, <1>6
     DEF Next, GatewayStep, Emit, Select, Handle, Publish, End, CloseBus, Close, vars

(* Subscriptions follow the provider, for any providers and symbols and    *)
(* whatever step of a switch fails, when the calls of the manager do not   *)
(* overlap.                                                                *)
THEOREM Followed == OneAdministrator => (Spec => []SubscriptionsFollow)
<1> SUFFICES ASSUME OneAdministrator PROVE Spec => []SubscriptionsFollow
  OBVIOUS
<1>1. Init => FollowInv
  BY FirstProvider DEF Init, FollowInv, OnActive, Follows, Unwanted, AtWork, Idle, NoCall
<1>2. Typed /\ FollowInv /\ [Next]_vars => FollowInv'
  BY OnActiveInductive, FollowsInductive, UnwantedInductive DEF FollowInv
<1>3. Typed /\ FollowInv => SubscriptionsFollow
  <2> SUFFICES ASSUME Typed, FollowInv PROVE SubscriptionsFollow
    OBVIOUS
  <2>1. TypeOK /\ active \in Providers /\ call \in [Symbols -> Calls]
    BY DEF Typed
  <2>2. DesiredIsSubscribed
    <3> SUFFICES ASSUME \A a \in Admins : admin[a] = Idle, connected[active],
                        NEW s \in desired, call[s] = NoCall
                 PROVE  s \in subscribed[active]
      BY DEF DesiredIsSubscribed
    <3>1. \A a \in Admins : ~AtWork(a, "recover") /\ ~AtWork(a, "replay")
      BY DEF AtWork, Idle
    <3>2. Covered(s)
      BY <3>1 DEF FollowInv, Follows
    <3>3. QED BY <3>1, <3>2 DEF Covered, NoCall
  <2>3. OnlyActiveConnected
    BY DEF OnlyActiveConnected, FollowInv, OnActive, Typed
  <2>4. QED BY <2>1, <2>2, <2>3 DEF SubscriptionsFollow
<1>4. QED BY <1>1, <1>2, <1>3, Typing, PTL DEF Spec

-----------------------------------------------------------------------------
(* Between the validator and the bus: a tick is cached before it is        *)
(* published, one at a time, and the bus closes with none in between.      *)
OneInHand ==
  /\ inHand # NoTick => waiting = NoProvider /\ gateway # "ended"
  /\ busClosed => gateway = "ended"
  /\ last = cached

InHandProgresses == inHand # NoTick => Progresses(published[inHand.symbol], inHand)

CacheInv == OneInHand /\ CacheMatchesBus /\ InHandProgresses

LEMMA CacheInductive ==
  ASSUME Typed, CacheInv, [Next]_vars
  PROVE  CacheInv'
<1> USE DEF managerVars, gatewayVars
<1>0. /\ events \in [Providers -> Seq(Tick)] /\ created \subseteq Providers
      /\ waiting \in created \union {NoProvider}
      /\ inHand \in Tick \union {NoTick}
      /\ last \in [Symbols -> Tick \union {NoTick}]
      /\ cached \in [Symbols -> Tick \union {NoTick}]
  BY DEF Typed, TypeOK
<1>1. CASE Handle
  <2> DEFINE t == Head(events[waiting])
  <2>1. /\ waiting # NoProvider /\ gateway # "ended" /\ events[waiting] # <<>>
        /\ waiting' = NoProvider /\ UNCHANGED <<gateway, busClosed, published>>
        /\ IF Valid(t, last[t.symbol])
             THEN /\ last' = [last EXCEPT ![t.symbol] = t]
                  /\ cached' = [cached EXCEPT ![t.symbol] = t]
                  /\ inHand' = t
             ELSE UNCHANGED <<last, cached, inHand>>
    BY <1>1 DEF Handle
  <2>2. t \in Tick
    BY <1>0, <2>1, HeadTailProperties
  <2> HIDE DEF t
  <2>3. t.symbol \in Symbols /\ t # NoTick
    BY <2>2, TickOfSymbol
  <2>4. inHand = NoTick /\ last = cached /\ \A s \in Symbols : cached[s] = published[s]
    BY <2>1 DEF CacheInv, OneInHand, CacheMatchesBus
  <2>5. CASE Valid(t, last[t.symbol])
    <3>1. OneInHand'
      BY <2>1, <2>4, <2>5 DEF CacheInv, OneInHand
    <3>2. CacheMatchesBus'
      BY <1>0, <2>1, <2>3, <2>4, <2>5 DEF CacheMatchesBus
    <3>3. InHandProgresses'
      BY <2>1, <2>3, <2>4, <2>5 DEF InHandProgresses, Valid, Progresses
    <3>4. QED BY <3>1, <3>2, <3>3 DEF CacheInv
  <2>6. CASE ~Valid(t, last[t.symbol])
    BY <2>1, <2>4, <2>6 DEF CacheInv, OneInHand, CacheMatchesBus, InHandProgresses
  <2>7. QED BY <2>5, <2>6
<1>2. CASE Publish
  <2>1. /\ inHand # NoTick /\ inHand' = NoTick /\ UNCHANGED <<last, cached, waiting, gateway, busClosed>>
        /\ published' = IF busClosed THEN published
                        ELSE [published EXCEPT ![inHand.symbol] = inHand]
    BY <1>2 DEF Publish
  <2>2. ~busClosed /\ last = cached
    BY <2>1 DEF CacheInv, OneInHand
  <2>3. CacheMatchesBus'
    <3>1. \A s \in Symbols :
            cached[s] = IF inHand.symbol = s THEN inHand ELSE published[s]
      BY <2>1 DEF CacheInv, CacheMatchesBus
    <3>2. inHand.symbol \in Symbols /\ published \in [Symbols -> Tick \union {NoTick}]
      BY <1>0, <2>1, TickOfSymbol DEF Typed
    <3>3. QED BY <2>1, <2>2, <3>1, <3>2 DEF CacheMatchesBus
  <2>4. QED BY <2>1, <2>2, <2>3 DEF CacheInv, OneInHand, InHandProgresses
<1>3. CASE Select \/ End \/ CloseBus \/ Close
  BY <1>3 DEF Select, End, CloseBus, Close, CacheInv, OneInHand, CacheMatchesBus,
              InHandProgresses
<1>4. CASE UNCHANGED gatewayVars
  BY <1>4 DEF CacheInv, OneInHand, CacheMatchesBus, InHandProgresses
<1>5. QED
  BY <1>1, <1>2, <1>3, <1>4
     DEF Next, GatewayStep, Begin, AdminStep, Disconnect, CreateFails, Replace, Connect,
         ConnectFails, Recover, Replay, Subscribe, Unsubscribe, CallProvider, Emit, vars

(* Whoever receives a tick from the bus finds it or a later one in the     *)
(* cache, and what is cached is published, also when the gateway is closed *)
(* meanwhile.                                                              *)
THEOREM CacheIsBus == Spec => []CacheMatchesBus
<1>1. Init => CacheInv
  BY DEF Init, CacheInv, OneInHand, CacheMatchesBus, InHandProgresses
<1>2. CacheInv => CacheMatchesBus
  BY DEF CacheInv
<1>3. QED BY <1>1, <1>2, CacheInductive, Typing, PTL DEF Spec

(* The ticks of a symbol on the bus never go back in time and never repeat *)
(* themselves, whichever providers they came from.                         *)
THEOREM NeverBack == Spec => FeedProgresses
<1>1. Init => CacheInv
  BY DEF Init, CacheInv, OneInHand, CacheMatchesBus, InHandProgresses
<1>2. CacheInv => (\A s \in Symbols : inHand # NoTick /\ inHand' = NoTick /\ inHand.symbol = s =>
                     Progresses(published[s], inHand))
  BY DEF CacheInv, InHandProgresses
<1>3. QED BY <1>1, <1>2, CacheInductive, Typing, PTL DEF Spec, FeedProgresses
=============================================================================
