----------------------------- MODULE RuntimeProofs -----------------------------
(***************************************************************************)
(* What Runtime promises of start and shutdown, whatever engines are       *)
(* enabled, however large their buffers are and whatever they publish.     *)
(*                                                                         *)
(* Not every engine is started after those that consume its events: the    *)
(* alerts go before the delivery engine. No event is missed because all    *)
(* that is published comes of what the gateway publishes first, and the    *)
(* gateway is started after every engine that subscribes to the bus        *)
(* (FedByGateway, GatewayLast). No event is left behind because the        *)
(* gateway is closed first and closes the bus: an engine that ended in the *)
(* shutdown is sent nothing more (Drained).                                *)
(*                                                                         *)
(* And what Feeds promises of the streams the historical providers start   *)
(* with, for every file and every answer: they share no state with the     *)
(* rest, and come after it.                                                *)
(***************************************************************************)
EXTENDS Runtime, Feeds, SequenceTheorems, FiniteSetTheorems, WellFoundedInduction, TLAPS

-----------------------------------------------------------------------------
(* The orders of the container name every engine; StartRuntime ends with   *)
(* the gateway and the provider, and Close begins with the gateway.        *)
LEMMA Orders ==
  /\ Len(StartOrder) = 22 /\ Len(CloseOrder) = 22
  /\ \A e \in Engines : \E n \in 1 .. 22 : StartOrder[n] = e
  /\ \A n \in 1 .. 20 : StartOrder[n] # "gateway"
  /\ StartOrder[21] = "gateway" /\ StartOrder[22] = "provider"
  /\ CloseOrder[1] = "gateway"
<1>1. /\ Len(StartOrder) = 22 /\ Len(CloseOrder) = 22
      /\ StartOrder[21] = "gateway" /\ StartOrder[22] = "provider"
      /\ CloseOrder[1] = "gateway"
  BY DEF StartOrder, CloseOrder
<1>2. \A e \in Engines : \E n \in 1 .. 22 : StartOrder[n] = e
  BY SMTT(60) DEF Engines, StartOrder, Consumes
<1>3. \A n \in 1 .. 20 : StartOrder[n] # "gateway"
  BY SMTT(60) DEF StartOrder
<1> QED
  BY <1>1, <1>2, <1>3

(* The provider's ticks go to the gateway alone, and the provider is fed   *)
(* by nothing.                                                             *)
LEMMA OnlyGatewayReadsTicks ==
  \A e \in Engines : ("raw" \in Consumes[e] => e = "gateway") /\ Consumes["provider"] = {}
BY SMTT(60) DEF Engines, Consumes

(* A publication reaches no engine whose goroutine ended with the bus      *)
(* closed, overflows no buffer, and leaves engines that do not consume it. *)
LEMMA DeliveredBounds ==
  ASSUME NEW kind, NEW before \in [Enabled -> 0 .. Buffer]
  PROVE  /\ Delivered(kind, before) \in [Enabled -> 0 .. Buffer]
         /\ \A e \in Enabled : ~Reaches(kind, e) => Delivered(kind, before)[e] = before[e]
BY RuntimeBounds DEF Delivered

-----------------------------------------------------------------------------
(* Type correctness of everything, relied on by all that follows.          *)
Typed ==
  /\ phase \in {"starting", "running", "closing", "closed", "exited"}
  /\ at \in 0 .. 22
  /\ engine \in [Enabled -> {"new", "running", "ended"}]
  /\ cancelled \subseteq Enabled
  /\ backlog \in [Enabled -> 0 .. Buffer]
  /\ busClosed \in BOOLEAN /\ openBar \in BOOLEAN
  /\ finalBars \in {"none", "published", "lost"}
  /\ missed = {}
  /\ ticks \in 0 .. MaxTicks

(* The engines up to the place StartRuntime has reached are started.       *)
StartedSoFar ==
  phase = "starting" =>
    \A n \in 1 .. at : StartOrder[n] \in Enabled => engine[StartOrder[n]] # "new"

(* Once the gateway is started, every engine of the bus is.                *)
GatewayLast ==
  engine["gateway"] # "new" => \A e \in Enabled \ {"provider"} : engine[e] # "new"

(* Before the gateway is started, no engine of the bus has an event, and   *)
(* the candle engine no bar.                                               *)
FedByGateway ==
  /\ \A e \in Enabled \ {"gateway"} : backlog[e] > 0 => engine["gateway"] # "new"
  /\ openBar => engine["gateway"] # "new"

(* Close begins at its first engine, and has closed the bus after it.      *)
BusClosedFirst ==
  /\ phase = "running" => at = 0
  /\ phase = "closing" /\ at > 0 => busClosed

(* An engine is cancelled after the bus is closed, all but the gateway.    *)
CancelledLate == \A e \in cancelled \ {"gateway"} : busClosed

(* An engine that drains its channel ended with the bus closed, so that    *)
(* the channel stays empty.                                                *)
Drained ==
  \A e \in Enabled \ {"gateway", "candle"} :
    engine[e] = "ended" => backlog[e] = 0 /\ busClosed

RuntimeInv ==
  /\ Typed /\ StartedSoFar /\ GatewayLast /\ FedByGateway
  /\ BusClosedFirst /\ CancelledLate /\ Drained /\ ClosedIsQuiet

LEMMA RuntimeInvInit == Init => RuntimeInv
<1> SUFFICES ASSUME Init PROVE RuntimeInv
  OBVIOUS
<1> USE SomeEngines DEF Init
<1>1. Typed
  <2>1. engine \in [Enabled -> {"new", "running", "ended"}]
    OBVIOUS
  <2>2. backlog \in [Enabled -> 0 .. Buffer]
    BY RuntimeBounds
  <2>3. ticks \in 0 .. MaxTicks /\ at \in 0 .. 22
    BY RuntimeBounds
  <2>4. cancelled \subseteq Enabled
    OBVIOUS
  <2>5. phase \in {"starting", "running", "closing", "closed", "exited"}
    OBVIOUS
  <2>6. busClosed \in BOOLEAN /\ openBar \in BOOLEAN
    OBVIOUS
  <2>7. finalBars \in {"none", "published", "lost"} /\ missed = {}
    OBVIOUS
  <2> HIDE DEF Init
  <2> QED
    BY <2>1, <2>2, <2>3, <2>4, <2>5, <2>6, <2>7 DEF Typed
<1>2. StartedSoFar /\ GatewayLast /\ FedByGateway
  BY DEF StartedSoFar, GatewayLast, FedByGateway
<1>3. BusClosedFirst /\ CancelledLate /\ Drained
  BY DEF BusClosedFirst, CancelledLate, Drained
<1>4. ClosedIsQuiet
  BY DEF ClosedIsQuiet, ClosedEngines
<1> QED
  BY <1>1, <1>2, <1>3, <1>4 DEF RuntimeInv

-----------------------------------------------------------------------------
LEMMA StartKeeps == RuntimeInv /\ Start => RuntimeInv'
<1> SUFFICES ASSUME RuntimeInv, Start PROVE RuntimeInv'
  OBVIOUS
<1> USE SomeEngines DEF RuntimeInv
<1>1. PICK n \in at + 1 .. 22 :
        /\ NextIn(StartOrder, n)
        /\ engine' = [engine EXCEPT ![StartOrder[n]] = "running"]
        /\ at' = n
  BY Orders DEF Start
<1>2. n \in 1 .. 22 /\ StartOrder[n] \in Enabled
        /\ \A m \in at + 1 .. n - 1 : StartOrder[m] \notin Enabled
  BY <1>1 DEF NextIn, Skipped, Typed
<1>3. phase = "starting"
        /\ UNCHANGED <<phase, cancelled, backlog, busClosed, openBar, finalBars, missed, ticks>>
  BY DEF Start
<1>4. \A e \in Enabled : engine[e] # "new" => engine'[e] # "new"
  BY <1>1 DEF Typed
<1>5. Typed'
  BY <1>1, <1>2, <1>3 DEF Typed
<1>6. StartedSoFar'
  <2> SUFFICES ASSUME NEW m \in 1 .. n, StartOrder[m] \in Enabled
               PROVE  engine'[StartOrder[m]] # "new"
    BY <1>1, <1>3 DEF StartedSoFar
  <2>1. CASE m = n
    BY <1>1, <1>2, <2>1 DEF Typed
  <2>2. CASE m # n
    <3>1. m \in 1 .. at
      BY <1>2, <2>2 DEF Typed
    <3> QED
      BY <1>3, <1>4, <3>1 DEF StartedSoFar
  <2> QED
    BY <2>1, <2>2
<1>7. GatewayLast'
  <2> SUFFICES ASSUME engine'["gateway"] # "new", NEW e \in Enabled \ {"provider"}
               PROVE  engine'[e] # "new"
    BY DEF GatewayLast
  <2>1. CASE engine["gateway"] # "new"
    BY <1>4, <2>1 DEF GatewayLast
  <2>2. CASE engine["gateway"] = "new"
    <3>1. StartOrder[n] = "gateway"
      BY <1>1, <2>2 DEF Typed
    <3>2. n > 20
      BY <1>2, <3>1, Orders
    <3>3. PICK m \in 1 .. 22 : StartOrder[m] = e
      BY Orders
    <3>4. m # 22
      BY <3>3, Orders
    <3>5. m \in 1 .. n
      BY <1>2, <3>2, <3>4
    <3> QED
      BY <1>1, <1>3, <1>6, <3>3, <3>5 DEF StartedSoFar
  <2> QED
    BY <2>1, <2>2
<1>8. FedByGateway'
  BY <1>3, <1>4 DEF FedByGateway
<1>9. Drained'
  BY <1>1, <1>3 DEF Drained, Typed
<1> QED
  BY <1>3, <1>5, <1>6, <1>7, <1>8, <1>9
  DEF BusClosedFirst, CancelledLate, ClosedIsQuiet, ClosedEngines

-----------------------------------------------------------------------------
(* The other steps of the container change neither engines nor channels,   *)
(* except that closing the candle engine may publish its last bars.        *)
LEMMA MainSwitchKeeps ==
  RuntimeInv /\ (Started \/ StartFails \/ ServerFails \/ Shutdown \/ AllClosed) => RuntimeInv'
<1> SUFFICES ASSUME RuntimeInv, Started \/ StartFails \/ ServerFails \/ Shutdown \/ AllClosed
             PROVE  RuntimeInv'
  OBVIOUS
<1> USE DEF RuntimeInv
<1>1. UNCHANGED <<engine, cancelled, backlog, busClosed, openBar, finalBars, missed, ticks>>
  BY DEF Started, StartFails, ServerFails, Shutdown, AllClosed
<1>2. phase' # "starting"
        /\ (at' = at \/ (phase' = "running" /\ at' = 0))
        /\ (phase' = "running" => at' = 0)
        /\ (phase' = "closing" => at' = 0)
        /\ (phase' = "closed" => phase = "closing" /\ at' = at)
        /\ phase' \in {"running", "closing", "closed", "exited"}
  <2>1. CASE Started
    BY <2>1 DEF Started
  <2>2. CASE StartFails \/ ServerFails
    BY <2>2 DEF StartFails, ServerFails
  <2>3. CASE Shutdown
    BY <2>3 DEF Shutdown, BusClosedFirst
  <2>4. CASE AllClosed
    BY <2>4 DEF AllClosed
  <2> QED
    BY <2>1, <2>2, <2>3, <2>4
<1>3. Typed'
  BY <1>1, <1>2 DEF Typed
<1>4. StartedSoFar' /\ GatewayLast' /\ FedByGateway' /\ CancelledLate' /\ Drained'
  BY <1>1, <1>2 DEF StartedSoFar, GatewayLast, FedByGateway, CancelledLate, Drained
<1>5. BusClosedFirst'
  BY <1>1, <1>2 DEF BusClosedFirst
<1>6. ClosedIsQuiet'
  BY <1>1, <1>2 DEF ClosedIsQuiet, ClosedEngines
<1> QED
  BY <1>3, <1>4, <1>5, <1>6

LEMMA CancelKeeps == RuntimeInv /\ Cancel => RuntimeInv'
<1> SUFFICES ASSUME RuntimeInv, Cancel PROVE RuntimeInv'
  OBVIOUS
<1> USE SomeEngines DEF RuntimeInv
<1>1. PICK n \in at + 1 .. 22 :
        NextIn(CloseOrder, n) /\ cancelled' = cancelled \union {CloseOrder[n]}
  BY Orders DEF Cancel
<1>2. phase = "closing"
        /\ UNCHANGED <<phase, at, engine, backlog, busClosed, openBar, finalBars, missed, ticks>>
  BY DEF Cancel
<1>3. CloseOrder[n] = "gateway" \/ busClosed
  <2>1. CASE at = 0
    BY <1>1, <2>1, Orders DEF NextIn, Skipped
  <2>2. CASE at > 0
    BY <1>2, <2>2 DEF BusClosedFirst
  <2> QED
    BY <2>1, <2>2 DEF Typed
<1>4. Typed'
  BY <1>1, <1>2 DEF Typed, NextIn
<1>5. CancelledLate'
  BY <1>1, <1>2, <1>3 DEF CancelledLate
<1> QED
  BY <1>2, <1>4, <1>5
  DEF StartedSoFar, GatewayLast, FedByGateway, BusClosedFirst, Drained, ClosedIsQuiet, ClosedEngines

LEMMA ClosedKeeps == RuntimeInv /\ Closed => RuntimeInv'
<1> SUFFICES ASSUME RuntimeInv, Closed PROVE RuntimeInv'
  OBVIOUS
<1> USE SomeEngines DEF RuntimeInv
<1>1. PICK n \in at + 1 .. 22 :
        /\ NextIn(CloseOrder, n)
        /\ engine[CloseOrder[n]] = "ended"
        /\ at' = n
        /\ Proceed(CloseOrder[n])
  BY Orders DEF Closed
<1>2. phase = "closing" /\ UNCHANGED <<phase, engine, cancelled, missed, ticks>>
  BY <1>1 DEF Closed, Proceed
<1>3. n \in 1 .. 22 /\ CloseOrder[n] \in Enabled
        /\ \A m \in at + 1 .. n - 1 : CloseOrder[m] \notin Enabled
  BY <1>1 DEF NextIn, Skipped, Typed
<1>4. busClosed' = (busClosed \/ CloseOrder[n] = "gateway")
  BY <1>1 DEF Proceed
<1>5. busClosed'
  <2>1. CASE at = 0
    <3>1. n = 1
      <4> SUFFICES ASSUME n # 1 PROVE FALSE
        OBVIOUS
      <4>1. 1 \in at + 1 .. n - 1
        BY <1>3, <2>1
      <4> QED
        BY <1>3, <4>1, Orders
    <3> QED
      BY <1>4, <3>1, Orders
  <2>2. CASE at > 0
    BY <1>2, <1>4, <2>2 DEF BusClosedFirst
  <2> QED
    BY <2>1, <2>2 DEF Typed
<1>6. backlog' = backlog \/ backlog' = Delivered("candle", backlog)
  BY <1>1 DEF Proceed
<1>7. (openBar' => openBar) /\ (backlog' # backlog => openBar)
  BY <1>1 DEF Proceed
<1>8. openBar' \in BOOLEAN /\ finalBars' \in {"none", "published", "lost"}
  BY <1>1 DEF Proceed, Typed
<1>9. backlog' \in [Enabled -> 0 .. Buffer]
        /\ \A e \in Enabled : backlog'[e] > backlog[e] => engine[e] # "new" /\ ~busClosed
  BY <1>6, RuntimeBounds DEF Delivered, Reaches, Typed
<1>10. Typed'
  BY <1>1, <1>2, <1>3, <1>5, <1>8, <1>9 DEF Typed
<1>11. StartedSoFar' /\ CancelledLate'
  BY <1>2, <1>5 DEF StartedSoFar, CancelledLate
<1>12. GatewayLast' /\ FedByGateway'
  BY <1>2, <1>7 DEF GatewayLast, FedByGateway
<1>13. BusClosedFirst'
  BY <1>2, <1>5 DEF BusClosedFirst
<1>14. Drained'
  BY <1>2, <1>5, <1>9 DEF Drained, Typed
<1>15. ClosedIsQuiet'
  <2> SUFFICES ASSUME NEW i \in 1 .. n, CloseOrder[i] \in Enabled
               PROVE  engine[CloseOrder[i]] = "ended"
    BY <1>1, <1>2 DEF ClosedIsQuiet, ClosedEngines
  <2>1. CASE i = n
    BY <1>1, <2>1
  <2>2. CASE i # n
    <3>1. i \in 1 .. at
      BY <1>3, <2>2 DEF Typed
    <3> QED
      BY <1>2, <3>1 DEF ClosedIsQuiet, ClosedEngines
  <2> QED
    BY <2>1, <2>2
<1> QED
  BY <1>10, <1>11, <1>12, <1>13, <1>14, <1>15

-----------------------------------------------------------------------------
(* The steps of the provider and of the engines.                           *)

LEMMA EmitKeeps == RuntimeInv /\ Emit => RuntimeInv'
<1> SUFFICES ASSUME RuntimeInv, Emit PROVE RuntimeInv'
  OBVIOUS
<1> USE SomeEngines DEF RuntimeInv
<1>1. /\ ticks' \in 0 .. MaxTicks
      /\ backlog' = Delivered("raw", backlog)
      /\ UNCHANGED <<phase, at, engine, cancelled, busClosed, openBar, finalBars, missed>>
  BY RuntimeBounds DEF Emit, Typed
<1>2. /\ backlog' \in [Enabled -> 0 .. Buffer]
      /\ \A e \in Enabled \ {"gateway"} : backlog'[e] = backlog[e]
  BY <1>1, DeliveredBounds, OnlyGatewayReadsTicks DEF Reaches, Typed
<1>3. Typed'
  BY <1>1, <1>2 DEF Typed
<1>4. StartedSoFar' /\ GatewayLast' /\ FedByGateway'
  BY <1>1, <1>2 DEF StartedSoFar, GatewayLast, FedByGateway
<1>5. BusClosedFirst' /\ CancelledLate' /\ Drained'
  BY <1>1, <1>2 DEF BusClosedFirst, CancelledLate, Drained
<1>6. ClosedIsQuiet'
  BY <1>1 DEF ClosedIsQuiet, ClosedEngines
<1> QED
  BY <1>3, <1>4, <1>5, <1>6

LEMMA HandleKeeps ==
  ASSUME RuntimeInv, NEW e \in Enabled, EngineHandle(e)
  PROVE  RuntimeInv'
<1> USE SomeEngines DEF RuntimeInv
<1> DEFINE taken == [backlog EXCEPT ![e] = @ - 1]
<1>1. /\ engine[e] = "running" /\ backlog[e] > 0
      /\ openBar' = (openBar \/ e = "candle")
      /\ UNCHANGED <<phase, at, engine, cancelled, busClosed, finalBars, ticks>>
  BY DEF EngineHandle
<1>2. \/ backlog' = taken /\ missed' = missed
      \/ /\ backlog' = Delivered(Produces[e], taken)
         /\ missed' = missed \union Missing(Produces[e])
  BY DEF EngineHandle
<1>3. engine["gateway"] # "new"
  BY <1>1 DEF FedByGateway
<1>4. Missing(Produces[e]) = {}
  BY <1>3, OnlyGatewayReadsTicks DEF GatewayLast, Missing
<1>5. taken \in [Enabled -> 0 .. Buffer] /\ \A f \in Enabled : taken[f] <= backlog[f]
  BY <1>1, RuntimeBounds DEF Typed
<1> HIDE DEF taken
<1>6. backlog' \in [Enabled -> 0 .. Buffer]
  BY <1>2, <1>5, DeliveredBounds
<1>7. \A f \in Enabled \ {"gateway"} : busClosed => backlog'[f] <= backlog[f]
  BY <1>2, <1>5, DeliveredBounds, OnlyGatewayReadsTicks DEF Reaches
<1>8. Typed'
  BY <1>1, <1>2, <1>4, <1>6 DEF Typed
<1>9. StartedSoFar' /\ GatewayLast' /\ FedByGateway'
  BY <1>1, <1>3 DEF StartedSoFar, GatewayLast, FedByGateway
<1>10. BusClosedFirst' /\ CancelledLate'
  BY <1>1 DEF BusClosedFirst, CancelledLate
<1>11. Drained'
  <2> SUFFICES ASSUME NEW f \in Enabled \ {"gateway", "candle"}, engine[f] = "ended"
               PROVE  backlog'[f] = 0 /\ busClosed
    BY <1>1 DEF Drained
  <2>1. backlog[f] = 0 /\ busClosed
    BY DEF Drained
  <2> QED
    BY <1>6, <1>7, <2>1, RuntimeBounds
<1>12. ClosedIsQuiet'
  BY <1>1 DEF ClosedIsQuiet, ClosedEngines
<1> QED
  BY <1>8, <1>9, <1>10, <1>11, <1>12

LEMMA EndKeeps ==
  ASSUME RuntimeInv, NEW e \in Enabled, EngineEnd(e)
  PROVE  RuntimeInv'
<1> USE SomeEngines DEF RuntimeInv
<1>1. /\ engine' = [engine EXCEPT ![e] = "ended"]
      /\ engine[e] = "running"
      /\ UNCHANGED <<phase, at, cancelled, backlog, busClosed, openBar, finalBars, missed, ticks>>
  BY DEF EngineEnd
<1>2. e \notin {"gateway", "candle"} => backlog[e] = 0 /\ busClosed
  BY DEF EngineEnd, CancelledLate
<1>3. \A f \in Enabled : engine'[f] = IF f = e THEN "ended" ELSE engine[f]
  BY <1>1 DEF Typed
<1>4. Typed'
  BY <1>1 DEF Typed
<1>5. StartedSoFar' /\ GatewayLast' /\ FedByGateway'
  BY <1>1, <1>3 DEF StartedSoFar, GatewayLast, FedByGateway
<1>6. BusClosedFirst' /\ CancelledLate'
  BY <1>1 DEF BusClosedFirst, CancelledLate
<1>7. Drained'
  BY <1>1, <1>2, <1>3 DEF Drained
<1>8. ClosedIsQuiet'
  BY <1>1, <1>3 DEF ClosedIsQuiet, ClosedEngines
<1> QED
  BY <1>4, <1>5, <1>6, <1>7, <1>8

-----------------------------------------------------------------------------
LEMMA RuntimeInvInductive == RuntimeInv /\ [Next]_vars => RuntimeInv'
<1> SUFFICES ASSUME RuntimeInv, [Next]_vars PROVE RuntimeInv'
  OBVIOUS
<1>1. CASE Main
  BY <1>1, StartKeeps, MainSwitchKeeps, CancelKeeps, ClosedKeeps DEF Main
<1>2. CASE StartFails \/ ServerFails \/ Shutdown
  BY <1>2, MainSwitchKeeps
<1>3. CASE Emit
  BY <1>3, EmitKeeps
<1>4. ASSUME NEW e \in Enabled, EngineHandle(e) \/ EngineEnd(e) PROVE RuntimeInv'
  BY <1>4, HandleKeeps, EndKeeps
<1>5. CASE UNCHANGED vars
  BY <1>5
  DEF vars, RuntimeInv, Typed, StartedSoFar, GatewayLast, FedByGateway, BusClosedFirst,
      CancelledLate, Drained, ClosedIsQuiet, ClosedEngines
<1> QED
  BY <1>1, <1>2, <1>3, <1>4, <1>5 DEF Next

(* Starting the container misses no event, whichever engines are enabled:  *)
(* all that consume what is published have subscribed. An engine whose     *)
(* Close has returned runs no more, and has left no event in its channel,  *)
(* whatever was on its way when the shutdown began.                        *)
THEOREM CleanRuntime == Spec => []CleanLifecycle
<1>1. RuntimeInv => CleanLifecycle
  <2> SUFFICES ASSUME RuntimeInv PROVE CleanLifecycle
    OBVIOUS
  <2> USE DEF RuntimeInv
  <2>1. TypeOK
    BY Orders DEF TypeOK, Typed
  <2>2. NoStartupRace
    BY DEF NoStartupRace, Typed
  <2>3. NothingLeftBehind
    BY DEF NothingLeftBehind, ClosedIsQuiet, Drained, ClosedEngines
  <2> QED
    BY <2>1, <2>2, <2>3 DEF CleanLifecycle
<1> QED
  BY <1>1, RuntimeInvInit, RuntimeInvInductive, PTL DEF Spec

-----------------------------------------------------------------------------
(***************************************************************************)
(* The historical providers.                                               *)
(***************************************************************************)
(* Sequences, of what may be anything.                                     *)
IsSequence(t) == t \in Seq({t[n] : n \in DOMAIN t})

LEMMA Appended ==
  ASSUME NEW t, IsSequence(t), NEW e
  PROVE  /\ IsSequence(Append(t, e))
         /\ Len(t) \in Nat /\ DOMAIN t = 1 .. Len(t)
         /\ Len(Append(t, e)) = Len(t) + 1
         /\ DOMAIN Append(t, e) = 1 .. Len(t) + 1
         /\ \A n \in 1 .. Len(t) : Append(t, e)[n] = t[n]
         /\ Append(t, e)[Len(t) + 1] = e
         /\ t \o <<e>> = Append(t, e) /\ t \o <<>> = t
<1> DEFINE S == {t[n] : n \in DOMAIN t} \union {e}
<1>1. t \in Seq(S) /\ e \in S
  BY DEF IsSequence
<1> HIDE DEF S
<1>2. Append(t, e) \in Seq(S)
  BY <1>1
<1>3. Len(t) \in Nat /\ DOMAIN t = 1 .. Len(t) /\ Len(Append(t, e)) = Len(t) + 1
        /\ DOMAIN Append(t, e) = 1 .. Len(t) + 1
  BY <1>1, <1>2
<1>4. (\A n \in 1 .. Len(t) : Append(t, e)[n] = t[n]) /\ Append(t, e)[Len(t) + 1] = e
  BY <1>1
<1>5. IsSequence(Append(t, e))
  <2> DEFINE u == Append(t, e)
           R == {u[n] : n \in DOMAIN u}
  <2>1. u \in [1 .. Len(u) -> S] /\ Len(u) \in Nat /\ DOMAIN u = 1 .. Len(u)
    BY <1>2, LenProperties
  <2> HIDE DEF u
  <2>2. u \in [1 .. Len(u) -> R]
    BY <2>1
  <2>3. u \in Seq(R)
    BY <2>1, <2>2, SeqDef
  <2> QED
    BY <2>3 DEF IsSequence, u
<1>6. t \o <<e>> = Append(t, e) /\ t \o <<>> = t
  BY <1>1
<1> QED
  BY <1>3, <1>4, <1>5, <1>6

(* A sequence over a set is one over what occurs in it.                    *)
LEMMA RangeIsEnough == ASSUME NEW S, NEW t \in Seq(S) PROVE IsSequence(t)
<1>1. t \in [1 .. Len(t) -> S] /\ Len(t) \in Nat /\ DOMAIN t = 1 .. Len(t)
  BY LenProperties
<1>2. t \in [1 .. Len(t) -> {t[n] : n \in DOMAIN t}]
  BY <1>1
<1> QED
  BY <1>1, <1>2, SeqDef DEF IsSequence

LEMMA Tailed ==
  ASSUME NEW q, IsSequence(q), q # <<>>
  PROVE  /\ IsSequence(Tail(q)) /\ Len(Tail(q)) = Len(q) - 1 /\ Len(q) \in Nat \ {0}
         /\ DOMAIN q = 1 .. Len(q) /\ DOMAIN Tail(q) = 1 .. Len(q) - 1
         /\ \A n \in 1 .. Len(q) - 1 : Tail(q)[n] = q[n + 1]
         /\ Head(q) = q[1]
<1> DEFINE S == {q[n] : n \in DOMAIN q}
<1>1. q \in Seq(S)
  BY DEF IsSequence
<1> HIDE DEF S
<1>2. Tail(q) \in Seq(S) /\ Len(Tail(q)) = Len(q) - 1 /\ Len(q) \in Nat \ {0}
        /\ \A n \in 1 .. Len(Tail(q)) : Tail(q)[n] = q[n + 1]
  BY <1>1, HeadTailProperties, EmptySeq
<1>3. DOMAIN q = 1 .. Len(q) /\ DOMAIN Tail(q) = 1 .. Len(q) - 1
  BY <1>1, <1>2, LenProperties
<1>4. IsSequence(Tail(q))
  BY <1>2, RangeIsEnough
<1>5. Head(q) = q[1]
  BY <1>1
<1> QED
  BY <1>2, <1>3, <1>4, <1>5

(* A set of numbers has a least one.                                       *)
LEMMA LeastOf == ASSUME NEW S, S \subseteq Nat, S # {} PROVE \E m \in S : \A k \in S : m <= k
<1>1. PICK m \in S : \A k \in S : <<k, m>> \notin OpToRel(<, Nat)
  BY NatLessThanWellFounded, WFMin
<1>2. \A k \in S : ~(k < m)
  <2>1. SUFFICES ASSUME NEW k \in S, k < m PROVE FALSE
    OBVIOUS
  <2>2. <<k, m>> \in Nat \X Nat /\ <<k, m>>[1] < <<k, m>>[2]
    BY <2>1
  <2>3. <<k, m>> \in OpToRel(<, Nat)
    BY <2>2, Zenon DEF OpToRel
  <2> QED
    BY <1>1, <2>3
<1>3. m \in Nat /\ \A k \in S : k \in Nat
  OBVIOUS
<1> QED
  BY <1>2, <1>3

-----------------------------------------------------------------------------
(***************************************************************************)
(* The replay provider. An entry read under the lock goes on from what was *)
(* sent last, and so does the position unless a seek came between.         *)
(***************************************************************************)
LastSent == published[Len(published)]
Target(epoch) == IF epoch = 0 THEN 1 ELSE sought[epoch]
Goes(pos, epoch) ==
  IF Len(published) > 0 /\ LastSent.epoch = epoch THEN pos = LastSent.pos + 1
  ELSE pos = Target(epoch) \/ (Len(published) > 0 /\ LastSent.pos = Target(epoch) /\ pos = Target(epoch) + 1)

(* Where the position is with an entry in hand.                            *)
Ahead(entry) == position = IF entry.epoch = Len(sought) THEN entry.pos ELSE Target(Len(sought))
InHand(entry) ==
  /\ entry.pos \in 1 .. Len(recorded) /\ entry.epoch \in 0 .. Len(sought) /\ Goes(entry.pos, entry.epoch)
  /\ Len(published) > 0 => LastSent.epoch <= entry.epoch
  /\ Ahead(entry)

ReplayInv ==
  /\ IsSequence(published) /\ recorded \in Seq(Nat \ {0}) /\ sought \in Seq(Nat \ {0})
  /\ position \in 1 .. Len(recorded) + 1 /\ sentPaused \in {0, 1}
  /\ \A n \in DOMAIN published : published[n].pos \in Nat /\ published[n].epoch \in 0 .. Len(sought)
  /\ ReplayInSequence
  /\ loop.at \in {"none", "gone", "looking", "paused", "waiting", "sending", "advancing"}
  /\ loop.at \in {"waiting", "sending"} => InHand(loop.entry)
  /\ loop.at = "advancing" =>
       /\ Len(published) > 0 /\ loop.entry = LastSent /\ loop.entry.pos \in 1 .. Len(recorded)
       /\ Ahead(loop.entry)
  /\ loop.at \in {"none", "gone", "looking", "paused"} => Goes(position, Len(sought))
  /\ paused /\ sentPaused = 1 => loop.at \notin {"waiting", "sending"}

LEMMA ReplayInit == FeedInit /\ RecordedInit => ReplayInv
<1>1. IsSequence(<<>>) /\ <<>> \in Seq(Nat \ {0}) /\ Len(<<>>) = 0 /\ DOMAIN <<>> = {}
  BY DEF IsSequence
<1> QED
  BY <1>1 DEF FeedInit, RecordedInit, ReplayInv, ReplayInSequence, Goes, Target, NotStarted

(* A round that ends without a send leaves the position for the next.      *)
LEMMA Discards ==
  ASSUME ReplayInv, loop.at \in {"waiting", "sending"}
  PROVE  Goes(position, Len(sought))
<1> DEFINE x == loop.entry
<1>1. InHand(x) /\ Len(sought) \in Nat /\ Len(published) \in Nat
  BY Appended DEF ReplayInv
<1>2. Len(published) > 0 => LastSent.epoch \in 0 .. Len(sought)
  BY <1>1, Appended DEF ReplayInv, LastSent
<1> HIDE DEF x
<1>3. CASE x.epoch = Len(sought)
  BY <1>1, <1>3 DEF InHand, Ahead
<1>4. CASE x.epoch # Len(sought)
  BY <1>1, <1>2, <1>4 DEF InHand, Ahead, Goes
<1> QED
  BY <1>3, <1>4

(* Nothing is sent or sought.                                              *)
LEMMA ReplayWaits ==
  ASSUME ReplayInv, UNCHANGED <<published, recorded, sought, position, sentPaused>>, paused' = paused,
         loop'.at \in {"none", "gone", "looking", "paused", "waiting", "sending"},
         loop'.at \in {"waiting", "sending"} =>
           /\ InHand(loop'.entry) /\ ~(paused /\ sentPaused = 1),
         loop'.at \in {"none", "gone", "looking", "paused"} => Goes(position, Len(sought))
  PROVE  ReplayInv'
<1>1. ReplayInSequence'
  BY DEF ReplayInv, ReplayInSequence
<1>2. \A pos, epoch : Goes(pos, epoch)' = Goes(pos, epoch)
  BY DEF Goes, LastSent, Target
<1>3. \A x : InHand(x)' = InHand(x)
  BY DEF InHand, Ahead, Goes, LastSent, Target
<1> QED
  BY <1>1, <1>2, <1>3 DEF ReplayInv

LEMMA LooksKeeps == ASSUME ReplayInv, Looks PROVE ReplayInv'
<1>0. UNCHANGED <<published, recorded, sought, position, sentPaused, paused>> /\ loop.at = "looking"
  BY DEF Looks, Moves, Elapsed, recordedVars
<1>1. Goes(position, Len(sought))
  BY <1>0 DEF ReplayInv
<1>2. position <= Len(recorded) => InHand(Entry)
  <2>1. Len(sought) \in Nat /\ Len(published) \in Nat /\ Len(recorded) \in Nat /\ position \in 1 .. Len(recorded) + 1
    BY Appended DEF ReplayInv
  <2>2. Len(published) > 0 => LastSent.epoch \in 0 .. Len(sought)
    BY <2>1, Appended DEF ReplayInv, LastSent
  <2> QED
    BY <1>1, <2>1, <2>2 DEF InHand, Entry, Ahead
<1>3. CASE position > Len(recorded) \/ (~paused /\ ~connected)
  <2>1. ~(position <= Len(recorded) /\ paused)
    BY <1>3 DEF ReplayInv
  <2>2. loop'.at = "gone"
    BY <1>3, <2>1 DEF Looks, Moves
  <2> QED
    BY <1>0, <1>1, <2>2, ReplayWaits
<1>4. CASE ~(position > Len(recorded)) /\ paused
  <2>1. loop'.at = "paused"
    BY <1>4 DEF Looks, Moves, ReplayInv
  <2> QED
    BY <1>0, <1>1, <2>1, ReplayWaits
<1>5. CASE ~(position > Len(recorded) \/ (~paused /\ ~connected)) /\ ~paused
  <2>1. loop'.at \in {"waiting", "sending"} /\ loop'.entry = Entry
    BY <1>5 DEF Looks, Moves, Elapsed
  <2>2. position <= Len(recorded)
    BY <1>5 DEF ReplayInv
  <2> QED
    BY <1>0, <1>2, <1>5, <2>1, <2>2, ReplayWaits
<1> QED
  BY <1>3, <1>4, <1>5

LEMMA RecordedStepsKeep == ASSUME ReplayInv, RecordedSteps PROVE ReplayInv'
<1>1. CASE Looks
  BY <1>1, LooksKeeps
<1>2. CASE Stops \/ Woken
  <2>1. /\ UNCHANGED <<published, recorded, sought, position, sentPaused, paused>>
        /\ loop.at \in {"paused", "waiting", "sending"} /\ loop'.at \in {"gone", "looking"}
    BY <1>2 DEF Stops, Woken, Moves, recordedVars
  <2>2. Goes(position, Len(sought))
    BY <2>1, Discards DEF ReplayInv
  <2> QED
    BY <2>1, <2>2, ReplayWaits
<1>3. CASE TimerFires
  <2>1. /\ UNCHANGED <<published, recorded, sought, position, sentPaused, paused>>
        /\ loop.at = "waiting" /\ loop'.at = "sending" /\ loop'.entry = loop.entry
    BY <1>3 DEF TimerFires, Elapsed, Moves
  <2>2. InHand(loop.entry) /\ ~(paused /\ sentPaused = 1)
    BY <2>1 DEF ReplayInv
  <2> QED
    BY <2>1, <2>2, ReplayWaits
<1>4. CASE RecordedSends
  <2>0. PICK x : x = loop.entry
    OBVIOUS
  <2>1. /\ published' = Append(published, x) /\ UNCHANGED <<recorded, sought, position, paused>>
        /\ loop.at = "sending" /\ loop'.at = "advancing" /\ loop'.entry = x
        /\ sentPaused' = IF paused THEN sentPaused + 1 ELSE sentPaused
    BY <1>4, <2>0 DEF RecordedSends, Sends
  <2>2. InHand(x) /\ ~(paused /\ sentPaused = 1) /\ sentPaused \in {0, 1} /\ Len(recorded) \in Nat
    BY <2>0, <2>1 DEF ReplayInv
  <2>3. /\ IsSequence(published') /\ Len(published) \in Nat /\ DOMAIN published = 1 .. Len(published)
        /\ Len(published') = Len(published) + 1 /\ DOMAIN published' = 1 .. Len(published) + 1
        /\ (\A n \in 1 .. Len(published) : published'[n] = published[n]) /\ published'[Len(published) + 1] = x
    BY <2>1, Appended DEF ReplayInv
  <2>4. LastSent' = x
    BY <2>3 DEF LastSent
  <2>5. ReplayInSequence'
    <3>1. SUFFICES ASSUME NEW n \in DOMAIN published'
                   PROVE  LET e == published'[n] before == published'[n - 1] IN
                          IF n > 1 /\ before.epoch = e.epoch THEN e.pos = before.pos + 1
                          ELSE LET target == IF e.epoch = 0 THEN 1 ELSE sought[e.epoch] IN
                               e.pos = target \/ (n > 1 /\ before.pos = target /\ e.pos = target + 1)
      BY <2>1 DEF ReplayInSequence
    <3>2. CASE n \in 1 .. Len(published)
      <4>1. published'[n] = published[n] /\ (n > 1 => published'[n - 1] = published[n - 1])
        BY <2>3, <3>2
      <4> QED
        BY <2>3, <3>2, <4>1 DEF ReplayInv, ReplayInSequence
    <3>3. CASE n = Len(published) + 1
      <4>1. published'[n] = x /\ (n > 1 <=> Len(published) > 0) /\ (n > 1 => published'[n - 1] = LastSent)
        BY <2>3, <3>3 DEF LastSent
      <4>2. Goes(x.pos, x.epoch)
        BY <2>2 DEF InHand
      <4> QED
        BY <4>1, <4>2 DEF Goes, Target
    <3> QED
      BY <2>3, <3>1, <3>2, <3>3
  <2>6. \A n \in DOMAIN published' : published'[n].pos \in Nat /\ published'[n].epoch \in 0 .. Len(sought')
    <3>1. \A n \in 1 .. Len(published) : published[n].pos \in Nat /\ published[n].epoch \in 0 .. Len(sought)
      BY <2>3 DEF ReplayInv
    <3>2. x.pos \in Nat /\ x.epoch \in 0 .. Len(sought)
      BY <2>2 DEF InHand
    <3>3. \A n \in DOMAIN published' : n = Len(published) + 1 \/ n \in 1 .. Len(published)
      BY <2>3
    <3> QED
      BY <2>1, <2>3, <3>1, <3>2, <3>3
  <2>7. x.pos \in 1 .. Len(recorded') /\ Ahead(x)'
    BY <2>1, <2>2 DEF InHand, Ahead, Target
  <2> QED
    BY <2>1, <2>2, <2>3, <2>4, <2>5, <2>6, <2>7 DEF ReplayInv
<1>5. CASE Advances
  <2>1. /\ UNCHANGED <<published, recorded, sought, paused, sentPaused>>
        /\ loop.at = "advancing" /\ loop'.at = "looking"
        /\ position' = IF position = loop.entry.pos THEN position + 1 ELSE position
    BY <1>5 DEF Advances, Moves
  <2>2. /\ Len(published) > 0 /\ loop.entry = LastSent /\ LastSent.pos \in 1 .. Len(recorded) /\ Ahead(LastSent)
        /\ position \in 1 .. Len(recorded) + 1 /\ Len(recorded) \in Nat
    BY <2>1 DEF ReplayInv
  <2>3. position' \in 1 .. Len(recorded) + 1
    BY <2>1, <2>2
  <2>4. Goes(position', Len(sought))
    BY <2>1, <2>2 DEF Goes, Ahead
  <2>5. ReplayInSequence' /\ Goes(position, Len(sought))'
    BY <2>1, <2>4 DEF ReplayInv, ReplayInSequence, Goes, LastSent, Target
  <2> QED
    BY <2>1, <2>3, <2>5 DEF ReplayInv
<1> QED
  BY <1>1, <1>2, <1>3, <1>4, <1>5 DEF RecordedSteps

(* Commands leave the goroutine alone. A seek sets the position wherever   *)
(* the round is; what it has in hand was read before.                      *)
LEMMA CommandsKeep == ASSUME ReplayInv, Commands \/ Signal PROVE ReplayInv'
<1>0. UNCHANGED <<published, loop>>
  BY DEF Commands, Signal, ByCaller, LoadEvents, Pause, Resume, SetSpeed, Seek, lifeVars
<1>1. CASE LoadEvents
  <2>1. UNCHANGED <<position, paused, sought, sentPaused>> /\ recorded = <<>> /\ recorded' = Recorded
    BY <1>1 DEF LoadEvents
  <2>2. Recorded \in Seq(Nat \ {0}) /\ Len(Recorded) \in Nat /\ position = 1
    BY <2>1, RecordedAreTimes DEF ReplayInv
  <2>3. loop.at \notin {"waiting", "sending", "advancing"}
    BY <2>1 DEF ReplayInv, InHand
  <2>4. ReplayInSequence' /\ Goes(position, Len(sought))' = Goes(position, Len(sought))
    BY <1>0, <2>1 DEF ReplayInv, ReplayInSequence, Goes, LastSent, Target
  <2> QED
    BY <1>0, <2>1, <2>2, <2>3, <2>4 DEF ReplayInv
<1>2. CASE Pause \/ Resume \/ SetSpeed \/ Signal
  <2>1. /\ UNCHANGED <<recorded, position, sought>>
        /\ \/ paused' /\ sentPaused' = 0
           \/ ~paused' /\ sentPaused' = sentPaused
           \/ paused' = paused /\ sentPaused' = sentPaused
    BY <1>2 DEF Pause, Resume, SetSpeed, Signal
  <2>2. ReplayInSequence' /\ Goes(position, Len(sought))' = Goes(position, Len(sought))
    BY <1>0, <2>1 DEF ReplayInv, ReplayInSequence, Goes, LastSent, Target
  <2>3. InHand(loop.entry)' = InHand(loop.entry) /\ Ahead(loop.entry)' = Ahead(loop.entry) /\ LastSent' = LastSent
    BY <1>0, <2>1 DEF InHand, Ahead, Goes, LastSent, Target
  <2> QED
    BY <1>0, <2>1, <2>2, <2>3 DEF ReplayInv
<1>3. ASSUME NEW to, Seek(to) PROVE ReplayInv'
  <2> DEFINE k == Len(sought)
             earlier == {n \in DOMAIN recorded : recorded[n] < to}
  <2>1. /\ UNCHANGED <<recorded, paused, sentPaused>> /\ sought' = Append(sought, position')
        /\ position' = 1 + Cardinality(earlier)
    BY <1>3 DEF Seek
  <2>2. Cardinality(earlier) \in 0 .. Len(recorded)
    <3>1. DOMAIN recorded = 1 .. Len(recorded) /\ Len(recorded) \in Nat
      BY DEF ReplayInv
    <3>2. IsFiniteSet(1 .. Len(recorded)) /\ Cardinality(1 .. Len(recorded)) = Len(recorded)
      <4>1. 1 \in Int /\ Len(recorded) \in Int
        BY <3>1
      <4>2. /\ IsFiniteSet(1 .. Len(recorded))
            /\ Cardinality(1 .. Len(recorded)) = IF 1 > Len(recorded) THEN 0 ELSE Len(recorded) - 1 + 1
        BY <4>1, FS_Interval
      <4> QED
        BY <3>1, <4>2
    <3>3. Cardinality(earlier) \in Nat /\ Cardinality(earlier) <= Cardinality(DOMAIN recorded)
      BY <3>1, <3>2, FS_Subset, FS_CardinalityType
    <3> QED
      BY <3>1, <3>2, <3>3
  <2>3. position' \in 1 .. Len(recorded) + 1 /\ Len(recorded) \in Nat
    BY <2>1, <2>2 DEF ReplayInv
  <2> HIDE DEF earlier
  <2>4. /\ sought' \in Seq(Nat \ {0}) /\ k \in Nat /\ Len(sought') = k + 1 /\ sought'[k + 1] = position'
        /\ \A n \in 1 .. k : sought'[n] = sought[n]
    <3>1. sought \in Seq(Nat \ {0}) /\ position' \in Nat \ {0}
      BY <2>3 DEF ReplayInv
    <3> QED
      BY <2>1, <3>1
  <2>5. \A epoch \in 0 .. k : Target(epoch)' = Target(epoch)
    BY <2>4 DEF Target
  <2>6. Target(Len(sought))' = position'
    BY <2>4 DEF Target
  <2>7. /\ LastSent' = LastSent /\ Len(published) \in Nat /\ DOMAIN published = 1 .. Len(published)
        /\ \A n \in DOMAIN published : published[n].epoch \in 0 .. k
    BY <1>0, Appended DEF LastSent, ReplayInv
  <2>8. Len(published) > 0 => LastSent.epoch \in 0 .. k
    BY <2>7 DEF LastSent
  <2>9. ReplayInSequence'
    <3>1. \A n \in DOMAIN published : published[n].epoch # 0 => sought'[published[n].epoch] = sought[published[n].epoch]
      BY <2>4, <2>7
    <3> QED
      BY <1>0, <2>7, <3>1 DEF ReplayInv, ReplayInSequence
  <2>10. Goes(position, Len(sought))'
    BY <1>0, <2>4, <2>6, <2>7, <2>8 DEF Goes
  <2>11. \A pos : \A epoch \in 0 .. k : Goes(pos, epoch)' = Goes(pos, epoch)
    BY <1>0, <2>5, <2>7 DEF Goes
  <2>12. \A x : x.epoch \in 0 .. Len(sought) => Ahead(x)'
    BY <2>4, <2>6 DEF Ahead
  <2>13. InHand(loop.entry) => InHand(loop.entry)'
    BY <1>0, <2>1, <2>4, <2>7, <2>11, <2>12 DEF InHand
  <2>14. loop.at = "advancing" => Ahead(loop.entry)'
    <3>1. PICK x : x = loop.entry
      OBVIOUS
    <3>2. loop.at = "advancing" => x.epoch \in 0 .. k
      BY <2>7, <2>8, <3>1 DEF ReplayInv
    <3>3. loop'.entry = x
      BY <1>0, <3>1
    <3> QED
      BY <2>12, <3>2, <3>3 DEF Ahead
  <2>15. \A n \in DOMAIN published' : published'[n].pos \in Nat /\ published'[n].epoch \in 0 .. Len(sought')
    BY <1>0, <2>4, <2>7 DEF ReplayInv
  <2> QED
    BY <1>0, <2>1, <2>3, <2>4, <2>7, <2>9, <2>10, <2>13, <2>14, <2>15 DEF ReplayInv
<1> QED
  BY <1>1, <1>2, <1>3 DEF Commands

-----------------------------------------------------------------------------
(***************************************************************************)
(* The CSV provider. All iterators read the same file, and are as far as   *)
(* one another; what is sent and what is lost of a pass are the readable   *)
(* rows up to there.                                                       *)
(***************************************************************************)
Kept(n) == {m \in 1 .. n : m \in DOMAIN Rows /\ Readable(m)}
Accounted == dropped \union RowsSent(pass)
ReadTo(n) ==
  /\ n \in 0 .. Len(Rows) + 1 /\ \A s \in DOMAIN iterators : iterators[s] = n
  /\ Accounted \subseteq Kept(n)
  /\ loop.at = "reading" \/ n > Len(Rows) => Accounted = Kept(n)
  /\ loop.at = "sending" =>
       /\ loop.entry.row = n /\ n \in DOMAIN Rows /\ Readable(n) /\ loop.entry.pass = pass
       /\ loop.entry.symbol \in symbolsRead \intersect DataSymbols
       /\ Accounted = Kept(n - 1)

CsvInv ==
  /\ IsSequence(published) /\ pass \in Nat /\ \A n \in DOMAIN published : published[n].pass \in 0 .. pass
  /\ loop.at \in {"none", "gone", "looking", "reading", "sending"}
  /\ DOMAIN iterators \subseteq symbolsRead \intersect DataSymbols
  /\ \A i, j \in InPass(pass) : i < j => published[i].row < published[j].row
  /\ dropped \intersect RowsSent(pass) = {} /\ CsvOfSubscribed
  /\ loop.at \in {"reading", "sending"} => DOMAIN iterators # {}
  /\ \E n \in 0 .. Len(Rows) + 1 : ReadTo(n)

LEMMA RowsAre == Len(Rows) \in Nat /\ DOMAIN Rows = 1 .. Len(Rows) /\ \A n \in DOMAIN Rows : Rows[n].at \in Int
<1> DEFINE R == [at : Int, kind : {"row", "malformed", "blank"}]
<1>1. Rows \in Seq(R) /\ \A r \in R : r.at \in Int
  BY RowsAreRead
<1> HIDE DEF R
<1>2. Rows \in [1 .. Len(Rows) -> R] /\ Len(Rows) \in Nat
  BY <1>1, LenProperties
<1> QED
  BY <1>1, <1>2

LEMMA CsvAccounts == CsvInv => CsvPassAccounts /\ CsvOfSubscribed
<1> SUFFICES ASSUME CsvInv PROVE CsvPassAccounts
  BY DEF CsvInv
<1>1. PICK n \in 0 .. Len(Rows) + 1 : ReadTo(n)
  BY DEF CsvInv
<1>2. ASSUME DOMAIN iterators # {}, \A s \in DOMAIN iterators : iterators[s] > Len(Rows)
      PROVE  Accounted = {m \in DOMAIN Rows : Readable(m)}
  <2>1. n > Len(Rows)
    BY <1>1, <1>2 DEF ReadTo
  <2>2. Kept(n) = {m \in DOMAIN Rows : Readable(m)}
    BY <2>1, RowsAre DEF Kept
  <2> QED
    BY <1>1, <2>1, <2>2 DEF ReadTo
<1> QED
  BY <1>2 DEF CsvInv, CsvPassAccounts, Accounted

LEMMA CsvBegins == FeedInit /\ CsvInit => CsvInv
<1> SUFFICES ASSUME FeedInit, CsvInit PROVE CsvInv
  OBVIOUS
<1>1. IsSequence(<<>>) /\ DOMAIN <<>> = {} /\ published = <<>> /\ iterators = <<>> /\ loop.at = "none"
        /\ dropped = {} /\ pass = 0
  BY DEF IsSequence, FeedInit, CsvInit, NotStarted
<1>2. InPass(pass) = {} /\ RowsSent(pass) = {} /\ Accounted = {}
  BY <1>1 DEF InPass, RowsSent, Accounted
<1>3. ReadTo(0)
  BY <1>1, <1>2, RowsAre DEF ReadTo
<1> QED
  BY <1>1, <1>2, <1>3, RowsAre DEF CsvInv, CsvOfSubscribed

(* What a look at the file finds next.                                     *)
LEMMA NextRowIs ==
  ASSUME NEW n \in 0 .. Len(Rows) + 1
  PROVE  /\ NextRow(n) \in 1 .. Len(Rows) + 1
         /\ NextRow(n) <= Len(Rows) => /\ n < NextRow(n) /\ Readable(NextRow(n)) /\ Kept(NextRow(n) - 1) = Kept(n)
         /\ NextRow(n) > Len(Rows) => NextRow(n) = Len(Rows) + 1 /\ Kept(NextRow(n)) = Kept(n)
<1> DEFINE S == {m \in n + 1 .. Len(Rows) : Readable(m)} \union {Len(Rows) + 1}
<1>1. S # {} /\ S \subseteq 1 .. Len(Rows) + 1 /\ Len(Rows) + 1 \in S /\ S \subseteq Nat
  BY RowsAre
<1>2. NextRow(n) = Min(S)
  BY DEF NextRow
<1> HIDE DEF S
<1>3. \E m \in S : \A k \in S : m <= k
  BY <1>1, LeastOf
<1>4. Min(S) \in S /\ \A k \in S : Min(S) <= k
  BY <1>3 DEF Min
<1>5. \A m \in n + 1 .. Len(Rows) : Readable(m) => NextRow(n) <= m
  BY <1>2, <1>4 DEF S
<1>6. NextRow(n) = Len(Rows) + 1 \/ (NextRow(n) \in n + 1 .. Len(Rows) /\ Readable(NextRow(n)))
  BY <1>2, <1>4 DEF S
<1>7. CASE NextRow(n) = Len(Rows) + 1
  <2>1. \A m \in n + 1 .. Len(Rows) : ~Readable(m)
    BY <1>5, <1>7, RowsAre
  <2>2. Kept(NextRow(n)) = Kept(n)
    BY <1>7, <2>1, RowsAre DEF Kept
  <2> QED
    BY <1>7, <2>2, RowsAre
<1>8. CASE NextRow(n) \in n + 1 .. Len(Rows) /\ Readable(NextRow(n))
  <2>1. \A m \in n + 1 .. NextRow(n) - 1 : ~Readable(m)
    BY <1>5, <1>8, RowsAre
  <2>2. Kept(NextRow(n) - 1) = Kept(n)
    BY <1>8, <2>1, RowsAre DEF Kept
  <2> QED
    BY <1>8, <2>2, RowsAre
<1> QED
  BY <1>6, <1>7, <1>8

(* Nothing is read, sent or lost.                                          *)
LEMMA CsvWaits ==
  ASSUME CsvInv, UNCHANGED <<published, csvVars>>,
         \/ loop'.at \in {"none", "gone", "looking"}
         \/ loop' = loop
  PROVE  CsvInv'
<1>1. PICK n \in 0 .. Len(Rows) + 1 : ReadTo(n)
  BY DEF CsvInv
<1>2. UNCHANGED <<iterators, symbolsRead, pass, dropped>>
  BY DEF csvVars
<1>3. /\ InPass(pass)' = InPass(pass) /\ RowsSent(pass)' = RowsSent(pass) /\ Accounted' = Accounted
      /\ CsvOfSubscribed'
  BY <1>2 DEF InPass, RowsSent, Accounted, CsvOfSubscribed, CsvInv
<1>4. ReadTo(n)'
  BY <1>1, <1>2, <1>3 DEF ReadTo
<1> QED
  BY <1>2, <1>3, <1>4 DEF CsvInv

LEMMA CsvStepsKeep == ASSUME CsvInv, CsvSteps PROVE CsvInv'
<1>0. PICK n \in 0 .. Len(Rows) + 1 : ReadTo(n)
  BY DEF CsvInv
<1>1. CASE CsvStops
  BY <1>1, CsvWaits DEF CsvStops, CsvMoves
<1>2. CASE CsvResets
  <2>1. /\ published' = published /\ pass' = pass + 1 /\ dropped' = {} /\ loop'.at = "reading"
        /\ symbolsRead' = subscribed /\ iterators' = [s \in CsvMatching |-> 0] /\ CsvMatching # {}
    BY <1>2 DEF CsvResets, CsvMoves
  <2>2. InPass(pass)' = {}
    BY <2>1 DEF InPass, CsvInv
  <2>3. RowsSent(pass)' = {} /\ Accounted' = {} /\ CsvOfSubscribed'
    BY <2>1, <2>2 DEF RowsSent, Accounted, CsvOfSubscribed
  <2>4. ReadTo(0)'
    BY <2>1, <2>3, RowsAre DEF ReadTo, Kept
  <2> QED
    BY <2>1, <2>2, <2>3, <2>4, RowsAre DEF CsvInv, CsvMatching
<1>3. CASE CsvReads
  <2>1. /\ UNCHANGED <<published, symbolsRead, pass, dropped>> /\ iterators' = Read /\ loop.at = "reading"
        /\ \/ Earliest = {} /\ loop'.at \in {"looking", "gone"}
           \/ \E s \in Earliest : loop' = [at |-> "sending", entry |-> [symbol |-> s, row |-> Read[s], pass |-> pass]]
    <3>1. EndOfPass.at \in {"looking", "gone"}
      BY DEF EndOfPass
    <3>2. CASE Earliest = {}
      BY <1>3, <3>1, <3>2 DEF CsvReads, CsvMoves
    <3>3. CASE Earliest # {}
      <4> DEFINE sending(s) == [at |-> "sending", entry |-> [symbol |-> s, row |-> Read[s], pass |-> pass]]
      <4>1. \E s \in Earliest : CsvMoves(sending(s))
        BY <1>3, <3>3 DEF CsvReads
      <4> HIDE DEF sending
      <4>2. \E s \in Earliest : loop' = sending(s) /\ published' = published
        BY <4>1 DEF CsvMoves
      <4> QED
        BY <1>3, <4>2 DEF CsvReads, sending
    <3> QED
      BY <3>2, <3>3
  <2>2. DOMAIN Read = DOMAIN iterators /\ \A s \in DOMAIN iterators : Read[s] = NextRow(n)
    BY <1>0 DEF Read, ReadTo
  <2>3. /\ InPass(pass)' = InPass(pass) /\ RowsSent(pass)' = RowsSent(pass) /\ Accounted' = Accounted
        /\ CsvOfSubscribed'
    BY <2>1 DEF InPass, RowsSent, Accounted, CsvOfSubscribed, CsvInv
  <2>4. Accounted = Kept(n) /\ DOMAIN iterators # {}
    BY <1>0, <2>1 DEF ReadTo, CsvInv
  <2>5. NextRow(n) \in 1 .. Len(Rows) + 1
    BY NextRowIs
  <2>6. ReadTo(NextRow(n))' /\ loop'.at \in {"looking", "gone", "sending"}
    <3>1. CASE NextRow(n) <= Len(Rows)
      <4>1. /\ NextRow(n) \in DOMAIN Rows /\ Readable(NextRow(n)) /\ Kept(NextRow(n) - 1) = Kept(n)
            /\ n < NextRow(n)
        BY <2>5, <3>1, NextRowIs, RowsAre
      <4>2. Earliest = DOMAIN iterators
        <5>1. \A s \in DOMAIN Read : Read[s] = NextRow(n)
          BY <2>2
        <5>2. Rows[NextRow(n)].at <= Rows[NextRow(n)].at
          BY <4>1, RowsAre
        <5> QED
          BY <2>2, <3>1, <5>1, <5>2 DEF Earliest
      <4>3. PICK s \in DOMAIN iterators :
              loop' = [at |-> "sending", entry |-> [symbol |-> s, row |-> NextRow(n), pass |-> pass]]
        BY <2>1, <2>2, <2>4, <4>2
      <4>4. s \in symbolsRead \intersect DataSymbols
        BY <4>3 DEF CsvInv
      <4>5. Kept(n) \subseteq Kept(NextRow(n))
        BY <4>1, <2>5 DEF Kept
      <4> QED
        BY <2>1, <2>2, <2>3, <2>4, <2>5, <3>1, <4>1, <4>3, <4>4, <4>5 DEF ReadTo
    <3>2. CASE NextRow(n) > Len(Rows)
      <4>1. NextRow(n) = Len(Rows) + 1 /\ Kept(NextRow(n)) = Kept(n)
        BY <3>2, NextRowIs
      <4>2. Earliest = {}
        BY <2>2, <3>2, <4>1, RowsAre DEF Earliest
      <4> QED
        BY <2>1, <2>2, <2>3, <2>4, <2>5, <4>1, <4>2 DEF ReadTo
    <3> QED
      BY <2>5, <3>1, <3>2, RowsAre
  <2> QED
    BY <2>1, <2>2, <2>3, <2>4, <2>5, <2>6 DEF CsvInv
<1>4. CASE CsvSends
  <2>0. PICK x : x = loop.entry
    OBVIOUS
  <2>1. /\ UNCHANGED <<iterators, symbolsRead, pass, dropped>> /\ published' = Append(published, x)
        /\ loop.at = "sending" /\ loop'.at = "reading"
    BY <1>4, <2>0 DEF CsvSends, Sends, csvVars
  <2>2. /\ x.row = n /\ n \in DOMAIN Rows /\ Readable(n) /\ x.pass = pass
        /\ x.symbol \in symbolsRead \intersect DataSymbols /\ Accounted = Kept(n - 1)
    BY <1>0, <2>0, <2>1 DEF ReadTo
  <2>3. /\ IsSequence(published') /\ Len(published) \in Nat /\ DOMAIN published = 1 .. Len(published)
        /\ DOMAIN published' = 1 .. Len(published) + 1
        /\ (\A m \in 1 .. Len(published) : published'[m] = published[m]) /\ published'[Len(published) + 1] = x
    BY <2>1, Appended DEF CsvInv
  <2>4. InPass(pass)' = InPass(pass) \union {Len(published) + 1}
    BY <2>1, <2>2, <2>3 DEF InPass
  <2>5. InPass(pass) \subseteq 1 .. Len(published)
    BY <2>3 DEF InPass
  <2>6. RowsSent(pass)' = RowsSent(pass) \union {n}
    <3>1. RowsSent(pass)' = {published'[m].row : m \in InPass(pass)'}
      BY DEF RowsSent
    <3> QED
      BY <2>2, <2>3, <2>4, <2>5, <3>1 DEF RowsSent
  <2>7. Kept(n) = Kept(n - 1) \union {n} /\ n \notin Kept(n - 1)
    BY <2>2, RowsAre DEF Kept
  <2>8. Accounted' = Kept(n) /\ dropped \intersect RowsSent(pass)' = {}
    BY <2>1, <2>2, <2>6, <2>7 DEF Accounted, CsvInv
  <2>9. \A i \in InPass(pass) : published[i].row < n
    <3>1. \A i \in InPass(pass) : published[i].row \in Kept(n - 1)
      BY <2>2 DEF Accounted, RowsSent
    <3> QED
      BY <2>2, <3>1, RowsAre DEF Kept
  <2>10. \A i, j \in InPass(pass)' : i < j => published'[i].row < published'[j].row
    <3>1. SUFFICES ASSUME NEW i \in InPass(pass)', NEW j \in InPass(pass)', i < j
                   PROVE  published'[i].row < published'[j].row
      OBVIOUS
    <3>2. i \in InPass(pass) /\ published'[i] = published[i]
      BY <2>3, <2>4, <2>5, <3>1
    <3>3. CASE j = Len(published) + 1
      BY <2>2, <2>3, <2>9, <3>2, <3>3
    <3>4. CASE j \in InPass(pass)
      BY <2>3, <2>5, <3>1, <3>2, <3>4 DEF CsvInv
    <3> QED
      BY <2>4, <3>3, <3>4
  <2>11. CsvOfSubscribed'
    BY <2>1, <2>2, <2>3, <2>4, <2>5 DEF CsvOfSubscribed, CsvInv
  <2>12. ReadTo(n)'
    BY <1>0, <2>1, <2>2, <2>8, RowsAre DEF ReadTo
  <2>13. \A m \in DOMAIN published' : published'[m].pass \in 0 .. pass'
    <3>1. \A m \in 1 .. Len(published) : published[m].pass \in 0 .. pass
      BY <2>3 DEF CsvInv
    <3>2. \A m \in DOMAIN published' : m = Len(published) + 1 \/ m \in 1 .. Len(published)
      BY <2>3
    <3>3. x.pass \in 0 .. pass
      BY <2>2 DEF CsvInv
    <3> QED
      BY <2>1, <2>3, <3>1, <3>2, <3>3
  <2> QED
    BY <2>1, <2>3, <2>8, <2>10, <2>11, <2>12, <2>13 DEF CsvInv
<1>5. CASE CsvDrops
  <2>1. /\ UNCHANGED <<published, iterators, symbolsRead, pass>> /\ dropped' = dropped \union {loop.entry.row}
        /\ loop.at = "sending" /\ loop'.at = "reading"
    BY <1>5 DEF CsvDrops, CsvMoves
  <2>2. loop.entry.row = n /\ n \in DOMAIN Rows /\ Readable(n) /\ Accounted = Kept(n - 1)
    BY <1>0, <2>1 DEF ReadTo
  <2>3. InPass(pass)' = InPass(pass) /\ RowsSent(pass)' = RowsSent(pass) /\ CsvOfSubscribed'
    BY <2>1 DEF InPass, RowsSent, CsvOfSubscribed, CsvInv
  <2>4. Kept(n) = Kept(n - 1) \union {n} /\ n \notin Kept(n - 1)
    BY <2>2, RowsAre DEF Kept
  <2>5. Accounted' = Kept(n) /\ dropped' \intersect RowsSent(pass)' = {}
    BY <2>1, <2>2, <2>3, <2>4 DEF Accounted, CsvInv
  <2>6. ReadTo(n)'
    BY <1>0, <2>1, <2>2, <2>5, RowsAre DEF ReadTo
  <2> QED
    BY <2>1, <2>3, <2>5, <2>6 DEF CsvInv
<1> QED
  BY <1>1, <1>2, <1>3, <1>4, <1>5 DEF CsvSteps

-----------------------------------------------------------------------------
(* Positions in order: the one of a rank.                                  *)
LEMMA GreatestOf ==
  ASSUME NEW N \in Nat, NEW S \in SUBSET (1 .. N), S # {}
  PROVE  \E m \in S : \A k \in S : k <= m
<1> DEFINE U == {N - x : x \in S}
<1>0. \A x \in S : x \in 1 .. N
  OBVIOUS
<1>1. U \subseteq Nat /\ U # {}
  <2>1. \A x \in S : N - x \in Nat
    BY <1>0
  <2> QED
    BY <2>1
<1>2. PICK u \in U : \A v \in U : u <= v
  <2> HIDE DEF U
  <2> QED
    BY <1>1, LeastOf
<1>3. PICK m \in S : u = N - m
  OBVIOUS
<1>4. \A k \in S : N - m <= N - k
  BY <1>2, <1>3
<1> QED
  BY <1>0, <1>4

RankOf(P, n) == Cardinality({m \in P : m <= n})

LEMMA Ranks ==
  ASSUME NEW N \in Nat, NEW P \in SUBSET (1 .. N)
  PROVE  /\ IsFiniteSet(P) /\ Cardinality(P) \in Nat /\ \A n \in P : n \in Nat
         /\ \A n \in P : RankOf(P, n) \in 1 .. Cardinality(P)
         /\ \A m, n \in P : m < n => RankOf(P, m) < RankOf(P, n)
<1>0. \A n \in P : n \in Nat
  OBVIOUS
<1>1. IsFiniteSet(P)
  <2>1. IsFiniteSet(1 .. N)
    <3>1. 1 \in Int /\ N \in Int
      OBVIOUS
    <3> QED
      BY <3>1, FS_Interval
  <2> QED
    BY <2>1, FS_Subset
<1>2. Cardinality(P) \in Nat
  BY <1>1, FS_CardinalityType
<1>3. \A A : A \subseteq P => IsFiniteSet(A) /\ Cardinality(A) \in Nat /\ Cardinality(A) <= Cardinality(P)
  BY <1>1, FS_Subset, FS_CardinalityType
<1>4. ASSUME NEW n \in P PROVE RankOf(P, n) \in 1 .. Cardinality(P)
  <2> DEFINE A == {m \in P : m <= n}
  <2>1. A \subseteq P /\ n \in A
    BY <1>0
  <2> HIDE DEF A
  <2>2. Cardinality(A) # 0
    BY <1>3, <2>1, FS_EmptySet
  <2>3. RankOf(P, n) = Cardinality(A)
    BY DEF RankOf, A
  <2> QED
    <3>1. Cardinality(A) \in Nat /\ Cardinality(A) <= Cardinality(P)
      BY <1>3, <2>1
    <3> QED
      BY <1>2, <2>2, <2>3, <3>1
<1>5. ASSUME NEW m \in P, NEW n \in P, m < n PROVE RankOf(P, m) < RankOf(P, n)
  <2> DEFINE A == {k \in P : k <= m}
             B == {k \in P : k <= n}
  <2>1. A \subseteq B /\ B \subseteq P /\ n \in B /\ n \notin A
    <3>1. ~(n <= m) /\ n <= n /\ \A k \in P : k <= m => k <= n
      BY <1>0, <1>5
    <3> QED
      BY <3>1
  <2>2. RankOf(P, m) = Cardinality(A) /\ RankOf(P, n) = Cardinality(B)
    BY DEF RankOf
  <2> HIDE DEF A, B
  <2>3. IsFiniteSet(B) /\ A \subseteq B /\ A # B
    BY <1>3, <2>1
  <2>4. Cardinality(A) <= Cardinality(B) /\ Cardinality(A) # Cardinality(B)
    BY <2>3, FS_Subset
  <2>5. Cardinality(A) \in Nat /\ Cardinality(B) \in Nat
    BY <1>3, <2>1
  <2> QED
    BY <2>2, <2>4, <2>5
<1> QED
  BY <1>0, <1>1, <1>2, <1>4, <1>5

LEMMA EveryRank ==
  ASSUME NEW N \in Nat, NEW P \in SUBSET (1 .. N), NEW k \in 1 .. Cardinality(P)
  PROVE  \E n \in P : RankOf(P, n) = k
<1>0. /\ IsFiniteSet(P) /\ Cardinality(P) \in Nat
      /\ \A n \in P : RankOf(P, n) \in 1 .. Cardinality(P) /\ n \in Nat
  BY Ranks
<1> DEFINE S == {n \in P : RankOf(P, n) >= k}
<1>1. S # {}
  <2>1. P # {}
    BY <1>0, FS_EmptySet
  <2>2. PICK g \in P : \A m \in P : m <= g
    BY <2>1, GreatestOf
  <2>3. {m \in P : m <= g} = P
    BY <2>2
  <2>4. RankOf(P, g) = Cardinality(P)
    BY <2>3 DEF RankOf
  <2> QED
    BY <1>0, <2>4
<1>2. PICK n \in S : \A m \in S : n <= m
  <2>1. S \subseteq Nat
    BY <1>0
  <2> HIDE DEF S
  <2> QED
    BY <1>1, <2>1, LeastOf
<1>3. n \in P /\ n \in Nat /\ RankOf(P, n) \in Nat /\ RankOf(P, n) >= k
  BY <1>0, <1>2
<1>4. ASSUME RankOf(P, n) > k PROVE FALSE
  <2> DEFINE A == {m \in P : m <= n}
             B == {m \in P : m < n}
  <2>1. B = A \ {n} /\ n \in A /\ B \subseteq P /\ A \subseteq P
    <3>1. n <= n /\ \A m \in P : m < n <=> (m <= n /\ m # n)
      BY <1>0, <1>3
    <3> QED
      BY <1>3, <3>1
  <2>2. RankOf(P, n) = Cardinality(A)
    BY DEF RankOf
  <2>3. Cardinality(B) = Cardinality(A) - 1
    <3> HIDE DEF A, B
    <3>1. IsFiniteSet(A)
      BY <1>0, <2>1, FS_Subset
    <3> QED
      BY <2>1, <3>1, FS_RemoveElement
  <2>4. Cardinality(B) >= k
    BY <1>3, <1>4, <2>2, <2>3
  <2>5. B # {} /\ B \in SUBSET (1 .. N)
    <3>1. Cardinality({}) = 0 /\ ~(0 >= k)
      BY FS_EmptySet
    <3> HIDE DEF A, B
    <3> QED
      BY <2>1, <2>4, <3>1
  <2>6. PICK g \in B : \A m \in B : m <= g
    <3> HIDE DEF B
    <3> QED
      BY <2>5, GreatestOf
  <2>7. {m \in P : m <= g} = B
    <3>1. g < n /\ g \in Nat
      BY <1>0, <2>6
    <3>2. \A m \in P : m <= g => m < n
      BY <1>0, <1>3, <3>1
    <3>3. \A m \in P : m < n => m <= g
      BY <2>6
    <3> QED
      BY <3>2, <3>3
  <2>8. g \in S
    BY <2>1, <2>4, <2>6, <2>7 DEF RankOf
  <2> QED
    BY <1>2, <1>3, <2>6, <2>8
<1> QED
  BY <1>3, <1>4

LEMMA NthIs ==
  ASSUME NEW N \in Nat, NEW P \in SUBSET (1 .. N)
  PROVE  /\ \A k \in 1 .. Cardinality(P) : Nth(P, k) \in P /\ RankOf(P, Nth(P, k)) = k
         /\ \A n \in P : Nth(P, RankOf(P, n)) = n
         /\ \A j, k \in 1 .. Cardinality(P) : j < k => Nth(P, j) < Nth(P, k)
<1>1. ASSUME NEW k \in 1 .. Cardinality(P) PROVE Nth(P, k) \in P /\ RankOf(P, Nth(P, k)) = k
  <2>1. \E n \in P : Cardinality({m \in P : m <= n}) = k
    <3>1. PICK n \in P : RankOf(P, n) = k
      BY EveryRank
    <3> QED
      BY <3>1 DEF RankOf
  <2>2. Nth(P, k) \in P /\ Cardinality({m \in P : m <= Nth(P, k)}) = k
    BY <2>1 DEF Nth
  <2> QED
    BY <2>2 DEF RankOf
<1>2. /\ \A n \in P : RankOf(P, n) \in 1 .. Cardinality(P)
      /\ \A m, n \in P : m < n => RankOf(P, m) < RankOf(P, n)
      /\ Cardinality(P) \in Nat /\ \A n \in P : n \in Nat
  BY Ranks
<1>3. ASSUME NEW n \in P PROVE Nth(P, RankOf(P, n)) = n
  <2>1. PICK m : m = Nth(P, RankOf(P, n))
    OBVIOUS
  <2>2. m \in P /\ RankOf(P, m) = RankOf(P, n)
    BY <1>1, <1>2, <2>1
  <2>3. ~(m < n) /\ ~(n < m)
    BY <1>2, <2>2
  <2> QED
    BY <1>2, <2>1, <2>2, <2>3
<1>4. ASSUME NEW j \in 1 .. Cardinality(P), NEW k \in 1 .. Cardinality(P), j < k
      PROVE  Nth(P, j) < Nth(P, k)
  <2>1. PICK m, n : m = Nth(P, j) /\ n = Nth(P, k)
    OBVIOUS
  <2>2. m \in P /\ n \in P /\ RankOf(P, m) = j /\ RankOf(P, n) = k
    BY <1>1, <2>1
  <2>3. m # n /\ ~(n < m)
    BY <1>2, <1>4, <2>2
  <2>4. m \in Nat /\ n \in Nat
    BY <1>2, <2>2
  <2> QED
    BY <2>1, <2>3, <2>4
<1> QED
  BY <1>1, <1>3, <1>4

-----------------------------------------------------------------------------
(***************************************************************************)
(* The Groww provider. An iterator has given what is behind it, in order;  *)
(* it holds some candles in its buffer, and the interface has the rest.    *)
(***************************************************************************)
Ascends(c) == \A j, k \in DOMAIN c : j < k => c[j] < c[k]
Values(c) == {c[k] : k \in DOMAIN c}
Iterator(s, fetched, buffer, given) ==
  /\ IsSequence(buffer) /\ given \subseteq Int
  /\ \A k \in DOMAIN buffer : buffer[k] \in Int /\ buffer[k] < Period.start + fetched * MaxDuration
  /\ Ascends(buffer)
  /\ \A t \in given : t < Period.start + fetched * MaxDuration /\ \A k \in DOMAIN buffer : t < buffer[k]
  /\ given \union Values(buffer) \subseteq Available(s)
  /\ \A t \in Available(s) : t \in given \union Values(buffer) \/ Period.start + fetched * MaxDuration <= t

(* Windows of the longest duration cover the period.                       *)
LEMMA WindowsAre ==
  /\ Period.start \in Int /\ Period.end \in Int /\ MaxDuration \in Nat \ {0}
  /\ Len(Chunks) \in Nat /\ DOMAIN Chunks = 1 .. Len(Chunks)
  /\ \A n \in 1 .. Len(Chunks) :
       Chunks[n] = [start |-> Period.start + (n - 1) * MaxDuration,
                    end |-> Min({Period.start + n * MaxDuration - 1, Period.end})]
  /\ Period.end < Period.start + Len(Chunks) * MaxDuration
<1>1. Period.start \in Int /\ Period.end \in Int /\ MaxDuration \in Nat \ {0}
  BY AnswersInOrder
<1> DEFINE a == Period.end - Period.start
           q == a \div MaxDuration
           w(n) == [start |-> Period.start + (n - 1) * MaxDuration,
                    end |-> Min({Period.start + n * MaxDuration - 1, Period.end})]
<1>2. a \in Int /\ q \in Int /\ a < (q + 1) * MaxDuration
  <2>1. a \in Int
    BY <1>1
  <2>2. \A x \in Int : \A m \in Nat \ {0} : x \div m \in Int /\ x < m * (x \div m) + m
    OBVIOUS
  <2>3. q \in Int /\ a < MaxDuration * q + MaxDuration
    BY <1>1, <2>1, <2>2
  <2> HIDE DEF a, q
  <2> QED
    BY <1>1, <2>1, <2>3
<1> HIDE DEF q
<1>3. Chunks = [n \in 1 .. q + 1 |-> w(n)]
  BY DEF Chunks, ChunkRange, q
<1> HIDE DEF w
<1>4. CASE q + 1 \in Nat
  <2>1. Chunks \in Seq({w(n) : n \in 1 .. q + 1}) /\ Len(Chunks) = q + 1
    BY <1>3, <1>4
  <2> QED
    BY <1>1, <1>2, <1>3, <1>4, <2>1 DEF w
<1>5. CASE q + 1 \notin Nat
  <2>1. q + 1 <= 0 /\ a < 0
    BY <1>1, <1>2, <1>5
  <2>2. Chunks = <<>>
    BY <1>3, <2>1, <1>2
  <2> QED
    BY <1>1, <2>1, <2>2
<1> QED
  BY <1>4, <1>5

(* What is answered for a window: its times in order, each once.           *)
RowsInOrder(rows, N) ==
  /\ N \in Nat /\ DOMAIN rows = 1 .. N /\ \A n \in 1 .. N : rows[n].at \in Int
  /\ \A m, n \in 1 .. N : m < n => rows[m].at <= rows[n].at

TimesRead(rows, answered) == {rows[n].at : n \in {m \in answered : rows[m].kind = "row"}}

LEMMA Mapped ==
  ASSUME NEW rows, NEW N, RowsInOrder(rows, N), NEW answered, answered \subseteq 1 .. N,
         NEW c, c = MapCandles(rows, answered)
  PROVE  IsSequence(c) /\ Ascends(c) /\ Values(c) = TimesRead(rows, answered)
<1> DEFINE readable == {n \in answered : rows[n].kind = "row"}
           first == {n \in readable : \A m \in readable : rows[m].at = rows[n].at => n <= m}
<1>0. /\ N \in Nat /\ DOMAIN rows = 1 .. N /\ \A n \in 1 .. N : rows[n].at \in Int
      /\ \A m, n \in 1 .. N : m < n => rows[m].at <= rows[n].at
  BY DEF RowsInOrder
<1>1. first \in SUBSET (1 .. N) /\ readable \in SUBSET (1 .. N) /\ first \subseteq readable
  OBVIOUS
<1>2. c = [k \in 1 .. Cardinality(first) |-> rows[Nth(first, k)].at]
  BY DEF MapCandles
<1>3. \A m, n \in first : m < n => rows[m].at < rows[n].at
  <2>1. SUFFICES ASSUME NEW m \in first, NEW n \in first, m < n PROVE rows[m].at < rows[n].at
    OBVIOUS
  <2>2. rows[m].at <= rows[n].at /\ rows[m].at \in Int /\ rows[n].at \in Int /\ m \in Nat /\ n \in Nat
    BY <1>0, <1>1, <2>1
  <2>3. rows[m].at = rows[n].at => n <= m
    BY <1>1
  <2> QED
    BY <2>1, <2>2, <2>3
<1>4. \A n \in readable : \E m \in first : rows[m].at = rows[n].at
  <2>1. SUFFICES ASSUME NEW n \in readable PROVE \E m \in first : rows[m].at = rows[n].at
    OBVIOUS
  <2> DEFINE same == {m \in readable : rows[m].at = rows[n].at}
  <2>2. same # {} /\ same \subseteq Nat
    BY <1>0, <1>1
  <2>3. PICK m \in same : \A k \in same : m <= k
    <3> HIDE DEF same
    <3> QED
      BY <2>2, LeastOf
  <2> QED
    BY <2>3
<1> HIDE DEF first, readable
<1>5. /\ \A k \in 1 .. Cardinality(first) : Nth(first, k) \in first
      /\ \A j, k \in 1 .. Cardinality(first) : j < k => Nth(first, j) < Nth(first, k)
  BY <1>0, <1>1, NthIs
<1>6. \A n \in first : RankOf(first, n) \in 1 .. Cardinality(first) /\ Nth(first, RankOf(first, n)) = n
  <2>1. \A n \in first : Nth(first, RankOf(first, n)) = n
    BY <1>0, <1>1, NthIs
  <2>2. \A n \in first : RankOf(first, n) \in 1 .. Cardinality(first)
    BY <1>0, <1>1, Ranks
  <2> QED
    BY <2>1, <2>2
<1>7. Cardinality(first) \in Nat
  BY <1>0, <1>1, Ranks
<1>8. \A k \in 1 .. Cardinality(first) : c[k] = rows[Nth(first, k)].at
  BY <1>2
<1>9. DOMAIN c = 1 .. Cardinality(first)
  BY <1>2
<1>10. IsSequence(c)
  <2>1. c \in Seq({rows[n].at : n \in first})
    BY <1>2, <1>5, <1>7
  <2> QED
    BY <2>1, RangeIsEnough
<1>11. \A j, k \in DOMAIN c : j < k => c[j] < c[k]
  BY <1>3, <1>5, <1>8, <1>9
<1>12. ASSUME NEW k \in DOMAIN c PROVE \E n \in answered : rows[n].kind = "row" /\ rows[n].at = c[k]
  BY <1>1, <1>5, <1>8, <1>9 DEF readable
<1>13. ASSUME NEW n \in answered, rows[n].kind = "row" PROVE \E k \in DOMAIN c : c[k] = rows[n].at
  <2>1. PICK m \in first : rows[m].at = rows[n].at
    BY <1>4, <1>13 DEF readable
  <2>2. RankOf(first, m) \in DOMAIN c /\ c[RankOf(first, m)] = rows[m].at
    BY <1>6, <1>8, <1>9
  <2> QED
    BY <2>1, <2>2
<1>14. Values(c) = TimesRead(rows, answered)
  <2>1. \A v : v \in TimesRead(rows, answered) <=> \E n \in answered : rows[n].kind = "row" /\ rows[n].at = v
    BY DEF TimesRead
  <2>2. \A v : v \in Values(c) <=> \E k \in DOMAIN c : c[k] = v
    BY DEF Values
  <2>3. \A v : v \in Values(c) <=> v \in TimesRead(rows, answered)
    BY <1>12, <1>13, <2>1, <2>2
  <2> QED
    BY <2>3
<1> QED
  BY <1>10, <1>11, <1>14 DEF Ascends

LEMMA RawIs ==
  ASSUME NEW s \in Symbols
  PROVE  /\ Len(Raw[s]) \in Nat /\ DOMAIN Raw[s] = 1 .. Len(Raw[s])
         /\ \A n \in 1 .. Len(Raw[s]) : Raw[s][n].at \in Int
         /\ \A m, n \in 1 .. Len(Raw[s]) : m < n => Raw[s][m].at <= Raw[s][n].at
<1> DEFINE R == [at : Int, kind : {"row", "malformed"}]
<1>1. /\ Raw[s] \in Seq(R) /\ \A r \in R : r.at \in Int
      /\ \A m, n \in DOMAIN Raw[s] : m < n => Raw[s][m].at <= Raw[s][n].at
  BY AnswersInOrder
<1> HIDE DEF R
<1>2. Raw[s] \in [1 .. Len(Raw[s]) -> R] /\ Len(Raw[s]) \in Nat
  BY <1>1, LenProperties
<1> QED
  BY <1>1, <1>2

LEMMA Answered ==
  ASSUME NEW s \in Symbols, NEW f \in Nat, f < Len(Chunks), NEW front \in Int,
         front = Period.start + f * MaxDuration,
         NEW c, c = FetchHistoricalCandles(s, Chunks[f + 1])
  PROVE  /\ IsSequence(c) /\ Ascends(c)
         /\ Values(c) = {t \in Available(s) : front <= t /\ t < front + MaxDuration}
<1> DEFINE w == Chunks[f + 1]
           rows == Raw[s]
           last == Period.start + (f + 1) * MaxDuration - 1
           answered == {n \in DOMAIN rows : w.start <= rows[n].at /\ rows[n].at <= w.end}
<1>1. /\ Period.start \in Int /\ Period.end \in Int /\ MaxDuration \in Nat \ {0} /\ Len(Chunks) \in Nat
      /\ w = [start |-> Period.start + ((f + 1) - 1) * MaxDuration, end |-> Min({last, Period.end})]
  <2>1. f + 1 \in 1 .. Len(Chunks)
    BY WindowsAre
  <2> QED
    BY <2>1, WindowsAre
<1>2. w.start = front /\ w.end = Min({last, Period.end}) /\ last = front + MaxDuration - 1
  BY <1>1
<1>3. Min({last, Period.end}) \in Int /\ \A t \in Int : t <= Min({last, Period.end}) <=> t <= last /\ t <= Period.end
  <2>1. last \in Int /\ Period.end \in Int
    BY <1>1, <1>2
  <2>2. \A x, y \in Int : Min({x, y}) = IF x <= y THEN x ELSE y
    <3>1. SUFFICES ASSUME NEW x \in Int, NEW y \in Int PROVE Min({x, y}) = IF x <= y THEN x ELSE y
      OBVIOUS
    <3>2. \E z \in {x, y} : \A u \in {x, y} : z <= u
      OBVIOUS
    <3>3. Min({x, y}) \in {x, y} /\ \A u \in {x, y} : Min({x, y}) <= u
      BY <3>2 DEF Min
    <3> QED
      BY <3>3
  <2> HIDE DEF last
  <2> QED
    BY <2>1, <2>2
<1>4. /\ Len(rows) \in Nat /\ DOMAIN rows = 1 .. Len(rows) /\ \A n \in 1 .. Len(rows) : rows[n].at \in Int
      /\ \A m, n \in 1 .. Len(rows) : m < n => rows[m].at <= rows[n].at
  BY RawIs
<1>5. answered \in SUBSET (1 .. Len(rows)) /\ c = MapCandles(rows, answered)
  BY <1>4 DEF FetchHistoricalCandles
<1>6. \A t : (\E n \in answered : rows[n].kind = "row" /\ rows[n].at = t)
                <=> t \in Available(s) /\ front <= t /\ t < front + MaxDuration
  <2>1. \A n \in DOMAIN rows : n \in answered <=> /\ front <= rows[n].at /\ rows[n].at < front + MaxDuration
                                                  /\ rows[n].at <= Period.end
    <3>1. SUFFICES ASSUME NEW n \in DOMAIN rows
                   PROVE  n \in answered <=> /\ front <= rows[n].at /\ rows[n].at < front + MaxDuration
                                             /\ rows[n].at <= Period.end
      OBVIOUS
    <3>2. rows[n].at \in Int
      BY <1>4
    <3>3. n \in answered <=> w.start <= rows[n].at /\ rows[n].at <= w.end
      OBVIOUS
    <3> HIDE DEF answered, w, last, rows
    <3>4. Period.end \in Int /\ MaxDuration \in Int
      BY <1>1
    <3>5. rows[n].at <= w.end <=> rows[n].at <= last /\ rows[n].at <= Period.end
      BY <1>2, <1>3, <3>2
    <3> QED
      BY <1>2, <3>2, <3>3, <3>4, <3>5
  <2>2. front >= Period.start
    <3>1. f * MaxDuration >= 0
      BY <1>1
    <3> QED
      BY <1>1, <3>1
  <2>3. Available(s) = {rows[n].at : n \in {m \in DOMAIN rows : rows[m].kind = "row"}} \intersect (Period.start .. Period.end)
    BY DEF Available
  <2>4. answered \subseteq DOMAIN rows
    OBVIOUS
  <2> HIDE DEF answered, rows
  <2>6. \A t : t \in Available(s)
                 <=> \E n \in DOMAIN rows : /\ rows[n].kind = "row" /\ rows[n].at = t
                                            /\ t \in Period.start .. Period.end
    BY <2>3
  <2>7. \A n \in DOMAIN rows : n \in answered <=> /\ front <= rows[n].at /\ rows[n].at < front + MaxDuration
                                                  /\ rows[n].at \in Period.start .. Period.end
    BY <1>1, <1>4, <2>1, <2>2
  <2>8. SUFFICES ASSUME NEW t
                 PROVE  (\E n \in answered : rows[n].kind = "row" /\ rows[n].at = t)
                          <=> t \in Available(s) /\ front <= t /\ t < front + MaxDuration
    OBVIOUS
  <2>9. t \in Available(s) <=> \E n \in DOMAIN rows : /\ rows[n].kind = "row" /\ rows[n].at = t
                                                      /\ t \in Period.start .. Period.end
    BY <2>6
  <2> QED
    BY <2>4, <2>7, <2>9
<1> QED
  <2> HIDE DEF answered, rows
  <2>1. RowsInOrder(rows, Len(rows)) /\ answered \subseteq 1 .. Len(rows) /\ c = MapCandles(rows, answered)
    BY <1>4, <1>5 DEF RowsInOrder
  <2>2. IsSequence(c) /\ Ascends(c) /\ Values(c) = TimesRead(rows, answered)
    BY <2>1, Mapped
  <2>3. \A t : t \in TimesRead(rows, answered) <=> t \in Available(s) /\ front <= t /\ t < front + MaxDuration
    BY <1>6 DEF TimesRead
  <2> QED
    BY <2>2, <2>3

(* An iterator begins with all before it, gives the first of its buffer,   *)
(* fills it from the next window, and has given everything at the end.     *)
LEMMA IteratorBegins == ASSUME NEW s \in Symbols PROVE Iterator(s, 0, <<>>, {})
<1>1. \A t \in Available(s) : Period.start + 0 * MaxDuration <= t
  BY WindowsAre DEF Available
<1>2. IsSequence(<<>>) /\ DOMAIN <<>> = {}
  BY DEF IsSequence
<1> QED
  BY <1>1, <1>2 DEF Iterator, Ascends, Values

LEMMA IteratorGives ==
  ASSUME NEW s \in Symbols, NEW f \in Nat, NEW b, NEW g, Iterator(s, f, b, g), b # <<>>
  PROVE  Iterator(s, f, Tail(b), g \union {Head(b)}) /\ Head(b) \in Int /\ \A t \in g : t < Head(b)
<1> DEFINE front == Period.start + f * MaxDuration
           r == Tail(b)
           L == Len(b) - 1
<1>1. /\ IsSequence(r) /\ L \in Nat /\ DOMAIN b = 1 .. L + 1 /\ DOMAIN r = 1 .. L
      /\ (\A n \in 1 .. L : r[n] = b[n + 1]) /\ Head(b) = b[1]
  BY Tailed DEF Iterator
<1>2. /\ \A k \in DOMAIN b : b[k] \in Int /\ b[k] < front
      /\ \A j, k \in DOMAIN b : j < k => b[j] < b[k]
      /\ g \subseteq Int /\ \A t \in g : t < front /\ \A k \in DOMAIN b : t < b[k]
      /\ g \union Values(b) \subseteq Available(s)
      /\ \A t \in Available(s) : t \in g \union Values(b) \/ front <= t
  BY DEF Iterator, Ascends
<1> HIDE DEF r, L, front
<1>3. Values(b) = Values(r) \union {b[1]}
  <2>1. \A k \in DOMAIN r : r[k] \in Values(b)
    BY <1>1 DEF Values
  <2>2. \A k \in DOMAIN b : b[k] = b[1] \/ b[k] \in Values(r)
    <3>1. SUFFICES ASSUME NEW k \in DOMAIN b, k # 1 PROVE b[k] \in Values(r)
      OBVIOUS
    <3>2. k - 1 \in 1 .. L /\ (k - 1) + 1 = k
      BY <1>1, <3>1
    <3>3. r[k - 1] = b[k]
      BY <1>1, <3>2
    <3> QED
      BY <1>1, <3>2, <3>3 DEF Values
  <2>3. b[1] \in Values(b)
    <3>1. 1 \in DOMAIN b
      BY <1>1
    <3> QED
      BY <3>1 DEF Values
  <2> QED
    BY <2>1, <2>2, <2>3 DEF Values
<1>0. \A k \in 1 .. L : k + 1 \in DOMAIN b /\ 1 \in DOMAIN b /\ 1 < k + 1 /\ r[k] = b[k + 1] /\ k \in Nat
  BY <1>1
<1>4. \A k \in 1 .. L : b[1] < r[k] /\ r[k] \in Int /\ r[k] < front
  BY <1>0, <1>2
<1>5. \A j, k \in 1 .. L : j < k => r[j] < r[k]
  <2>1. \A j, k \in 1 .. L : j < k => j + 1 < k + 1
    BY <1>0
  <2> QED
    BY <1>0, <1>2, <2>1
<1>6. \A t \in g : t < b[1] /\ \A k \in 1 .. L : t < r[k]
  BY <1>1, <1>2
<1>7. b[1] \in Int /\ b[1] < front
  BY <1>1, <1>2
<1>8. Iterator(s, f, r, g \union {b[1]})
  BY <1>1, <1>2, <1>3, <1>4, <1>5, <1>6, <1>7 DEF Iterator, Ascends, front
<1> QED
  BY <1>1, <1>6, <1>7, <1>8 DEF r

LEMMA IteratorFetches ==
  ASSUME NEW s \in Symbols, NEW f \in Nat, f < Len(Chunks), NEW g, Iterator(s, f, <<>>, g),
         NEW c, c = FetchHistoricalCandles(s, Chunks[f + 1])
  PROVE  Iterator(s, f + 1, c, g)
<1>1. Period.start \in Int /\ MaxDuration \in Nat \ {0}
  BY WindowsAre
<1>2. PICK front \in Int : front = Period.start + f * MaxDuration
  BY <1>1
<1>3. Period.start + (f + 1) * MaxDuration = front + MaxDuration
  BY <1>1, <1>2
<1>4. /\ IsSequence(c) /\ Ascends(c)
      /\ Values(c) = {t \in Available(s) : front <= t /\ t < front + MaxDuration}
  BY <1>2, Answered
<1>5. /\ g \subseteq Int /\ \A t \in g : t < front
      /\ g \subseteq Available(s)
      /\ \A t \in Available(s) : t \in g \/ front <= t
  BY <1>2 DEF Iterator, Values
<1>6. \A t \in Available(s) : t \in Int
  BY DEF Available
<1>7. \A k \in DOMAIN c : c[k] \in Available(s) /\ c[k] \in Int /\ front <= c[k] /\ c[k] < front + MaxDuration
  BY <1>4, <1>6 DEF Values
<1>8. \A t \in Available(s) : t \in g \union Values(c) \/ front + MaxDuration <= t
  BY <1>1, <1>2, <1>4, <1>5, <1>6
<1>9. \A t \in g : t < front + MaxDuration /\ \A k \in DOMAIN c : t < c[k]
  BY <1>1, <1>2, <1>5, <1>7
<1>10. g \union Values(c) \subseteq Available(s)
  BY <1>4, <1>5
<1> QED
  BY <1>3, <1>4, <1>5, <1>7, <1>8, <1>9, <1>10 DEF Iterator

LEMMA IteratorEnds ==
  ASSUME NEW s \in Symbols, NEW g, Iterator(s, Len(Chunks), <<>>, g)
  PROVE  Available(s) = g
<1>1. \A t \in Available(s) : t \in Int /\ ~(Period.start + Len(Chunks) * MaxDuration <= t)
  BY WindowsAre DEF Available
<1>2. Values(<<>>) = {}
  BY DEF Values
<1> QED
  BY <1>1, <1>2 DEF Iterator

(* An attempt at the stream. `then` is what follows when an iterator has   *)
(* answered, `asked` the symbol it is asked for, `requested` the one whose *)
(* next window is awaited.                                                 *)
SentNow == {published[n] : n \in InRound(round)}
Carried(then) == IF then.at = "sending" THEN {then.entry} ELSE {}
Unasked(then, asked) == (IF then.at = "priming" THEN then.left ELSE {}) \union asked
Of(s, candles) == {c.at : c \in {d \in candles : d.symbol = s}}
Given(s, then) == Of(s, SentNow \union Carried(then) \union heap)
Fetched(s, requested) == chunkPos[s] - (IF s \in requested THEN 2 ELSE 1)

Before(c, d) == c.at <= d.at /\ (c.symbol = d.symbol => c.at < d.at)
InTime(sent, carried, held) ==
  /\ \A c \in sent : \A d \in carried \union held : Before(c, d)
  /\ \A c \in carried : \A d \in held : Before(c, d)
  /\ \A c, d \in held : c.symbol = d.symbol => c = d
  /\ \A c \in sent \union carried \union held : c.at \in Int
Doing(then, asked, requested) ==
  /\ then.at \in {"priming", "streaming", "sending"} /\ (then.at = "streaming" => asked = {})
  /\ then.at = "priming" => SentNow = {} /\ then.left \subseteq symbolsKept \ asked
  /\ requested \subseteq asked /\ asked \subseteq symbolsKept
  /\ \A s \in requested : buffers[s] = <<>> /\ chunkPos[s] >= 2
  /\ \A c \in Carried(then) : c.round = round /\ \A s \in asked : c.symbol = s
  /\ \A c \in SentNow \union Carried(then) \union heap : c.symbol \in symbolsKept
Reached(s, then, asked) ==
  IF s \in Unasked(then, asked) THEN \A c \in heap : c.symbol # s
  ELSE (\E c \in heap : c.symbol = s) \/ (buffers[s] = <<>> /\ chunkPos[s] = Len(Chunks) + 1)
Attempt(then, asked, requested) ==
  /\ Doing(then, asked, requested) /\ InTime(SentNow, Carried(then), heap)
  /\ \A s \in symbolsKept : Iterator(s, Fetched(s, requested), buffers[s], Given(s, then))
  /\ \A s \in symbolsKept : Reached(s, then, asked)

Asking == loop.at \in {"iterating", "requesting"}
InAttempt ==
  Attempt(IF Asking THEN loop.then ELSE loop, IF Asking THEN {loop.symbol} ELSE {},
          IF loop.at = "requesting" THEN {loop.symbol} ELSE {})

Iterators ==
  /\ symbolsKept \subseteq Symbols /\ DOMAIN chunkPos = symbolsKept /\ DOMAIN buffers = symbolsKept
  /\ \A s \in symbolsKept : chunkPos[s] \in 1 .. Len(Chunks) + 1
GrowwInv ==
  /\ IsSequence(published) /\ round \in Nat /\ \A n \in DOMAIN published : published[n].round \in 0 .. round
  /\ Iterators /\ GrowwMerged /\ GrowwComplete
  /\ loop.at \in {"none", "gone", "looking", "failed", "priming", "iterating", "requesting", "streaming", "sending"}
  /\ loop.at \in {"priming", "iterating", "requesting", "streaming", "sending"} => InAttempt

(* Begun for the symbols subscribed.                                       *)
LEMMA AttemptBegins ==
  ASSUME NEW kept \in SUBSET Symbols, symbolsKept' = kept, InRound(round)' = {}, heap' = {},
         chunkPos' = [s \in kept |-> 1], buffers' = [s \in kept |-> <<>>],
         NEW t, t = [at |-> "priming", left |-> kept]
  PROVE  Attempt(t, {}, {})' /\ Iterators'
<1>1. SentNow' = {} /\ Carried(t) = {} /\ t.at = "priming" /\ t.left = kept
  BY DEF SentNow, Carried
<1>2. Unasked(t, {}) = kept
  BY <1>1 DEF Unasked
<1>3. \A s \in kept : Given(s, t)' = {} /\ Fetched(s, {})' = 0 /\ buffers'[s] = <<>> /\ s \in Symbols
  BY <1>1 DEF Given, Of, Fetched
<1>4. Doing(t, {}, {})'
  BY <1>1 DEF Doing
<1>5. InTime(SentNow, Carried(t), heap)'
  BY <1>1 DEF InTime
<1>6. \A s \in kept : Iterator(s, Fetched(s, {}), buffers[s], Given(s, t))'
  <2>1. \A s \in kept : Iterator(s, 0, <<>>, {})
    BY <1>3, IteratorBegins
  <2> QED
    BY <1>3, <2>1
<1>7. \A s \in kept : Reached(s, t, {})'
  BY <1>2 DEF Reached
<1>8. Iterators'
  BY WindowsAre DEF Iterators
<1> QED
  BY <1>4, <1>5, <1>6, <1>7, <1>8 DEF Attempt

(* The next candle of the symbol asked for, from its buffer.               *)
LEMMA AttemptGives ==
  ASSUME NEW t, NEW s, Attempt(t, {s}, {}), Iterators, buffers[s] # <<>>,
         heap' = heap \union {[symbol |-> s, at |-> Head(buffers[s])]},
         buffers' = [buffers EXCEPT ![s] = Tail(@)],
         UNCHANGED <<symbolsKept, chunkPos, published, round>>
  PROVE  Attempt(t, {}, {})' /\ Iterators'
<1> DEFINE new == [symbol |-> s, at |-> Head(buffers[s])]
           f == chunkPos[s] - 1
<1>1. /\ SentNow' = SentNow /\ s \in symbolsKept /\ s \in Symbols /\ Doing(t, {s}, {}) /\ InTime(SentNow, Carried(t), heap)
      /\ \A c \in heap : c.symbol # s
  BY DEF Attempt, Doing, Iterators, SentNow, InRound, Reached, Unasked
<1>2. Iterators' /\ buffers'[s] = Tail(buffers[s]) /\ \A u \in symbolsKept \ {s} : buffers'[u] = buffers[u]
  BY <1>1 DEF Iterators
<1>3. f \in Nat /\ Iterator(s, f, buffers[s], Given(s, t))
  BY <1>1, WindowsAre DEF Attempt, Fetched, Iterators
<1>4. Iterator(s, f, buffers'[s], Given(s, t) \union {new.at}) /\ new.at \in Int /\ \A x \in Given(s, t) : x < new.at
  BY <1>1, <1>2, <1>3, IteratorGives
<1>5. heap' = heap \union {new} /\ new.symbol = s
  OBVIOUS
<1> HIDE DEF new, f
<1>6. Given(s, t)' = Given(s, t) \union {new.at}
  BY <1>1, <1>5 DEF Given, Of
<1>7. \A u \in symbolsKept \ {s} : Given(u, t)' = Given(u, t)
  BY <1>1, <1>5 DEF Given, Of
<1>8. \A u \in symbolsKept : Iterator(u, Fetched(u, {}), buffers[u], Given(u, t))'
  <2>1. \A u \in symbolsKept \ {s} : Iterator(u, Fetched(u, {})', buffers'[u], Given(u, t)')
    BY <1>2, <1>7 DEF Attempt, Fetched
  <2>2. Fetched(s, {})' = f
    BY DEF Fetched, f
  <2> QED
    BY <1>4, <1>6, <2>1, <2>2
<1>9. \A c \in SentNow \union Carried(t) : c.at <= new.at /\ (c.symbol = s => c.at < new.at)
  <2>1. \A c \in SentNow \union Carried(t) : c.symbol = s => c.at \in Given(s, t)
    BY DEF Given, Of
  <2>2. \A c \in Carried(t) : c.symbol = s
    BY <1>1 DEF Doing
  <2>3. \A c \in Carried(t) : c.at < new.at /\ c.at \in Int
    BY <1>1, <1>4, <2>1, <2>2 DEF InTime
  <2>4. ASSUME NEW c \in SentNow PROVE c.at <= new.at
    <3>1. t.at = "sending"
      BY <1>1, <2>4 DEF Doing
    <3>2. t.entry \in Carried(t)
      BY <3>1 DEF Carried
    <3>3. c.at <= t.entry.at /\ c.at \in Int
      BY <1>1, <3>2 DEF InTime, Before
    <3> QED
      BY <1>4, <2>3, <3>2, <3>3
  <2> QED
    BY <1>4, <2>1, <2>3, <2>4
<1>10. InTime(SentNow, Carried(t), heap)'
  BY <1>1, <1>4, <1>5, <1>9 DEF InTime, Before
<1>11. Doing(t, {}, {})'
  BY <1>1, <1>5 DEF Doing
<1>12. \A u \in symbolsKept : Reached(u, t, {})'
  <2>1. ASSUME NEW u \in symbolsKept, u # s PROVE Reached(u, t, {})'
    <3>1. Reached(u, t, {s}) /\ (u \in Unasked(t, {}) <=> u \in Unasked(t, {s}))
      BY <2>1 DEF Attempt, Unasked
    <3> QED
      BY <1>2, <1>5, <2>1, <3>1 DEF Reached
  <2>2. s \notin Unasked(t, {})
    BY <1>1 DEF Doing, Unasked
  <2>3. Reached(s, t, {})'
    BY <1>5, <2>2 DEF Reached
  <2> QED
    BY <2>1, <2>3
<1> QED
  BY <1>2, <1>8, <1>10, <1>11, <1>12 DEF Attempt

(* It has none left.                                                       *)
LEMMA AttemptEnds ==
  ASSUME NEW t, NEW s, Attempt(t, {s}, {}), Iterators, buffers[s] = <<>>, chunkPos[s] > Len(Chunks)
  PROVE  Attempt(t, {}, {})
<1>1. chunkPos[s] = Len(Chunks) + 1
  BY WindowsAre DEF Iterators, Attempt, Doing
<1>2. \A u \in symbolsKept : Reached(u, t, {})
  <2>1. ASSUME NEW u \in symbolsKept, u # s PROVE Reached(u, t, {})
    <3>1. Reached(u, t, {s}) /\ (u \in Unasked(t, {}) <=> u \in Unasked(t, {s}))
      BY <2>1 DEF Attempt, Unasked
    <3> QED
      BY <3>1 DEF Reached
  <2>2. s \notin Unasked(t, {})
    BY DEF Attempt, Doing, Unasked
  <2>3. Reached(s, t, {})
    BY <1>1, <2>2 DEF Reached
  <2> QED
    BY <2>1, <2>3
<1>3. Doing(t, {}, {})
  BY DEF Attempt, Doing
<1> QED
  BY <1>2, <1>3 DEF Attempt

(* Its next window is asked for, and answered.                             *)
LEMMA AttemptRequests ==
  ASSUME NEW t, NEW s, Attempt(t, {s}, {}), Iterators, buffers[s] = <<>>, ~(chunkPos[s] > Len(Chunks)),
         chunkPos' = [chunkPos EXCEPT ![s] = @ + 1],
         UNCHANGED <<symbolsKept, buffers, heap, published, round>>
  PROVE  Attempt(t, {s}, {s})' /\ Iterators'
<1>1. SentNow' = SentNow /\ s \in symbolsKept /\ Doing(t, {s}, {}) /\ \A u : Given(u, t)' = Given(u, t)
  BY DEF Attempt, Doing, SentNow, InRound, Given
<1>2. /\ chunkPos[s] \in 1 .. Len(Chunks) /\ Len(Chunks) \in Nat
      /\ chunkPos'[s] = chunkPos[s] + 1 /\ \A u \in symbolsKept \ {s} : chunkPos'[u] = chunkPos[u]
  BY <1>1, WindowsAre DEF Iterators
<1>3. Iterators'
  <2>1. DOMAIN chunkPos' = symbolsKept /\ \A u \in symbolsKept : chunkPos'[u] \in 1 .. Len(Chunks) + 1
    BY <1>2 DEF Iterators
  <2> QED
    BY <2>1 DEF Iterators
<1>4. \A u \in symbolsKept : Fetched(u, {s})' = Fetched(u, {})
  BY <1>2 DEF Fetched
<1>5. \A u \in symbolsKept : Iterator(u, Fetched(u, {s}), buffers[u], Given(u, t))'
  <2>1. \A u \in symbolsKept : Iterator(u, Fetched(u, {s})', buffers[u], Given(u, t)')
    BY <1>1, <1>4 DEF Attempt
  <2> QED
    BY <2>1
<1>6. Doing(t, {s}, {s})'
  BY <1>1, <1>2 DEF Doing
<1>7. InTime(SentNow, Carried(t), heap)'
  BY <1>1 DEF Attempt
<1>8. \A u \in symbolsKept : Reached(u, t, {s})'
  <2>1. s \in Unasked(t, {s})
    BY DEF Unasked
  <2> QED
    BY <1>2, <2>1 DEF Attempt, Reached
<1> QED
  BY <1>3, <1>5, <1>6, <1>7, <1>8 DEF Attempt

LEMMA AttemptAnswered ==
  ASSUME NEW t, NEW s, Attempt(t, {s}, {s}), Iterators,
         buffers' = [buffers EXCEPT ![s] = FetchHistoricalCandles(s, Chunks[chunkPos[s] - 1])],
         UNCHANGED <<symbolsKept, chunkPos, heap, published, round>>
  PROVE  Attempt(t, {s}, {})' /\ Iterators'
<1>1. /\ SentNow' = SentNow /\ s \in symbolsKept /\ s \in Symbols /\ Doing(t, {s}, {s})
      /\ \A u : Given(u, t)' = Given(u, t)
  BY DEF Attempt, Doing, SentNow, InRound, Given, Iterators
<1>2. PICK f \in Nat : f + 1 = chunkPos[s] - 1 /\ f < Len(Chunks) /\ f = Fetched(s, {s}) /\ f + 1 = Fetched(s, {})
  <2>1. chunkPos[s] \in 2 .. Len(Chunks) + 1 /\ Len(Chunks) \in Nat
    BY <1>1, WindowsAre DEF Doing, Iterators
  <2> QED
    BY <2>1 DEF Fetched
<1>3. /\ buffers[s] = <<>> /\ buffers'[s] = FetchHistoricalCandles(s, Chunks[f + 1])
      /\ \A u \in symbolsKept \ {s} : buffers'[u] = buffers[u]
  BY <1>1, <1>2 DEF Doing, Iterators
<1>4. Iterators'
  BY DEF Iterators
<1>5. Iterator(s, f + 1, buffers'[s], Given(s, t))
  <2>1. Iterator(s, f, <<>>, Given(s, t))
    BY <1>1, <1>2, <1>3 DEF Attempt
  <2> QED
    BY <1>1, <1>2, <1>3, <2>1, IteratorFetches
<1>6. \A u \in symbolsKept : Iterator(u, Fetched(u, {}), buffers[u], Given(u, t))'
  <2>1. \A u \in symbolsKept : Fetched(u, {})' = Fetched(u, {}) /\ (u # s => Fetched(u, {}) = Fetched(u, {s}))
    BY DEF Fetched
  <2>2. \A u \in symbolsKept : Iterator(u, Fetched(u, {})', buffers'[u], Given(u, t)')
    BY <1>1, <1>2, <1>3, <1>5, <2>1 DEF Attempt
  <2> QED
    BY <2>2
<1>7. Doing(t, {s}, {})'
  BY <1>1 DEF Doing
<1>8. InTime(SentNow, Carried(t), heap)'
  BY <1>1 DEF Attempt
<1>9. \A u \in symbolsKept : Reached(u, t, {s})'
  <2>1. s \in Unasked(t, {s})
    BY DEF Unasked
  <2> QED
    BY <1>3, <2>1 DEF Attempt, Reached
<1> QED
  BY <1>4, <1>6, <1>7, <1>8, <1>9 DEF Attempt

(* The earliest candle is popped, and what was sent is not behind it.      *)
LEMMA AttemptPops ==
  ASSUME NEW t, t.at = "streaming", Attempt(t, {}, {}), Iterators, NEW c \in PopsEarliest,
         heap' = heap \ {c}, UNCHANGED <<symbolsKept, chunkPos, buffers, published, round>>,
         NEW p, p = [at |-> "sending", entry |-> [symbol |-> c.symbol, at |-> c.at, round |-> round]]
  PROVE  Attempt(p, {c.symbol}, {})' /\ Iterators'
<1> DEFINE e == p.entry
<1>1. /\ SentNow' = SentNow /\ Carried(t) = {} /\ Carried(p) = {e} /\ p.at = "sending"
      /\ e.symbol = c.symbol /\ e.at = c.at /\ e.round = round
      /\ c \in heap /\ \A d \in heap : c.at <= d.at
      /\ Doing(t, {}, {}) /\ InTime(SentNow, {}, heap)
  BY DEF Attempt, SentNow, InRound, Carried, PopsEarliest
<1> HIDE DEF e
<1>2. \A d \in heap \ {c} : d.symbol # c.symbol
  BY <1>1 DEF InTime
<1>3. Doing(p, {c.symbol}, {})'
  BY <1>1 DEF Doing
<1>4. InTime(SentNow, Carried(p), heap)'
  BY <1>1, <1>2 DEF InTime, Before
<1>5. \A u : Given(u, p)' = Given(u, t)
  BY <1>1 DEF Given, Of
<1>6. \A u \in symbolsKept : Iterator(u, Fetched(u, {}), buffers[u], Given(u, p))'
  <2>1. \A u \in symbolsKept : Iterator(u, Fetched(u, {})', buffers[u], Given(u, p)')
    BY <1>5 DEF Attempt, Fetched
  <2> QED
    BY <2>1
<1>7. \A u \in symbolsKept : Reached(u, p, {c.symbol})'
  <2>1. Unasked(t, {}) = {} /\ Unasked(p, {c.symbol}) = {c.symbol}
    BY <1>1 DEF Unasked
  <2> QED
    BY <1>1, <1>2, <2>1 DEF Attempt, Reached
<1> QED
  BY <1>3, <1>4, <1>6, <1>7 DEF Attempt, Iterators

(* What is popped last of a symbol with nothing left completes it.         *)
LEMMA AttemptCompletes ==
  ASSUME NEW t, t.at = "streaming", Attempt(t, {}, {}), Iterators, heap = {}, IsSequence(published)
  PROVE  {<<published[n].symbol, published[n].at>> : n \in InRound(round)}
           = UNION {{<<s, x>> : x \in Available(s)} : s \in symbolsKept}
<1>1. Unasked(t, {}) = {} /\ Carried(t) = {}
  BY DEF Unasked, Carried
<1>2. ASSUME NEW s \in symbolsKept PROVE Available(s) = Of(s, SentNow)
  <2>1. buffers[s] = <<>> /\ chunkPos[s] = Len(Chunks) + 1 /\ s \in Symbols
    BY <1>1 DEF Attempt, Reached, Iterators
  <2>2. Given(s, t) = Of(s, SentNow) /\ Fetched(s, {}) = Len(Chunks)
    BY <1>1, <2>1, WindowsAre DEF Given, Fetched
  <2> QED
    BY <2>1, <2>2, IteratorEnds DEF Attempt
<1>3. \A c \in SentNow : c.symbol \in symbolsKept
  BY DEF Attempt, Doing
<1>4. \A n \in InRound(round) : published[n].symbol \in symbolsKept /\ published[n].at \in Available(published[n].symbol)
  BY <1>2, <1>3 DEF SentNow, Of
<1>5. \A s \in symbolsKept : \A x \in Available(s) :
        \E n \in InRound(round) : published[n].symbol = s /\ published[n].at = x
  BY <1>2 DEF SentNow, Of
<1> QED
  BY <1>4, <1>5

(* It is sent.                                                             *)
LEMMA AttemptSends ==
  ASSUME NEW t, t.at = "sending", Attempt(t, {}, {}), Iterators, IsSequence(published), GrowwMerged,
         published' = Append(published, t.entry), NEW p, p = [at |-> "streaming"],
         UNCHANGED <<symbolsKept, chunkPos, buffers, heap, round>>
  PROVE  Attempt(p, {}, {})' /\ Iterators' /\ GrowwMerged'
<1> DEFINE e == t.entry
           L == Len(published)
<1>1. /\ Carried(t) = {e} /\ Carried(p) = {} /\ e.round = round
      /\ Doing(t, {}, {}) /\ InTime(SentNow, {e}, heap)
  BY DEF Attempt, Carried, Doing
<1>2. /\ L \in Nat /\ DOMAIN published = 1 .. L /\ DOMAIN published' = 1 .. L + 1
      /\ (\A n \in 1 .. L : published'[n] = published[n]) /\ published'[L + 1] = e
  BY Appended
<1> HIDE DEF e, L
<1>3. InRound(round)' = InRound(round) \union {L + 1} /\ InRound(round) \subseteq 1 .. L
  BY <1>1, <1>2 DEF InRound
<1>4. SentNow' = SentNow \union {e}
  <2>1. SentNow' = {published'[n] : n \in InRound(round)'}
    BY DEF SentNow
  <2> QED
    BY <1>2, <1>3, <2>1 DEF SentNow
<1>5. Doing(p, {}, {})'
  BY <1>1, <1>4 DEF Doing
<1>6. InTime(SentNow, Carried(p), heap)'
  BY <1>1, <1>4 DEF InTime
<1>7. \A u : Given(u, p)' = Given(u, t)
  BY <1>1, <1>4 DEF Given, Of
<1>8. \A u \in symbolsKept : Iterator(u, Fetched(u, {}), buffers[u], Given(u, p))'
  <2>1. \A u \in symbolsKept : Iterator(u, Fetched(u, {})', buffers[u], Given(u, p)')
    BY <1>7 DEF Attempt, Fetched
  <2> QED
    BY <2>1
<1>9. \A u \in symbolsKept : Reached(u, p, {})'
  <2>1. Unasked(t, {}) = {} /\ Unasked(p, {}) = {}
    BY DEF Unasked
  <2> QED
    BY <2>1 DEF Attempt, Reached
<1>10. GrowwMerged'
  <2>1. SUFFICES ASSUME NEW i \in InRound(round)', NEW j \in InRound(round)', i < j
                 PROVE  /\ published'[i].at <= published'[j].at
                        /\ published'[i].at = published'[j].at => published'[i].symbol # published'[j].symbol
    BY DEF GrowwMerged
  <2>2. i \in InRound(round) /\ published'[i] = published[i] /\ published[i] \in SentNow
    BY <1>2, <1>3, <2>1 DEF SentNow
  <2>3. CASE j \in InRound(round)
    BY <1>2, <1>3, <2>1, <2>2, <2>3 DEF GrowwMerged
  <2>4. CASE j = L + 1
    <3>1. Before(published[i], e) /\ published[i].at \in Int /\ e.at \in Int
      BY <1>1, <2>2 DEF InTime
    <3> QED
      BY <1>2, <2>2, <2>4, <3>1 DEF Before
  <2> QED
    BY <1>3, <2>3, <2>4
<1> QED
  BY <1>5, <1>6, <1>8, <1>9, <1>10 DEF Attempt, Iterators

LEMMA GrowwBegins == FeedInit /\ GrowwInit => GrowwInv
<1> SUFFICES ASSUME FeedInit, GrowwInit PROVE GrowwInv
  OBVIOUS
<1>1. /\ IsSequence(<<>>) /\ DOMAIN <<>> = {} /\ published = <<>> /\ loop.at = "none" /\ round = 0
      /\ symbolsKept = {} /\ chunkPos = <<>> /\ buffers = <<>>
  BY DEF IsSequence, FeedInit, GrowwInit, NotStarted
<1>2. InRound(round) = {}
  BY <1>1 DEF InRound
<1> QED
  BY <1>1, <1>2 DEF GrowwInv, Iterators, GrowwMerged, GrowwComplete

(* Outside of an attempt, and where calls do not interfere with one.       *)
LEMMA GrowwRests ==
  ASSUME GrowwInv, UNCHANGED <<published, symbolsKept, chunkPos, buffers, heap, round>>,
         loop'.at \in {"none", "gone", "looking", "failed"}, GrowwComplete'
  PROVE  GrowwInv'
<1>1. GrowwMerged' /\ Iterators'
  BY DEF GrowwInv, GrowwMerged, InRound, Iterators
<1> QED
  BY <1>1 DEF GrowwInv

LEMMA AttemptStays ==
  ASSUME NEW t, NEW a, NEW r, Attempt(t, a, r),
         UNCHANGED <<published, symbolsKept, chunkPos, buffers, heap, round>>
  PROVE  Attempt(t, a, r)'
<1>1. SentNow' = SentNow /\ \A u : Given(u, t)' = Given(u, t) /\ Fetched(u, r)' = Fetched(u, r)
  BY DEF SentNow, InRound, Given, Fetched
<1>2. \A u \in symbolsKept : Iterator(u, Fetched(u, r), buffers[u], Given(u, t))'
  <2>1. \A u \in symbolsKept : Iterator(u, Fetched(u, r)', buffers[u], Given(u, t)')
    BY <1>1 DEF Attempt
  <2> QED
    BY <2>1
<1>3. Doing(t, a, r)' /\ InTime(SentNow, Carried(t), heap)' /\ \A u \in symbolsKept : Reached(u, t, a)'
  BY <1>1 DEF Attempt, Doing, InTime, Reached
<1> QED
  BY <1>2, <1>3 DEF Attempt

LEMMA GrowwStays ==
  ASSUME GrowwInv, UNCHANGED <<loop, published, symbolsKept, chunkPos, buffers, heap, round>>,
         connected' => connected
  PROVE  GrowwInv'
<1>1. GrowwMerged' /\ Iterators' /\ GrowwComplete'
  BY DEF GrowwInv, GrowwMerged, GrowwComplete, InRound, Iterators
<1>2. PICK t, a, r : /\ t = IF Asking THEN loop.then ELSE loop
                     /\ a = IF Asking THEN {loop.symbol} ELSE {}
                     /\ r = IF loop.at = "requesting" THEN {loop.symbol} ELSE {}
  OBVIOUS
<1>3. (InAttempt <=> Attempt(t, a, r)) /\ (InAttempt' <=> Attempt(t, a, r)')
  BY <1>2 DEF InAttempt, Asking
<1>4. Attempt(t, a, r) => Attempt(t, a, r)'
  BY AttemptStays
<1> QED
  BY <1>1, <1>3, <1>4 DEF GrowwInv

(* Another step of an attempt.                                             *)
LEMMA GrowwGoesOn ==
  ASSUME GrowwInv, UNCHANGED <<published, round>>, Iterators', InAttempt',
         loop'.at \in {"priming", "iterating", "requesting", "streaming", "sending"}
  PROVE  GrowwInv'
<1>1. GrowwMerged' /\ GrowwComplete'
  BY DEF GrowwInv, GrowwMerged, GrowwComplete, InRound
<1> QED
  BY <1>1 DEF GrowwInv

LEMMA IteratingNext ==
  ASSUME NEW t, NEW s, loop' = [at |-> "iterating", symbol |-> s, then |-> t], Attempt(t, {s}, {})'
  PROVE  InAttempt' /\ loop'.at = "iterating"
BY DEF InAttempt, Asking

LEMMA RequestingNext ==
  ASSUME NEW t, NEW s, NEW n, loop' = [at |-> "requesting", symbol |-> s, then |-> t, attempt |-> n],
         Attempt(t, {s}, {s})'
  PROVE  InAttempt' /\ loop'.at = "requesting"
BY DEF InAttempt, Asking

LEMMA GoingOn ==
  ASSUME NEW t, loop' = t, t.at \in {"priming", "streaming", "sending"}, Attempt(t, {}, {})'
  PROVE  InAttempt' /\ loop'.at = t.at
BY DEF InAttempt, Asking

LEMMA IteratesKeeps == ASSUME GrowwInv, Iterates PROVE GrowwInv'
<1>1. PICK s, t : s = loop.symbol /\ t = loop.then
  OBVIOUS
<1>2. Attempt(t, {s}, {}) /\ Iterators /\ loop.at = "iterating"
  BY <1>1 DEF Iterates, GrowwInv, InAttempt, Asking
<1>3. t.at \in {"priming", "streaming", "sending"}
  BY <1>2 DEF Attempt, Doing
<1>4. CASE buffers[s] # <<>>
  <2>1. /\ heap' = heap \union {[symbol |-> s, at |-> Head(buffers[s])]}
        /\ buffers' = [buffers EXCEPT ![s] = Tail(@)] /\ loop' = t
        /\ UNCHANGED <<symbolsKept, chunkPos, published, round>>
    BY <1>1, <1>4 DEF Iterates, GMoves
  <2>2. Attempt(t, {}, {})' /\ Iterators'
    BY <1>2, <1>4, <2>1, AttemptGives
  <2> QED
    BY <1>3, <2>1, <2>2, GoingOn, GrowwGoesOn
<1>5. CASE buffers[s] = <<>> /\ chunkPos[s] > Len(Chunks)
  <2>1. loop' = t /\ UNCHANGED <<symbolsKept, chunkPos, buffers, heap, published, round>>
    BY <1>1, <1>5 DEF Iterates, GMoves, growwVars
  <2>2. Attempt(t, {}, {})' /\ Iterators'
    BY <1>2, <1>5, <2>1, AttemptEnds, AttemptStays DEF Iterators
  <2> QED
    BY <1>3, <2>1, <2>2, GoingOn, GrowwGoesOn
<1>6. CASE buffers[s] = <<>> /\ ~(chunkPos[s] > Len(Chunks))
  <2>1. /\ chunkPos' = [chunkPos EXCEPT ![s] = @ + 1]
        /\ loop' = [at |-> "requesting", symbol |-> s, then |-> t, attempt |-> 1]
        /\ UNCHANGED <<symbolsKept, buffers, heap, published, round>>
    BY <1>1, <1>6 DEF Iterates, GMoves
  <2>2. Attempt(t, {s}, {s})' /\ Iterators'
    BY <1>2, <1>6, <2>1, AttemptRequests
  <2> QED
    BY <2>1, <2>2, RequestingNext, GrowwGoesOn
<1> QED
  BY <1>4, <1>5, <1>6

LEMMA PopsKeeps == ASSUME GrowwInv, Pops PROVE GrowwInv'
<1>1. PICK t : t = loop
  OBVIOUS
<1>2. t.at = "streaming" /\ Attempt(t, {}, {}) /\ Iterators /\ IsSequence(published)
  BY <1>1 DEF Pops, GrowwInv, InAttempt, Asking
<1>3. CASE heap = {}
  <2>1. loop'.at = "gone" /\ UNCHANGED <<published, symbolsKept, chunkPos, buffers, heap, round>>
    BY <1>3 DEF Pops, GMoves, growwVars
  <2>2. {<<published[n].symbol, published[n].at>> : n \in InRound(round)}
          = UNION {{<<s, x>> : x \in Available(s)} : s \in symbolsKept}
    BY <1>2, <1>3, AttemptCompletes
  <2>3. GrowwComplete'
    BY <2>1, <2>2 DEF GrowwComplete, InRound
  <2> QED
    BY <2>1, <2>3, GrowwRests
<1>4. CASE heap # {}
  <2>1. PICK c \in PopsEarliest :
          /\ heap' = heap \ {c} /\ UNCHANGED <<symbolsKept, chunkPos, buffers, published, round>>
          /\ loop' = [at |-> "iterating", symbol |-> c.symbol,
                      then |-> [at |-> "sending", entry |-> [symbol |-> c.symbol, at |-> c.at, round |-> round]]]
    BY <1>4 DEF Pops, GMoves
  <2>2. PICK p : p = [at |-> "sending", entry |-> [symbol |-> c.symbol, at |-> c.at, round |-> round]]
    OBVIOUS
  <2>3. Attempt(p, {c.symbol}, {})' /\ Iterators'
    BY <1>2, <2>1, <2>2, AttemptPops
  <2>4. loop' = [at |-> "iterating", symbol |-> c.symbol, then |-> p]
    BY <2>1, <2>2
  <2> QED
    BY <2>1, <2>3, <2>4, IteratingNext, GrowwGoesOn
<1> QED
  BY <1>3, <1>4

LEMMA PrimesKeeps == ASSUME GrowwInv, Primes PROVE GrowwInv'
<1>1. PICK t : t = loop
  OBVIOUS
<1>2. t.at = "priming" /\ Attempt(t, {}, {}) /\ Iterators
  BY <1>1 DEF Primes, GrowwInv, InAttempt, Asking
<1>3. UNCHANGED <<published, symbolsKept, chunkPos, buffers, heap, round>> /\ Iterators'
  BY <1>2 DEF Primes, GMoves, growwVars, Iterators
<1>4. CASE t.left = {}
  <2>1. PICK p : p = [at |-> "streaming"]
    OBVIOUS
  <2>2. loop' = p
    BY <1>1, <1>4, <2>1 DEF Primes, GMoves
  <2>3. Carried(p) = Carried(t) /\ Unasked(p, {}) = Unasked(t, {})
    BY <1>2, <1>4, <2>1 DEF Carried, Unasked
  <2>4. Attempt(p, {}, {})
    BY <1>2, <2>1, <2>3 DEF Attempt, Doing, Given, Reached
  <2> QED
    BY <1>3, <2>1, <2>2, <2>4, AttemptStays, GoingOn, GrowwGoesOn
<1>5. CASE t.left # {}
  <2>1. PICK s \in t.left : loop' = [at |-> "iterating", symbol |-> s,
                                     then |-> [at |-> "priming", left |-> t.left \ {s}]]
    BY <1>1, <1>5 DEF Primes, GMoves
  <2>2. PICK p : p = [at |-> "priming", left |-> t.left \ {s}]
    OBVIOUS
  <2>3. Carried(p) = Carried(t) /\ Unasked(p, {s}) = Unasked(t, {})
    BY <1>2, <2>1, <2>2 DEF Carried, Unasked
  <2>4. Carried(p) = {}
    BY <2>2 DEF Carried
  <2>5. Doing(p, {s}, {})
    BY <1>2, <2>1, <2>2, <2>3, <2>4 DEF Attempt, Doing
  <2>6. Attempt(p, {s}, {})
    BY <1>2, <2>3, <2>5 DEF Attempt, Given, Reached
  <2>7. Attempt(p, {s}, {})'
    BY <1>3, <2>6, AttemptStays
  <2>8. loop' = [at |-> "iterating", symbol |-> s, then |-> p]
    BY <2>1, <2>2
  <2> QED
    BY <1>3, <2>7, <2>8, IteratingNext, GrowwGoesOn
<1> QED
  BY <1>4, <1>5

LEMMA GrowwStepsKeep == ASSUME GrowwInv, subscribed \subseteq Symbols, GrowwSteps \/ RequestFails PROVE GrowwInv'
<1>1. CASE GrowwResets
  <2>1. PICK t : t = [at |-> "priming", left |-> subscribed]
    OBVIOUS
  <2>2. /\ symbolsKept' = subscribed /\ chunkPos' = [s \in subscribed |-> 1]
        /\ buffers' = [s \in subscribed |-> <<>>] /\ heap' = {} /\ round' = round + 1
        /\ loop' = t /\ published' = published
    BY <1>1, <2>1 DEF GrowwResets, GMoves
  <2>3. InRound(round)' = {} /\ round' \in Nat /\ \A n \in DOMAIN published : published[n].round \in 0 .. round'
    BY <2>2 DEF InRound, GrowwInv
  <2>4. Attempt(t, {}, {})' /\ Iterators'
    BY <2>1, <2>2, <2>3, AttemptBegins
  <2>5. InAttempt' /\ loop'.at = "priming"
    BY <2>1, <2>2, <2>4, GoingOn
  <2>6. GrowwMerged' /\ GrowwComplete'
    BY <2>3, <2>5 DEF GrowwMerged, GrowwComplete
  <2> QED
    BY <2>2, <2>3, <2>4, <2>5, <2>6 DEF GrowwInv
<1>2. CASE GrowwStops \/ BeginsAgain
  <2>1. /\ UNCHANGED <<published, symbolsKept, chunkPos, buffers, heap, round>>
        /\ loop'.at = "looking" \/ (loop'.at = "gone" /\ ~connected')
    BY <1>2 DEF GrowwStops, BeginsAgain, GMoves, growwVars
  <2>2. GrowwComplete'
    BY <2>1 DEF GrowwComplete
  <2> QED
    BY <2>1, <2>2, GrowwRests
<1>3. CASE Primes
  BY <1>3, PrimesKeeps
<1>4. CASE Pops
  BY <1>4, PopsKeeps
<1>5. CASE Iterates
  BY <1>5, IteratesKeeps
<1>6. CASE RequestAnswered
  <2>1. PICK s, t : s = loop.symbol /\ t = loop.then
    OBVIOUS
  <2>2. Attempt(t, {s}, {s}) /\ Iterators
    BY <1>6, <2>1 DEF RequestAnswered, GrowwInv, InAttempt, Asking
  <2>3. /\ buffers' = [buffers EXCEPT ![s] = FetchHistoricalCandles(s, Chunks[chunkPos[s] - 1])]
        /\ loop' = [at |-> "iterating", symbol |-> s, then |-> t]
        /\ UNCHANGED <<symbolsKept, chunkPos, heap, published, round>>
    BY <1>6, <2>1 DEF RequestAnswered, GMoves, Back
  <2>4. Attempt(t, {s}, {})' /\ Iterators'
    BY <2>2, <2>3, AttemptAnswered
  <2> QED
    BY <2>3, <2>4, IteratingNext, GrowwGoesOn
<1>7. CASE GrowwSends
  <2>1. PICK t, p : t = loop /\ p = [at |-> "streaming"]
    OBVIOUS
  <2>2. t.at = "sending" /\ Attempt(t, {}, {}) /\ Iterators /\ IsSequence(published) /\ GrowwMerged
    BY <1>7, <2>1 DEF GrowwSends, GrowwInv, InAttempt, Asking
  <2>3. /\ published' = Append(published, t.entry) /\ loop' = p
        /\ UNCHANGED <<symbolsKept, chunkPos, buffers, heap, round>>
    BY <1>7, <2>1 DEF GrowwSends, Sends, growwVars
  <2>4. Attempt(p, {}, {})' /\ Iterators' /\ GrowwMerged'
    BY <2>1, <2>2, <2>3, AttemptSends
  <2>5. InAttempt' /\ loop'.at = "streaming"
    BY <2>1, <2>3, <2>4, GoingOn
  <2>6. IsSequence(published') /\ \A n \in DOMAIN published' : published'[n].round \in 0 .. round
    <3>1. /\ IsSequence(published') /\ Len(published) \in Nat /\ DOMAIN published = 1 .. Len(published)
          /\ DOMAIN published' = 1 .. Len(published) + 1
          /\ (\A n \in 1 .. Len(published) : published'[n] = published[n])
          /\ published'[Len(published) + 1] = t.entry
      BY <2>2, <2>3, Appended
    <3>2. t.entry.round = round /\ round \in Nat
      BY <2>2 DEF Attempt, Doing, Carried, GrowwInv
    <3>3. \A n \in 1 .. Len(published) : published[n].round \in 0 .. round
      BY <3>1 DEF GrowwInv
    <3>4. \A n \in DOMAIN published' : n = Len(published) + 1 \/ n \in 1 .. Len(published)
      BY <3>1
    <3> QED
      BY <3>1, <3>2, <3>3, <3>4
  <2>7. GrowwComplete'
    BY <2>5 DEF GrowwComplete
  <2> QED
    BY <2>3, <2>4, <2>5, <2>6, <2>7 DEF GrowwInv
<1>8. CASE RequestFails
  <2>1. UNCHANGED <<published, symbolsKept, chunkPos, buffers, heap, round>> /\ loop.at = "requesting"
    BY <1>8 DEF RequestFails, GMoves, growwVars
  <2>2. PICK s, t, n : s = loop.symbol /\ t = loop.then /\ n = loop.attempt + 1
    OBVIOUS
  <2>3. CASE loop' = [at |-> "requesting", symbol |-> s, then |-> t, attempt |-> n]
    <3>1. Attempt(t, {s}, {s}) /\ Iterators
      BY <2>1, <2>2 DEF GrowwInv, InAttempt, Asking
    <3>2. Attempt(t, {s}, {s})' /\ Iterators'
      BY <2>1, <3>1, AttemptStays DEF Iterators
    <3> QED
      BY <2>1, <2>3, <3>2, RequestingNext, GrowwGoesOn
  <2>4. CASE loop'.at \in {"failed", "looking"}
    BY <2>1, <2>4, GrowwRests DEF GrowwComplete
  <2> QED
    BY <1>8, <2>2, <2>3, <2>4 DEF RequestFails, GMoves, GivesUp
<1> QED
  BY <1>1, <1>2, <1>3, <1>4, <1>5, <1>6, <1>7, <1>8 DEF GrowwSteps

-----------------------------------------------------------------------------
(* Of whatever provider is configured.                                     *)
FeedsInv ==
  /\ feed \in Feed /\ subscribed \subseteq Symbols
  /\ IsSequence(channel) /\ Len(channel) <= FeedBuffer
  /\ IF feed = "replay" THEN ReplayInv ELSE sentPaused = 0
  /\ feed = "csv" => CsvInv
  /\ IF feed = "groww" THEN GrowwInv ELSE chunkPos = <<>>

LEMMA FeedsBegin == FeedsInit => FeedsInv
<1> SUFFICES ASSUME FeedsInit PROVE FeedsInv
  OBVIOUS
<1>1. feed \in Feed /\ FeedInit /\ RecordedInit /\ CsvInit /\ GrowwInit
  BY DEF FeedsInit
<1>2. ReplayInv /\ CsvInv /\ GrowwInv
  BY <1>1, ReplayInit, CsvBegins, GrowwBegins
<1>3. IsSequence(<<>>) /\ Len(<<>>) = 0 /\ FeedBuffer \in Nat
  BY FeedBufferPositive DEF IsSequence
<1> QED
  BY <1>1, <1>2, <1>3 DEF FeedsInv, FeedInit, RecordedInit, GrowwInit

(* A call, and the gateway, leave the goroutine and its streams alone.     *)
LEMMA CallsKeep ==
  ASSUME FeedsInv, UNCHANGED <<feed, loop, published, recordedVars, csvVars, growwVars>>, connected' => connected
  PROVE  /\ IF feed = "replay" THEN ReplayInv' ELSE sentPaused' = 0
         /\ feed = "csv" => CsvInv'
         /\ IF feed = "groww" THEN GrowwInv' ELSE chunkPos' = <<>>
<1>1. /\ UNCHANGED <<recorded, sought, position, sentPaused, paused>>
      /\ UNCHANGED <<symbolsKept, chunkPos, buffers, heap, round>>
  BY DEF recordedVars, growwVars
<1>2. ReplayInv => ReplayInv'
  <2>1. ReplayInv => ReplayInSequence'
    BY <1>1 DEF ReplayInv, ReplayInSequence
  <2>2. \A pos, epoch : Goes(pos, epoch)' = Goes(pos, epoch)
    BY <1>1 DEF Goes, LastSent, Target
  <2>3. \A x : InHand(x)' = InHand(x) /\ Ahead(x)' = Ahead(x)
    BY <1>1 DEF InHand, Ahead, Goes, LastSent, Target
  <2>4. LastSent' = LastSent
    BY DEF LastSent
  <2> QED
    BY <1>1, <2>1, <2>2, <2>3, <2>4 DEF ReplayInv
<1>3. CsvInv => CsvInv'
  BY CsvWaits
<1>4. GrowwInv => GrowwInv'
  BY <1>1, GrowwStays
<1> QED
  BY <1>1, <1>2, <1>3, <1>4 DEF FeedsInv

(* What is sent finds room in the channel.                                 *)
LEMMA ChannelKeeps ==
  ASSUME FeedsInv,
         \/ channel' = channel
         \/ \E entry, next : Sends(entry, next)
         \/ GatewayTakes
  PROVE  IsSequence(channel') /\ Len(channel') <= FeedBuffer
<1>0. FeedBuffer \in Nat /\ IsSequence(channel) /\ Len(channel) <= FeedBuffer
  BY FeedBufferPositive DEF FeedsInv
<1>1. CASE channel' = channel
  BY <1>0, <1>1
<1>2. ASSUME NEW entry, NEW next, Sends(entry, next) PROVE IsSequence(channel') /\ Len(channel') <= FeedBuffer
  <2>1. channel' = Append(channel, entry) /\ Len(channel) < FeedBuffer
    BY <1>2 DEF Sends, Room
  <2>2. IsSequence(channel') /\ Len(channel') = Len(channel) + 1 /\ Len(channel) \in Nat
    BY <1>0, <2>1, Appended
  <2> QED
    BY <1>0, <2>1, <2>2
<1>3. CASE GatewayTakes
  <2>1. channel # <<>> /\ channel' = Tail(channel)
    BY <1>3 DEF GatewayTakes
  <2>2. IsSequence(channel') /\ Len(channel') = Len(channel) - 1 /\ Len(channel) \in Nat
    BY <1>0, <2>1, Tailed
  <2> QED
    BY <1>0, <2>2
<1> QED
  BY <1>1, <1>2, <1>3

LEMMA StepsKeep == ASSUME FeedsInv, FeedSteps, feed' = feed PROVE FeedsInv'
<1>1. CASE feed = "replay" /\ (RecordedSteps \/ Signal) /\ UNCHANGED <<csvVars, growwVars>>
  <2>1. ReplayInv'
    BY <1>1, RecordedStepsKeep, CommandsKeep DEF FeedsInv
  <2>2. subscribed' = subscribed /\ (channel' = channel \/ \E entry, next : Sends(entry, next))
    BY <1>1 DEF RecordedSteps, Signal, Looks, Stops, TimerFires, Woken, RecordedSends, Advances, Moves, Elapsed,
                Sends, lifeVars
  <2>3. IsSequence(channel') /\ Len(channel') <= FeedBuffer
    BY <2>2, ChannelKeeps
  <2> QED
    BY <1>1, <2>1, <2>2, <2>3 DEF FeedsInv, growwVars
<1>2. CASE feed = "csv" /\ CsvSteps /\ UNCHANGED <<recordedVars, growwVars>>
  <2>1. CsvInv'
    BY <1>2, CsvStepsKeep DEF FeedsInv
  <2>2. subscribed' = subscribed /\ (channel' = channel \/ \E entry, next : Sends(entry, next))
    BY <1>2 DEF CsvSteps, CsvStops, CsvResets, CsvReads, CsvSends, CsvDrops, CsvMoves, Sends
  <2>3. IsSequence(channel') /\ Len(channel') <= FeedBuffer
    BY <2>2, ChannelKeeps
  <2> QED
    BY <1>2, <2>1, <2>2, <2>3 DEF FeedsInv, recordedVars, growwVars
<1>3. CASE feed = "groww" /\ GrowwSteps /\ UNCHANGED <<recordedVars, csvVars>>
  <2>1. GrowwInv'
    BY <1>3, GrowwStepsKeep DEF FeedsInv
  <2>2. subscribed' = subscribed /\ (channel' = channel \/ \E entry, next : Sends(entry, next))
    BY <1>3 DEF GrowwSteps, GrowwResets, GrowwStops, Primes, Pops, Iterates, RequestAnswered, BeginsAgain,
                GrowwSends, GMoves, Sends
  <2>3. IsSequence(channel') /\ Len(channel') <= FeedBuffer
    BY <2>2, ChannelKeeps
  <2> QED
    BY <1>3, <2>1, <2>2, <2>3 DEF FeedsInv, recordedVars
<1>4. CASE GatewayTakes /\ UNCHANGED <<recordedVars, csvVars, growwVars>>
  <2>1. UNCHANGED <<feed, loop, published, connected, subscribed>>
    BY <1>4 DEF GatewayTakes
  <2>2. IsSequence(channel') /\ Len(channel') <= FeedBuffer
    BY <1>4, ChannelKeeps
  <2> QED
    BY <1>4, <2>1, <2>2, CallsKeep DEF FeedsInv
<1> QED
  BY <1>1, <1>2, <1>3, <1>4 DEF FeedSteps

LEMMA ConnectsKeep ==
  ASSUME FeedsInv, feed' = feed,
         \/ feed = "replay" /\ RecordedConnect /\ UNCHANGED <<csvVars, growwVars>>
         \/ feed = "csv" /\ CsvConnect /\ UNCHANGED <<recordedVars, growwVars>>
         \/ feed = "groww" /\ GrowwConnect /\ UNCHANGED <<recordedVars, csvVars>>
  PROVE  FeedsInv'
<1>0. /\ UNCHANGED <<feed, subscribed, channel, published>> /\ UNCHANGED <<recordedVars, csvVars>>
      /\ UNCHANGED <<symbolsKept, chunkPos, buffers, heap, round>>
      /\ loop.at \in {"none", "gone"} /\ loop'.at = "looking"
  BY DEF RecordedConnect, CsvConnect, GrowwConnect, ConnectedAt, Away, growwVars
<1>1. UNCHANGED <<recorded, sought, position, sentPaused, paused>>
  BY <1>0 DEF recordedVars
<1>2. feed = "replay" => ReplayInv'
  <2>1. ReplayInv => Goes(position, Len(sought))
    BY <1>0 DEF ReplayInv
  <2> QED
    BY <1>0, <1>1, <2>1, ReplayWaits DEF FeedsInv
<1>3. feed = "csv" => CsvInv'
  BY <1>0, CsvWaits DEF FeedsInv
<1>4. feed = "groww" => GrowwInv'
  BY <1>0, GrowwRests DEF FeedsInv, GrowwComplete
<1> QED
  BY <1>0, <1>1, <1>2, <1>3, <1>4 DEF FeedsInv

LEMMA FeedCallsKeep == ASSUME FeedsInv, FeedCalls, feed' = feed PROVE FeedsInv'
<1>1. CASE feed = "replay" /\ RecordedConnect /\ UNCHANGED <<csvVars, growwVars>>
  BY <1>1, ConnectsKeep
<1>2. CASE feed = "csv" /\ CsvConnect /\ UNCHANGED <<recordedVars, growwVars>>
  BY <1>2, ConnectsKeep
<1>3. CASE feed = "groww" /\ GrowwConnect /\ UNCHANGED <<recordedVars, csvVars>>
  BY <1>3, ConnectsKeep
<1>4. CASE feed = "replay" /\ Commands /\ UNCHANGED <<csvVars, growwVars>>
  <2>1. ReplayInv'
    BY <1>4, CommandsKeep DEF FeedsInv
  <2>2. UNCHANGED <<subscribed, channel>>
    BY <1>4 DEF Commands, ByCaller, LoadEvents, Pause, Resume, SetSpeed, Seek
  <2> QED
    BY <1>4, <2>1, <2>2 DEF FeedsInv, growwVars
<1>5. CASE feed = "csv" /\ CsvReadFails /\ UNCHANGED <<recordedVars, growwVars>>
  <2>1. /\ UNCHANGED <<subscribed, channel, published>> /\ UNCHANGED csvVars
        /\ loop'.at \in {"looking", "gone"}
    BY <1>5 DEF CsvReadFails, CsvMoves, EndOfPass
  <2>2. CsvInv'
    BY <1>5, <2>1, CsvWaits DEF FeedsInv
  <2> QED
    BY <1>5, <2>1, <2>2 DEF FeedsInv, recordedVars, growwVars
<1>6. CASE feed = "groww" /\ RequestFails /\ UNCHANGED <<recordedVars, csvVars>>
  <2>1. GrowwInv'
    BY <1>6, GrowwStepsKeep DEF FeedsInv
  <2>2. UNCHANGED <<subscribed, channel>>
    BY <1>6 DEF RequestFails, GMoves
  <2> QED
    BY <1>6, <2>1, <2>2 DEF FeedsInv, recordedVars
<1>7. CASE (Calls \/ GatewayCloses) /\ UNCHANGED <<recordedVars, csvVars, growwVars>>
  <2>1. /\ UNCHANGED <<feed, loop, published, channel>> /\ (connected' => connected)
        /\ subscribed \subseteq Symbols => subscribed' \subseteq Symbols
    BY <1>7 DEF Calls, Disconnect, Subscribe, Unsubscribe, GatewayCloses
  <2> QED
    BY <1>7, <2>1, CallsKeep DEF FeedsInv
<1> QED
  BY <1>1, <1>2, <1>3, <1>4, <1>5, <1>6, <1>7 DEF FeedCalls

LEMMA FeedsOrdered == FeedsInv => StreamsInOrder
<1> SUFFICES ASSUME FeedsInv PROVE StreamsInOrder
  OBVIOUS
<1>1. FeedsTypeOK
  BY DEF FeedsInv, FeedsTypeOK, ReplayInv, GrowwInv, Iterators
<1>2. InSequence /\ PauseHolds
  BY DEF FeedsInv, InSequence, PauseHolds, ReplayInv
<1>3. PassAccounts
  BY CsvAccounts DEF FeedsInv, PassAccounts
<1>4. Merged /\ Complete
  BY DEF FeedsInv, Merged, Complete, GrowwInv
<1> QED
  BY <1>1, <1>2, <1>3, <1>4 DEF StreamsInOrder

(* Whatever is paused, sought, lost, failed and begun again, the stream of *)
(* each historical provider is in the order of time and accounts for every *)
(* row of its period, for files, answers and capacities of any size.       *)
THEOREM StreamsStayInOrder == FeedsSpec => []StreamsInOrder
<1>1. FeedsInit => FeedsInv
  BY FeedsBegin
<1>2. FeedsInv /\ [FeedsNext]_feedVars => FeedsInv'
  <2> SUFFICES ASSUME FeedsInv, [FeedsNext]_feedVars PROVE FeedsInv'
    OBVIOUS
  <2>1. CASE FeedsNext
    BY <2>1, StepsKeep, FeedCallsKeep DEF FeedsNext
  <2>2. CASE UNCHANGED feedVars
    <3>1. UNCHANGED <<feed, loop, published, recordedVars, csvVars, growwVars, connected, subscribed, channel>>
      BY <2>2 DEF feedVars, lifeVars
    <3> QED
      BY <3>1, CallsKeep DEF FeedsInv
  <2> QED
    BY <2>1, <2>2
<1>3. FeedsInv => StreamsInOrder
  BY FeedsOrdered
<1> QED
  BY <1>1, <1>2, <1>3, PTL DEF FeedsSpec
============================================================================
