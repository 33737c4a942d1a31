---------------------------- MODULE HistoricalFeed ----------------------------
(***************************************************************************)
(* What the historical providers have in common: a goroutine started by    *)
(* Connect fills a channel from which the gateway reads; Disconnect closes *)
(* the stop channel and waits for the goroutine. The provider manager makes*)
(* these calls one at a time. The goroutine is `loop`, at one of its waits.*)
(***************************************************************************)
EXTENDS Integers, Sequences, FiniteSets, SequencesExt

CONSTANTS
  Symbols,          \* what may be subscribed
  FeedBuffer,       \* capacity of the events channel
  Budget            \* bound on calls and faults, in all

ASSUME FeedBufferPositive == FeedBuffer \in Nat \ {0}

VARIABLES
  connected,        \* Provider.connected, and that `stop` is open
  subscribed,       \* Provider.subscribed
  channel,          \* Provider.events
  loop,             \* the goroutine
  published,        \* history of what was put into the channel
  gatewayOpen,      \* whether the gateway reads
  spent             \* calls and faults so far

lifeVars == <<connected, subscribed, channel, loop, published, gatewayOpen, spent>>

NotStarted == [at |-> "none"]
FeedInit ==
  /\ connected = FALSE /\ subscribed = {} /\ channel = <<>> /\ loop = NotStarted
  /\ published = <<>> /\ gatewayOpen = TRUE /\ spent = 0

Away == loop.at \in {"none", "gone"}
Spends == spent < Budget /\ spent' = spent + 1
Leaves == loop' = [at |-> "gone"]

ConnectedAt(start) ==
  /\ Away /\ ~connected
  /\ connected' = TRUE /\ loop' = start
Disconnect ==
  /\ Spends /\ connected /\ connected' = FALSE
  /\ UNCHANGED <<subscribed, channel, loop, published, gatewayOpen>>
Subscribe ==
  /\ Spends /\ \E s \in Symbols \ subscribed : subscribed' = subscribed \union {s}
  /\ UNCHANGED <<connected, channel, loop, published, gatewayOpen>>
Unsubscribe ==
  /\ Spends /\ \E s \in subscribed : subscribed' = subscribed \ {s}
  /\ UNCHANGED <<connected, channel, loop, published, gatewayOpen>>
Calls == Disconnect \/ Subscribe \/ Unsubscribe

RoomForOneMore == Len(channel) <= FeedBuffer

(* The send, into the channel if there is room.                            *)
Room == Len(channel) < FeedBuffer
Sends(entry, next) ==
  /\ Room /\ channel' = Append(channel, entry) /\ published' = Append(published, entry)
  /\ loop' = next
  /\ UNCHANGED <<connected, subscribed, gatewayOpen, spent>>
GatewayTakes ==
  /\ gatewayOpen /\ channel # <<>> /\ channel' = Tail(channel)
  /\ UNCHANGED <<connected, subscribed, loop, published, gatewayOpen, spent>>
GatewayCloses ==
  /\ Spends /\ gatewayOpen /\ gatewayOpen' = FALSE
  /\ UNCHANGED <<connected, subscribed, channel, loop, published>>

(* Disconnect returns, also when nobody reads.                             *)
DisconnectReturns == ~connected ~> Away

-----------------------------------------------------------------------------
(***************************************************************************)
(* The replay provider: recorded events are sent at the pace of their      *)
(* timestamps, and may be paused, resumed, sped up and sought while they   *)
(* are. A command changes the state under the lock and then signals the    *)
(* goroutine through a channel of capacity one. Subscriptions play no part.*)
(***************************************************************************)
CONSTANTS
  Recorded,         \* times of the recorded events, ascending
  ReplayStart       \* where the replay clock is set

ASSUME RecordedAreTimes == Recorded \in Seq(Nat \ {0})

VARIABLES
  recorded,         \* Provider.recorded
  position,         \* Provider.position
  paused,           \* Provider.paused
  control,          \* whether the control channel holds a signal
  signalling,       \* a command is between its lock and its signal
  clk,              \* the replay clock
  sought,           \* history: the positions sought
  sentPaused        \* history: events sent since the last pause

recordedVars == <<recorded, position, paused, control, signalling, clk, sought, sentPaused>>

RecordedInit ==
  /\ recorded = <<>> /\ position = 1 /\ paused = FALSE /\ control = FALSE /\ signalling = FALSE
  /\ clk = ReplayStart /\ sought = <<>> /\ sentPaused = 0

RecordedConnect ==
  /\ Spends /\ ConnectedAt([at |-> "looking", prev |-> 0])
  /\ UNCHANGED <<subscribed, channel, published, gatewayOpen, recordedVars>>

-----------------------------------------------------------------------------
(* Commands, by one caller.                                                *)
ByCaller == ~signalling /\ Spends
            /\ UNCHANGED <<connected, subscribed, channel, loop, published, gatewayOpen>>
LoadEvents ==
  /\ ByCaller /\ recorded = <<>> /\ recorded' = Recorded
  /\ UNCHANGED <<position, paused, control, signalling, clk, sought, sentPaused>>
Pause ==
  /\ ByCaller /\ ~paused /\ paused' = TRUE /\ sentPaused' = 0
  /\ UNCHANGED <<recorded, position, control, signalling, clk, sought>>
ResumeSilently ==
  /\ ByCaller /\ paused /\ paused' = FALSE
  /\ UNCHANGED <<recorded, position, control, signalling, clk, sought, sentPaused>>
Resume ==
  /\ ByCaller /\ paused /\ paused' = FALSE /\ signalling' = TRUE
  /\ UNCHANGED <<recorded, position, control, clk, sought, sentPaused>>
SetSpeed ==
  /\ ByCaller /\ signalling' = TRUE
  /\ UNCHANGED <<recorded, position, paused, control, clk, sought, sentPaused>>
Seek(at) ==
  /\ ByCaller /\ signalling' = TRUE
  /\ position' = 1 + Cardinality({n \in DOMAIN recorded : recorded[n] < at})
  /\ clk' = at /\ sought' = Append(sought, position')
  /\ UNCHANGED <<recorded, paused, control, sentPaused>>
Signal ==
  /\ signalling /\ signalling' = FALSE /\ control' = TRUE
  /\ UNCHANGED <<recorded, position, paused, clk, sought, sentPaused, lifeVars>>
Commands == LoadEvents \/ Pause \/ Resume \/ SetSpeed \/ (\E at \in {recorded[n] : n \in DOMAIN recorded} : Seek(at))

-----------------------------------------------------------------------------
(* replayLoop. A round works on what it read under the lock.               *)
Moves(next) == loop' = next /\ UNCHANGED <<connected, subscribed, channel, published, gatewayOpen, spent>>
Entry == [pos |-> position, at |-> recorded[position], epoch |-> Len(sought)]
Elapsed(entry) ==
  /\ clk' = IF loop.prev = 0 THEN clk ELSE clk + (entry.at - loop.prev)
  /\ Moves([at |-> "sending", prev |-> entry.at, entry |-> entry])
  /\ UNCHANGED <<recorded, position, paused, control, signalling, sought, sentPaused>>
Looks ==
  /\ loop.at = "looking"
  /\ CASE position > Len(recorded) \/ (~paused /\ ~connected) ->
            Moves([at |-> "gone"]) /\ UNCHANGED recordedVars
       [] position <= Len(recorded) /\ paused ->
            Moves([at |-> "paused", prev |-> loop.prev]) /\ UNCHANGED recordedVars
       [] OTHER -> IF loop.prev # 0 /\ Entry.at > loop.prev
                   THEN Moves([at |-> "waiting", prev |-> loop.prev, entry |-> Entry]) /\ UNCHANGED recordedVars
                   ELSE Elapsed(Entry)
Stops ==
  /\ loop.at \in {"paused", "waiting", "sending"} /\ ~connected
  /\ Moves([at |-> "gone"]) /\ UNCHANGED recordedVars
TimerFires == loop.at = "waiting" /\ Elapsed(loop.entry)
Woken ==
  /\ loop.at \in {"paused", "waiting"} /\ control /\ control' = FALSE
  /\ Moves([at |-> "looking", prev |-> loop.prev])
  /\ UNCHANGED <<recorded, position, paused, signalling, clk, sought, sentPaused>>
RecordedSends ==
  /\ loop.at = "sending" /\ Sends(loop.entry, [at |-> "advancing", prev |-> loop.prev, entry |-> loop.entry])
  /\ sentPaused' = IF paused THEN sentPaused + 1 ELSE sentPaused
  /\ UNCHANGED <<recorded, position, paused, control, signalling, clk, sought>>
Advances ==
  /\ loop.at = "advancing" /\ position' = IF position = loop.entry.pos THEN position + 1 ELSE position
  /\ Moves([at |-> "looking", prev |-> loop.prev])
  /\ UNCHANGED <<recorded, paused, control, signalling, clk, sought, sentPaused>>

RecordedSteps == Looks \/ Stops \/ TimerFires \/ Woken \/ RecordedSends \/ Advances

-----------------------------------------------------------------------------
(* Between two seeks the events are sent in their order and none twice,    *)
(* across pauses and reconnections; after a seek they go on with the one   *)
(* sought, or behind it when it was in flight.                             *)
ReplayInSequence ==
  \A n \in DOMAIN published : LET e == published[n] before == published[n - 1] IN
    IF n > 1 /\ before.epoch = e.epoch THEN e.pos = before.pos + 1
    ELSE LET target == IF e.epoch = 0 THEN 1 ELSE sought[e.epoch] IN
         e.pos = target \/ (n > 1 /\ before.pos = target /\ e.pos = target + 1)

(* But for seeks the clock moves with the events, whatever interrupts a    *)
(* wait.                                                                   *)
Underway == "prev" \in DOMAIN loop
ClockKeepsPace ==
  [][(Underway /\ Underway' /\ sought' = sought /\ loop.prev # 0) => clk' - clk = loop'.prev - loop.prev]_<<clk, loop>>

(* At most one event is sent after a pause: the one in flight.             *)
PauseHolds == sentPaused <= 1

(* A replay that is not paused, and whose channel is read, comes to its    *)
(* end: no wake-up is lost.                                                *)
ReplayEnds == <>[](connected /\ ~paused /\ gatewayOpen) => <>[](loop.at = "gone")
==============================================================================
