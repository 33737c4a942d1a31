-------------------------------- MODULE Feeds --------------------------------
(* The historical providers, of which the configuration names one.          *)
EXTENDS CandleFeeds

VARIABLE feed
feedVars == <<feed, lifeVars, recordedVars, csvVars, growwVars>>
Feed == {"replay", "csv", "groww"}

FeedsInit == feed \in Feed /\ FeedInit /\ RecordedInit /\ CsvInit /\ GrowwInit

FeedSteps ==
  \/ feed = "replay" /\ (RecordedSteps \/ Signal) /\ UNCHANGED <<csvVars, growwVars>>
  \/ feed = "csv" /\ CsvSteps /\ UNCHANGED <<recordedVars, growwVars>>
  \/ feed = "groww" /\ GrowwSteps /\ UNCHANGED <<recordedVars, csvVars>>
  \/ GatewayTakes /\ UNCHANGED <<recordedVars, csvVars, growwVars>>
FeedCalls ==
  \/ feed = "replay" /\ (RecordedConnect \/ Commands) /\ UNCHANGED <<csvVars, growwVars>>
  \/ feed = "csv" /\ (CsvConnect \/ CsvReadFails) /\ UNCHANGED <<recordedVars, growwVars>>
  \/ feed = "groww" /\ (GrowwConnect \/ RequestFails) /\ UNCHANGED <<recordedVars, csvVars>>
  \/ (Calls \/ GatewayCloses) /\ UNCHANGED <<recordedVars, csvVars, growwVars>>
FeedsNext == (FeedSteps \/ FeedCalls) /\ UNCHANGED feed

(* Goroutines run and timers fire; nobody has to call, and nothing to fail.*)
FeedsSpec == FeedsInit /\ [][FeedsNext]_feedVars /\ WF_feedVars(FeedSteps /\ UNCHANGED feed)

FeedsTypeOK ==
  /\ subscribed \subseteq Symbols /\ Len(channel) <= FeedBuffer
  /\ feed = "replay" => position \in 1 .. Len(recorded) + 1
  /\ \A s \in DOMAIN chunkPos : chunkPos[s] \in 1 .. Len(Chunks) + 1

(* Per provider.                                                           *)
InSequence == feed = "replay" => ReplayInSequence
PassAccounts == feed = "csv" => CsvPassAccounts /\ CsvOfSubscribed
Merged == feed = "groww" => GrowwMerged
Complete == feed = "groww" => GrowwComplete
StreamEnds ==
  /\ feed = "replay" => ReplayEnds
  /\ feed = "csv" => CsvEnds
  /\ feed = "groww" => GrowwEnds

(* Whatever is paused, sought, lost, failed and begun again: a stream is   *)
(* in the order of time, and accounts for every row of its period.         *)
StreamsInOrder ==
  /\ FeedsTypeOK
  /\ InSequence
  /\ PauseHolds
  /\ PassAccounts
  /\ Merged
  /\ Complete

(* A stream goes on: the clock keeps the pace of the events, every stream  *)
(* ends, and so does Disconnect, also when nobody reads.                   *)
StreamsProgress ==
  /\ ClockKeepsPace
  /\ StreamEnds
  /\ DisconnectReturns
==============================================================================
