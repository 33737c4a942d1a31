---------------------------- MODULE StateFollowers ----------------------------
(***************************************************************************)
(* What follows a state update at once: alerts, and explanations.          *)
(***************************************************************************)
EXTENDS Integers, Sequences, TLC

(***************************************************************************)
(* The alert engine (internal/alerts): turns the timeline entry that comes *)
(* with a state update into alerts, suppressed while the same alert (its   *)
(* fingerprint) was sent less than the cooldown ago, by the entries' time. *)
(* The trimming of the history at its 10000th alert is left out.           *)
(***************************************************************************)
CONSTANTS
  ConfidenceChange, \* Config.ConfidenceChangeThreshold, in percent
  Cooldown          \* Cache.cooldown

ASSUME AlertConfig == ConfidenceChange \in Nat /\ Cooldown \in Nat \ {0}

VARIABLES
  seenRecs,     \* Cache.seenRecommendations
  lastEmitted,  \* Cache.lastEmitted: fingerprint -> time
  alertHistory  \* Cache.history

alertVars == <<seenRecs, lastEmitted, alertHistory>>

AlertInit == seenRecs = {} /\ lastEmitted = <<>> /\ alertHistory = <<>>

(* confidenceDelta and isMeaningfulStatusTransition guard the alert that   *)
(* evaluateAlerts makes of a timeline entry, whose values are words or     *)
(* numbers.                                                                *)
Delta(entry) == IF entry.next[2] > entry.prev[2] THEN entry.next[2] - entry.prev[2]
                ELSE entry.prev[2] - entry.next[2]
EntryAlert(entry) ==
  CASE entry.event \in {"Confidence Increased", "Confidence Decreased"}
         /\ Delta(entry) >= ConfidenceChange -> <<entry.event>>
    [] entry.event \in {"Exit Recommended", "Closed"} -> <<entry.event>>
    [] entry.event = "Status Changed" /\ entry.next[1] = "ACTIVE" -> <<"Entry Zone Reached">>
    [] entry.event = "Status Changed" /\ entry.next[1] # "ACTIVE"
         /\ entry.prev # entry.next -> <<entry.event>>
    [] OTHER -> <<>>

(* evaluateAlerts: the first update of a recommendation is an alert too.   *)
CreationAlert(update) ==
  IF update.id \in seenRecs THEN <<>> ELSE <<"Recommendation Created">>

Fingerprint(update, type) == <<update.id, type, update.status, update.entry.reason>>

ShouldEmitAlways(update, type) == TRUE

(* ShouldEmit: an alert with an earlier time counts as within the cooldown. *)
ShouldEmit(update, type) ==
  LET f == Fingerprint(update, type)
  IN f \in DOMAIN lastEmitted => update.entry.at - lastEmitted[f] >= Cooldown

(* The alerts handle publishes for an update, in order; the fingerprints   *)
(* of one update differ in their type.                                     *)
AlertsFor(update) ==
  LET Emitted(types) == IF types # <<>> /\ ShouldEmit(update, types[1]) THEN types ELSE <<>>
      emitted == Emitted(CreationAlert(update)) \o Emitted(EntryAlert(update.entry))
  IN [n \in DOMAIN emitted |->
       [type |-> "alert", id |-> update.id, alert |-> emitted[n],
        status |-> update.status, reason |-> update.entry.reason, at |-> update.entry.at]]

(* Engine.handle of a state update: MarkSeen, evaluate, record, publish.   *)
HandleAlertUpdate(update) ==
  LET out == AlertsFor(update)
      emitted == {Fingerprint(update, out[n].alert) : n \in DOMAIN out}
  IN /\ seenRecs' = seenRecs \union {update.id}
     /\ lastEmitted' = [f \in DOMAIN lastEmitted \union emitted |->
                          IF f \in emitted THEN update.entry.at ELSE lastEmitted[f]]
     /\ alertHistory' = alertHistory \o out

(* Two alerts with the same fingerprint are a cooldown apart.              *)
AlertsCooled ==
  \A m, n \in DOMAIN alertHistory :
    LET a == alertHistory[m]
        b == alertHistory[n]
    IN m < n /\ a.id = b.id /\ a.alert = b.alert /\ a.status = b.status
         /\ a.reason = b.reason => b.at - a.at >= Cooldown

-----------------------------------------------------------------------------
(***************************************************************************)
(* The explanations (internal/intelligence): for each state update a       *)
(* document with the level, what changed against the document before, and  *)
(* the timeline merged from the entries the updates carried. The wording   *)
(* of the explanation is left out; a state update carries neither a level  *)
(* nor components nor the summaries of the research engines.               *)
(***************************************************************************)
CONSTANTS StrongBuyAt, BuyAt, WatchAt   \* Config thresholds, in percent

ASSUME ThresholdsOrdered == StrongBuyAt >= BuyAt /\ BuyAt >= WatchAt

VARIABLE documents    \* Cache.byID: identifier -> document

DocumentInit == documents = <<>>

-----------------------------------------------------------------------------
(* ClassifyLevel *)
LevelOf(confidence) ==
  CASE confidence >= StrongBuyAt -> "STRONG_BUY"
    [] confidence >= BuyAt -> "BUY"
    [] confidence >= WatchAt -> "WATCH"
    [] OTHER -> "AVOID"

(* ResolveLevel, which is LevelFromStatus here.                            *)
LevelFromStatus(status, confidence) ==
  CASE status = "ACTIVE" -> IF LevelOf(confidence) = "AVOID" THEN "BUY" ELSE LevelOf(confidence)
    [] status = "WATCH" -> "WATCH"
    [] status \in {"EXIT_RECOMMENDED", "CLOSED"} -> "AVOID"
    [] OTHER -> LevelOf(confidence)

LevelRank == [STRONG_BUY |-> 4, BUY |-> 3, WATCH |-> 2, AVOID |-> 1]
StatusRank == [ACTIVE |-> 4, WATCH |-> 3, EXIT_RECOMMENDED |-> 2, CLOSED |-> 1, CREATED |-> 0]

(* DetectChange: by the level, and by the status when the level stands.    *)
Direction(a, b) == IF a > b THEN "upgrade" ELSE IF a < b THEN "downgrade" ELSE "none"
ChangeFrom(previous, level, status) ==
  LET byLevel == Direction(LevelRank[level], LevelRank[previous.level])
  IN IF byLevel # "none" THEN byLevel
     ELSE Direction(StatusRank[status], StatusRank[previous.status])

(* mergeTimeline: an entry that is there already is not added again.       *)
MergeEntry(timeline, entry) ==
  IF \E n \in DOMAIN timeline :
       /\ timeline[n].event = entry.event /\ timeline[n].at = entry.at
       /\ timeline[n].prev = entry.prev /\ timeline[n].next = entry.next
    THEN timeline ELSE Append(timeline, entry)

(* Builder.Build *)
Document(update) ==
  LET level == LevelFromStatus(update.status, update.confidence)
      known == update.id \in DOMAIN documents
  IN [key |-> update.key, status |-> update.status, confidence |-> update.confidence,
      level |-> level,
      change |-> IF known THEN ChangeFrom(documents[update.id], level, update.status)
                 ELSE "none",
      timeline |-> MergeEntry(IF known THEN documents[update.id].timeline ELSE <<>>,
                              update.entry)]

(* Engine.handle of a state update, and what it publishes.                 *)
HandleExplanation(update) ==
  documents' = [i \in DOMAIN documents \union {update.id} |->
                 IF i = update.id THEN Document(update) ELSE documents[i]]

DocumentUpdates(update) ==
  LET d == Document(update)
  IN << [type |-> "intelligence", id |-> update.id, key |-> d.key, status |-> d.status,
         confidence |-> d.confidence, level |-> d.level, at |-> update.entry.at] >>
==============================================================================
