------------------------- MODULE RecommendationState -------------------------
(***************************************************************************)
(* The lifecycle of recommendations (internal/recommendationstate): one    *)
(* recommendation per symbol, timeframe and strategy, with the timeline of *)
(* what happened to it. The engine's goroutine handles one validated       *)
(* recommendation at a time under the lock of its cache, and publishes the *)
(* recommendation with the LATEST of its timeline entries.                 *)
(*                                                                         *)
(* Confidences are in percent. The reasons of a rejection are one value.   *)
(***************************************************************************)
EXTENDS Integers, Sequences, FiniteSets, TLC

CONSTANTS
  Keys,         \* [symbol, timeframe, strategy] of the inputs
  Confidences,  \* confidences of the inputs, in percent
  MaxActive,    \* Cache.maxActive
  MaxHistory,   \* Cache.maxHistory
  DayLength     \* units of time in a day, for the date in an identifier

ASSUME StateLimits == MaxActive \in Nat \ {0} /\ MaxHistory \in Nat \ {0}
                      /\ DayLength \in Nat \ {0}

VARIABLES
  activeRecs,   \* Cache.active: key -> identifier
  closedRecs,   \* Cache.closed: key -> identifier
  recs,         \* Cache.byID: identifier -> recommendation with its timeline
  recSeq,       \* Cache.seqBySymbolDate
  recHistory    \* Cache.history

recVars == <<activeRecs, closedRecs, recs, recSeq, recHistory>>

Levels == {"STRONG_BUY", "BUY", "WATCH", "AVOID"}
Statuses == {"CREATED", "ACTIVE", "WATCH", "EXIT_RECOMMENDED", "CLOSED"}

Validated == [key : Keys, level : Levels, confidence : Confidences,
              status : {"VALID", "REJECTED"}, at : Nat]

RecInit ==
  /\ activeRecs = <<>> /\ closedRecs = <<>> /\ recs = <<>>
  /\ recSeq = <<>> /\ recHistory = <<>>

-----------------------------------------------------------------------------
(* mapRecommendationToStatus *)
StatusFor(level) ==
  CASE level \in {"STRONG_BUY", "BUY"} -> "ACTIVE"
    [] level = "AVOID" -> "EXIT_RECOMMENDED"
    [] OTHER -> "WATCH"

(* A timeline entry, whose values are texts: a word or a number.           *)
Word(text) == <<text, 0>>
Number(n) == <<"number", n>>
Entry(event, reason, prev, next, at) ==
  [event |-> event, reason |-> reason, prev |-> prev, next |-> next, at |-> at]

(* applyValidUpdate on a new recommendation: no level maps to CREATED, so  *)
(* its activation follows at once.                                         *)
NewRec(input) ==
  [key |-> input.key, status |-> StatusFor(input.level),
   confidence |-> input.confidence, updatedAt |-> input.at, closedAt |-> -1,
   timeline |->
     << Entry("Recommendation Created", "validated", Word(""), Word(StatusFor(input.level)),
              input.at),
        Entry("Status Changed", "initial", Word("CREATED"), Word(StatusFor(input.level)),
              input.at) >>]

ValidUpdateReopens(rec, input) ==
  [rec EXCEPT !.status = StatusFor(input.level), !.confidence = input.confidence,
     !.timeline = Append(@, Entry("Status Changed", "status", Word(rec.status),
                                  Word(StatusFor(input.level)), input.at))]

(* applyValidUpdate on a known one: an entry for the confidence, one for   *)
(* the status, both or none. CLOSED is never left.                         *)
ValidUpdate(rec, input) ==
  LET target == StatusFor(input.level)
      moved == IF input.confidence = rec.confidence THEN <<>>
               ELSE << Entry(IF input.confidence > rec.confidence
                               THEN "Confidence Increased" ELSE "Confidence Decreased",
                             "confidence", Number(rec.confidence), Number(input.confidence),
                             input.at) >>
      turns == rec.status \notin {target, "CLOSED"}
      turned == IF ~turns THEN <<>>
                ELSE << Entry(IF target = "EXIT_RECOMMENDED"
                                THEN "Exit Recommended" ELSE "Status Changed",
                              "status", Word(rec.status), Word(target), input.at) >>
  IN [rec EXCEPT !.confidence = input.confidence, !.updatedAt = input.at,
                 !.status = IF turns THEN target ELSE @,
                 !.timeline = @ \o moved \o turned]

(* applyRejection on a known recommendation: it closes, once.              *)
Rejection(rec, input) ==
  IF rec.status = "CLOSED" THEN rec
  ELSE [rec EXCEPT !.status = "CLOSED", !.updatedAt = input.at, !.closedAt = input.at,
                   !.timeline = Append(@, Entry("Closed", "rejected", Word(rec.status),
                                                Word("CLOSED"), input.at))]

ApplyUpdate(rec, input) ==
  IF input.status = "REJECTED" THEN Rejection(rec, input) ELSE ValidUpdate(rec, input)

Known(key) == key \in DOMAIN activeRecs \union DOMAIN closedRecs
IdOf(key) == IF key \in DOMAIN activeRecs THEN activeRecs[key] ELSE closedRecs[key]

(* A recommendation is opened only for a valid input, within the maximum.  *)
Opens(input) == /\ ~Known(input.key)
                /\ input.status = "VALID"
                /\ Cardinality(DOMAIN activeRecs) < MaxActive

Changes(input) == Known(input.key) \/ Opens(input)

DateKey(input) == <<input.at \div DayLength, input.key.symbol>>
SeqIn(dateKey) == IF dateKey \in DOMAIN recSeq THEN recSeq[dateKey] ELSE 0
NextId(input) == Append(DateKey(input), SeqIn(DateKey(input)) + 1)

(* The recommendation as ApplyValidated leaves it, and its identifier.     *)
ResultId(input) == IF Known(input.key) THEN IdOf(input.key) ELSE NextId(input)
Result(input) == IF Known(input.key) THEN ApplyUpdate(recs[IdOf(input.key)], input)
                 ELSE NewRec(input)

(* Setting and deleting an entry of a map.                                 *)
With(f, k, v) == [x \in DOMAIN f \union {k} |-> IF x = k THEN v ELSE f[x]]
Without(f, k) == [x \in DOMAIN f \ {k} |-> f[x]]
LastOf(s, n) == IF Len(s) <= n THEN s ELSE SubSeq(s, Len(s) - n + 1, Len(s))

(* Cache.ApplyValidated. A recommendation that was closed would move back  *)
(* to the active ones, if an update could ever reopen it.                  *)
ApplyValidated(input) ==
  LET id == ResultId(input)
      rec == Result(input)
      key == input.key
      reopened == Known(key) /\ recs[id].status = "CLOSED" /\ rec.status # "CLOSED"
  IN IF ~Changes(input) THEN UNCHANGED recVars
     ELSE /\ recs' = With(recs, id, rec)
          /\ IF rec.status = "CLOSED"
               THEN /\ activeRecs' = Without(activeRecs, key)
                    /\ closedRecs' = With(closedRecs, key, id)
               ELSE IF Opens(input) \/ reopened
                 THEN /\ activeRecs' = With(activeRecs, key, id)
                      /\ closedRecs' = Without(closedRecs, key)
                 ELSE UNCHANGED <<activeRecs, closedRecs>>
          /\ recSeq' = IF Opens(input)
                         THEN With(recSeq, DateKey(input), SeqIn(DateKey(input)) + 1)
                         ELSE recSeq
          /\ recHistory' = LastOf(Append(recHistory,
               [id |-> id, status |-> rec.status, confidence |-> rec.confidence]), MaxHistory)

(* Engine.publish: the events handle publishes for an input.               *)
StateUpdates(input) ==
  IF ~Changes(input) THEN <<>>
  ELSE LET rec == Result(input)
       IN << [type |-> "state", id |-> ResultId(input), key |-> rec.key,
              status |-> rec.status, confidence |-> rec.confidence,
              entry |-> rec.timeline[Len(rec.timeline)]] >>

-----------------------------------------------------------------------------
RecTypeOK ==
  /\ DOMAIN activeRecs \subseteq Keys /\ DOMAIN closedRecs \subseteq Keys
  /\ \A i \in DOMAIN recs : recs[i].key \in Keys /\ recs[i].status \in Statuses
                            /\ recs[i].confidence \in Confidences
  /\ Len(recHistory) <= MaxHistory

(* One recommendation per symbol, timeframe and strategy, for good: the    *)
(* active and closed maps split the keys, name every recommendation once   *)
(* and agree with its status, and never more than maxActive are active.    *)
OnePerKey ==
  /\ DOMAIN activeRecs \intersect DOMAIN closedRecs = {}
  /\ \A i \in DOMAIN recs : Known(recs[i].key) /\ IdOf(recs[i].key) = i
  /\ \A k \in DOMAIN activeRecs : recs[activeRecs[k]].status # "CLOSED"
  /\ \A k \in DOMAIN closedRecs : recs[closedRecs[k]].status = "CLOSED"
  /\ Cardinality(DOMAIN recs) = Cardinality(DOMAIN activeRecs) + Cardinality(DOMAIN closedRecs)
  /\ Cardinality(DOMAIN activeRecs) <= MaxActive

(* What the timeline says is what happened: every status entry starts      *)
(* where the one before it ended, and the last one ends in the current     *)
(* status.                                                                 *)
StatusEvents == {"Status Changed", "Exit Recommended", "Closed"}
NoneOf(events, t, places) == \A n \in places : t[n].event \notin events
Tells(t, status) ==
  LET changes == {n \in DOMAIN t : t[n].event \in StatusEvents}
  IN /\ \A m, n \in changes :
          m < n /\ NoneOf(StatusEvents, t, m + 1 .. n - 1) => t[m].next = t[n].prev
     /\ \E m \in changes :
          NoneOf(StatusEvents, t, m + 1 .. Len(t)) /\ t[m].next = Word(status)
TimelineTells == \A i \in DOMAIN recs : Tells(recs[i].timeline, recs[i].status)

(* A timeline is in order of time.                                         *)
TimelineInTime ==
  \A i \in DOMAIN recs : \A n \in 2 .. Len(recs[i].timeline) :
    recs[i].timeline[n - 1].at <= recs[i].timeline[n].at

(* A closed recommendation stays closed, at the time it closed.            *)
ClosedForGood ==
  [][\A i \in DOMAIN recs : recs[i].status = "CLOSED" =>
       recs'[i].status = "CLOSED" /\ recs'[i].closedAt = recs[i].closedAt]_recVars

(* A series has one recommendation, which has one life: it is found by one *)
(* index, its timeline tells every change of its status, and once closed   *)
(* it stays closed.                                                        *)
OneLife ==
  /\ [](OnePerKey /\ TimelineTells)
  /\ ClosedForGood
==============================================================================
