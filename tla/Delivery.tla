------------------------------ MODULE Delivery ------------------------------
(***************************************************************************)
(* The delivery documents (internal/delivery): one per recommendation,     *)
(* patched by the events of five engines, with a timeline merged from them *)
(* and secondary indexes for the queries. The cache takes one event at a   *)
(* time under its lock. Research summaries, component scores and feedback  *)
(* averages are copied and never read again: left out.                     *)
(***************************************************************************)
EXTENDS Integers, Sequences, FiniteSets, SequencesExt, TLC

CONSTANT DocDayLength   \* units of time in a day, for the date indexes

ASSUME DocDayPositive == DocDayLength \in Nat \ {0}

VARIABLES
  docs,      \* Cache.byID: identifier -> document
  docIndex   \* the eight index maps, as triples <<index, key, identifier>>

deliveryVars == <<docs, docIndex>>

DeliveryInit == docs = <<>> /\ docIndex = {}

NoTime == 0 - 1
NewDoc == [symbol |-> "", timeframe |-> "", strategy |-> "", status |-> "", level |-> "",
           confidence |-> 0, createdAt |-> NoTime, updatedAt |-> NoTime, closedAt |-> NoTime,
           timeline |-> <<>>, alerts |-> 0, hadEntry |-> FALSE, feedback |-> FALSE,
           completed |-> FALSE]

-----------------------------------------------------------------------------
(* sortTimeline of a timeline that is sorted but for an entry added at the *)
(* end: the entry goes behind the last that is not after it.               *)
Behind(timeline, entry) ==
  CHOOSE n \in 0 .. Len(timeline) :
    /\ n > 0 => timeline[n].at <= entry.at
    /\ \A m \in n + 1 .. Len(timeline) : timeline[m].at > entry.at

(* appendTimelineEntry, and sortTimeline: an entry that is there already   *)
(* is not added again.                                                     *)
Merged(timeline, entry) ==
  IF entry \in {timeline[n] : n \in DOMAIN timeline} THEN timeline
  ELSE InsertAt(timeline, Behind(timeline, entry) + 1, entry)

Keyed(doc, key) == [doc EXCEPT !.symbol = key.symbol, !.timeframe = key.timeframe,
                               !.strategy = key.strategy]

(* Builder.ApplyState *)
WithState(doc, e) ==
  [Keyed(doc, e.key) EXCEPT
     !.createdAt = IF @ = NoTime THEN e.entry.at ELSE @,
     !.status = e.status, !.confidence = e.confidence, !.updatedAt = e.entry.at,
     !.closedAt = IF e.status = "CLOSED" THEN e.entry.at ELSE @,
     !.timeline = Merged(@, e.entry)]

(* Builder.ApplyIntelligence *)
WithIntelligence(doc, e) ==
  [Keyed(doc, e.key) EXCEPT !.level = e.level, !.status = e.status,
                            !.confidence = e.confidence, !.updatedAt = e.at]

(* Builder.ApplyQuality: a report carries the tracker's status and         *)
(* confidence, and they replace the document's.                            *)
Event(name, at, next) ==
  [event |-> name, reason |-> "", prev |-> <<"", 0>>, next |-> next, at |-> at]
WithQuality(doc, e) ==
  LET enters == e.entry > 0 /\ ~doc.hadEntry
      entered == IF enters THEN Merged(doc.timeline, Event("Entry Triggered", e.at, <<"number", e.entry>>))
                 ELSE doc.timeline
  IN [Keyed(doc, e.key) EXCEPT
        !.level = e.level, !.status = e.status, !.updatedAt = e.at,
        !.confidence = IF e.confidence > 0 THEN e.confidence ELSE @,
        !.hadEntry = @ \/ enters, !.completed = e.completed,
        !.timeline = Merged(entered, Event("Quality Evaluated", e.at, <<e.outcome, 0>>))]

(* Builder.ApplyFeedback: the timeline names the first feedback only.      *)
WithFeedback(doc, e) ==
  [doc EXCEPT !.updatedAt = e.at, !.feedback = TRUE,
     !.timeline = IF doc.feedback THEN @
                  ELSE Merged(@, Event("Feedback Updated", e.at, <<"", 0>>))]

(* Builder.ApplyAlert: an alert may come first, and makes a document of    *)
(* nothing but its identifier.                                             *)
WithAlert(doc, e) ==
  [doc EXCEPT !.alerts = @ + 1, !.updatedAt = e.at,
     !.timeline = Merged(@, [Event("Alert Generated", e.at, <<e.alert, 0>>)
                               EXCEPT !.reason = e.reason])]

(* getOrCreate and the Apply method of the event's type.                   *)
Patched(id, e) ==
  LET doc == IF id \in DOMAIN docs THEN docs[id] ELSE NewDoc
  IN CASE e.type = "state" -> WithState(doc, e)
       [] e.type = "intelligence" -> WithIntelligence(doc, e)
       [] e.type = "quality" -> WithQuality(doc, e)
       [] e.type = "feedback" -> WithFeedback(doc, e)
       [] OTHER -> WithAlert(doc, e)

(* The documents an event patches: feedback is for all of them.            *)
Touched(e) == IF e.type = "feedback" THEN DOMAIN docs ELSE {e.id}

ConfidenceBucketOf(c) ==
  CASE c >= 95 -> "0.95" [] c >= 90 -> "0.90" [] c >= 80 -> "0.80"
    [] c >= 70 -> "0.70" [] c >= 60 -> "0.60" [] OTHER -> "below"

(* index and unindex: an empty key and an unset time are not indexed.      *)
Dated(name, t, id) == IF t = NoTime THEN {} ELSE {<<name, t \div DocDayLength, id>>}
Named(name, k, id) == IF k = "" THEN {} ELSE {<<name, k, id>>}
IndexKeys(id, doc) ==
  Named("symbol", doc.symbol, id) \union Named("strategy", doc.strategy, id)
    \union Named("timeframe", doc.timeframe, id) \union Named("status", doc.status, id)
    \union Named("level", doc.level, id)
    \union {<<"confidence", ConfidenceBucketOf(doc.confidence), id>>}
    \union Dated("created", doc.createdAt, id) \union Dated("updated", doc.updatedAt, id)

(* The documents with every one touched patched.                           *)
PatchedDocs(e) == [i \in DOMAIN docs \union Touched(e) |->
                    IF i \in Touched(e) THEN Patched(i, e) ELSE docs[i]]

HandleDeliveryKeepingKeys(e) ==
  /\ docs' = PatchedDocs(e)
  /\ docIndex' = docIndex \union UNION {IndexKeys(i, Patched(i, e)) : i \in Touched(e)}

(* Cache.Apply*: unindex, patch, index, for every document touched.        *)
HandleDelivery(e) ==
  LET ids == Touched(e)
  IN /\ docs' = PatchedDocs(e)
     /\ docIndex' = (docIndex \ UNION {IndexKeys(i, docs[i]) : i \in ids \intersect DOMAIN docs})
                      \union UNION {IndexKeys(i, Patched(i, e)) : i \in ids}

(* Cache.List with one criterion: candidateIDs, then the filter again.     *)
ListByIndex(name, k) ==
  {i \in {x[3] : x \in {t \in docIndex : t[1] = name /\ t[2] = k}} :
     <<name, k, i>> \in IndexKeys(i, docs[i])}
(* ListActive and ListClosed *)
ActiveDocs == {i \in DOMAIN docs : docs[i].status # "CLOSED"}
ClosedDocs == ListByIndex("status", "CLOSED")

-----------------------------------------------------------------------------
(* The indexes name a document exactly where its fields say: no query      *)
(* misses a document, and none is left under a key it had before.          *)
IndexesAgree == docIndex = UNION {IndexKeys(i, docs[i]) : i \in DOMAIN docs}

(* ListActive, which scans, and ListClosed, which goes by the index, split *)
(* the documents between them.                                             *)
ActiveOrClosed == /\ ActiveDocs \union ClosedDocs = DOMAIN docs
                  /\ ActiveDocs \intersect ClosedDocs = {}

(* A document's timeline is in order of time and says nothing twice.       *)
TimelineOrdered ==
  \A i \in DOMAIN docs :
    LET t == docs[i].timeline
    IN \A m, n \in DOMAIN t : m < n => t[m].at <= t[n].at /\ t[m] # t[n]
==============================================================================
