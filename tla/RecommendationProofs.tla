------------------------- MODULE RecommendationProofs -------------------------
(***************************************************************************)
(* What RecommendationFlow promises whatever the engines send each other,  *)
(* in whatever order, and whatever the bus drops. The state engine changes *)
(* its state in one place (ApplyValidated), so that its invariants need no *)
(* facts about the bus: nothing is assumed of its inputs (OneLifeHolds).   *)
(* The documents made from its updates need the types of all that is under *)
(* way downstream, the order in which the verdicts arrive, and what the    *)
(* updates under way still have to tell (DocumentsAgreeHolds). The alerts  *)
(* need the entry that every one of them was called for by, and a count of *)
(* those on the way to their documents (AlertsSoundHolds). What is told of *)
(* the trades is a path through the updates under way, which the engines   *)
(* of the trading side alone send and read (TradesToldHolds).              *)
(***************************************************************************)
EXTENDS RecommendationFlow, SequenceTheorems, FiniteSetTheorems, WellFoundedInduction, TLAPS

-----------------------------------------------------------------------------
(* Sequences, of what may be anything.                                     *)
IsSequence(t) == t \in Seq({t[n] : n \in DOMAIN t})

LEMMA Appended ==
  ASSUME NEW t, IsSequence(t), NEW e
  PROVE  /\ IsSequence(Append(t, e))
         /\ Len(t) \in Nat /\ DOMAIN t = 1 .. Len(t)
         /\ Len(Append(t, e)) = Len(t) + 1
         /\ DOMAIN Append(t, e) = 1 .. Len(t) + 1
         /\ \A n \in 1 .. Len(t) : Append(t, e)[n] = t[n]
         /\ Append(t, e)[Len(t) + 1] = e
         /\ t \o <<e>> = Append(t, e) /\ t \o <<>> = t
<1> DEFINE S == {t[n] : n \in DOMAIN t} \union {e}
<1>1. t \in Seq(S) /\ e \in S
  BY DEF IsSequence
<1> HIDE DEF S
<1>2. Append(t, e) \in Seq(S)
  BY <1>1
<1>3. Len(t) \in Nat /\ DOMAIN t = 1 .. Len(t) /\ Len(Append(t, e)) = Len(t) + 1
        /\ DOMAIN Append(t, e) = 1 .. Len(t) + 1
  BY <1>1, <1>2
<1>4. (\A n \in 1 .. Len(t) : Append(t, e)[n] = t[n]) /\ Append(t, e)[Len(t) + 1] = e
  BY <1>1
<1>5. IsSequence(Append(t, e))
  <2> DEFINE u == Append(t, e)
           R == {u[n] : n \in DOMAIN u}
  <2>1. u \in [1 .. Len(u) -> S] /\ Len(u) \in Nat /\ DOMAIN u = 1 .. Len(u)
    BY <1>2, LenProperties
  <2> HIDE DEF u
  <2>2. u \in [1 .. Len(u) -> R]
    BY <2>1
  <2>3. u \in Seq(R)
    BY <2>1, <2>2, SeqDef
  <2> QED
    BY <2>3 DEF IsSequence, u
<1>6. t \o <<e>> = Append(t, e) /\ t \o <<>> = t
  BY <1>1
<1> QED
  BY <1>3, <1>4, <1>5, <1>6

(* An entry that is no change of the status leaves what is told as it is.  *)
LEMMA OtherEntry ==
  ASSUME NEW t, IsSequence(t), NEW status, Tells(t, status),
         NEW e, e.event \notin StatusEvents
  PROVE  Tells(Append(t, e), status)
<1> DEFINE u == Append(t, e)
           changes == {n \in DOMAIN t : t[n].event \in StatusEvents}
<1>1. /\ Len(t) \in Nat /\ DOMAIN t = 1 .. Len(t) /\ DOMAIN u = 1 .. Len(t) + 1
      /\ Len(u) = Len(t) + 1 /\ u[Len(t) + 1] = e
      /\ \A n \in 1 .. Len(t) : u[n] = t[n]
  BY Appended
<1> HIDE DEF u
<1>2. {n \in DOMAIN u : u[n].event \in StatusEvents} = changes
  BY <1>1
<1>3. ASSUME NEW m \in changes, NEW n \in changes, m < n,
             NoneOf(StatusEvents, u, m + 1 .. n - 1)
      PROVE  u[m].next = u[n].prev
  <2>1. NoneOf(StatusEvents, t, m + 1 .. n - 1)
    BY <1>1, <1>3 DEF NoneOf
  <2> QED
    BY <1>1, <1>3, <2>1 DEF Tells
<1>4. PICK m \in changes : NoneOf(StatusEvents, t, m + 1 .. Len(t)) /\ t[m].next = Word(status)
  BY DEF Tells
<1>5. NoneOf(StatusEvents, u, m + 1 .. Len(u)) /\ u[m].next = Word(status)
  BY <1>1, <1>4 DEF NoneOf
<1> QED
  BY <1>2, <1>3, <1>4, <1>5 DEF Tells, u

(* A change of the status that starts at the current one tells the new.    *)
LEMMA ChangeEntry ==
  ASSUME NEW t, IsSequence(t), NEW status, Tells(t, status),
         NEW e, e.event \in StatusEvents, e.prev = Word(status),
         NEW next, e.next = Word(next)
  PROVE  Tells(Append(t, e), next)
<1> DEFINE u == Append(t, e)
           last == Len(t) + 1
           changes == {n \in DOMAIN t : t[n].event \in StatusEvents}
<1>1. /\ Len(t) \in Nat /\ DOMAIN t = 1 .. Len(t) /\ DOMAIN u = 1 .. last
      /\ Len(u) = last /\ u[last] = e
      /\ \A n \in 1 .. Len(t) : u[n] = t[n]
  BY Appended
<1> HIDE DEF u
<1>2. {n \in DOMAIN u : u[n].event \in StatusEvents} = changes \union {last}
  BY <1>1
<1>3. ASSUME NEW m \in changes \union {last}, NEW n \in changes \union {last}, m < n,
             NoneOf(StatusEvents, u, m + 1 .. n - 1)
      PROVE  u[m].next = u[n].prev
  <2>1. m \in changes /\ m \in 1 .. Len(t)
    BY <1>1, <1>3
  <2>2. CASE n # last
    <3>1. n \in changes /\ NoneOf(StatusEvents, t, m + 1 .. n - 1)
      BY <1>1, <1>3, <2>2 DEF NoneOf
    <3> QED
      BY <1>1, <1>3, <2>1, <3>1 DEF Tells
  <2>3. CASE n = last
    <3>1. PICK l \in changes : NoneOf(StatusEvents, t, l + 1 .. Len(t)) /\ t[l].next = Word(status)
      BY DEF Tells
    <3>2. l = m
      <4>1. ~(m < l)
        BY <1>1, <1>3, <2>1, <2>3, <3>1 DEF NoneOf
      <4>2. ~(l < m)
        BY <1>1, <2>1, <3>1 DEF NoneOf
      <4> QED
        BY <1>1, <2>1, <3>1, <4>1, <4>2
    <3> QED
      BY <1>1, <2>1, <2>3, <3>1, <3>2
  <2> QED
    BY <2>2, <2>3
<1>4. NoneOf(StatusEvents, u, last + 1 .. Len(u)) /\ u[last].next = Word(next)
  BY <1>1 DEF NoneOf
<1> QED
  BY <1>2, <1>3, <1>4 DEF Tells, u

-----------------------------------------------------------------------------
(* Recommendations: what ApplyUpdate and NewRec make of any input.         *)
RecFields == {"key", "status", "confidence", "updatedAt", "closedAt", "timeline"}
SoundRec(rec) ==
  DOMAIN rec = RecFields /\ IsSequence(rec.timeline) /\ Tells(rec.timeline, rec.status)

LEMMA StatusNeverClosed == \A level : StatusFor(level) \in Statuses \ {"CLOSED", "CREATED"}
BY Zenon DEF StatusFor, Statuses

LEMMA NewIsSound ==
  ASSUME NEW input
  PROVE  /\ SoundRec(NewRec(input)) /\ NewRec(input).key = input.key
         /\ NewRec(input).status # "CLOSED"
<1> DEFINE s == StatusFor(input.level)
           created == Entry("Recommendation Created", "validated", Word(""), Word(s), input.at)
           opened == Entry("Status Changed", "initial", Word("CREATED"), Word(s), input.at)
           t == <<created, opened>>
<1>1. /\ DOMAIN NewRec(input) = RecFields /\ NewRec(input).timeline = t
      /\ NewRec(input).status = s /\ NewRec(input).key = input.key
  BY DEF NewRec, RecFields
<1>2. created.event \notin StatusEvents /\ opened.event \in StatusEvents /\ opened.next = Word(s)
  BY Zenon DEF Entry, StatusEvents
<1>3. s # "CLOSED"
  BY StatusNeverClosed
<1> HIDE DEF created, opened, s
<1>4. DOMAIN t = 1 .. 2 /\ Len(t) = 2 /\ t[1] = created /\ t[2] = opened
  OBVIOUS
<1>5. t \in Seq({t[n] : n \in DOMAIN t})
  BY <1>4
<1> HIDE DEF t
<1>6. Tells(t, s)
  <2>1. {n \in DOMAIN t : t[n].event \in StatusEvents} = {2}
    BY <1>2, <1>4
  <2>2. NoneOf(StatusEvents, t, 2 + 1 .. Len(t)) /\ t[2].next = Word(s)
    BY <1>2, <1>4 DEF NoneOf
  <2> QED
    BY <2>1, <2>2 DEF Tells
<1> QED
  BY <1>1, <1>3, <1>5, <1>6 DEF SoundRec, IsSequence

LEMMA RejectionKeeps ==
  ASSUME NEW rec, SoundRec(rec), NEW input
  PROVE  /\ SoundRec(Rejection(rec, input)) /\ Rejection(rec, input).key = rec.key
         /\ Rejection(rec, input).status = "CLOSED"
         /\ rec.status = "CLOSED" => Rejection(rec, input).closedAt = rec.closedAt
<1>1. CASE rec.status = "CLOSED"
  BY <1>1 DEF Rejection
<1>2. CASE rec.status # "CLOSED"
  <2> DEFINE e == Entry("Closed", "rejected", Word(rec.status), Word("CLOSED"), input.at)
             new == [rec EXCEPT !.status = "CLOSED", !.updatedAt = input.at,
                                !.closedAt = input.at, !.timeline = Append(@, e)]
  <2>1. Rejection(rec, input) = new
    BY <1>2 DEF Rejection
  <2>2. e.event = "Closed" /\ e.prev = Word(rec.status) /\ e.next = Word("CLOSED")
    BY DEF Entry
  <2> HIDE DEF e
  <2>3. /\ DOMAIN new = RecFields /\ new.key = rec.key /\ new.status = "CLOSED"
        /\ new.timeline = Append(rec.timeline, e)
    BY DEF SoundRec, RecFields
  <2> HIDE DEF new
  <2>4. Tells(Append(rec.timeline, e), "CLOSED")
    <3>1. IsSequence(rec.timeline) /\ Tells(rec.timeline, rec.status)
      BY DEF SoundRec
    <3>2. e.event \in StatusEvents
      BY <2>2 DEF StatusEvents
    <3> QED
      BY <2>2, <3>1, <3>2, ChangeEntry
  <2>5. IsSequence(Append(rec.timeline, e))
    BY Appended DEF SoundRec
  <2> QED
    BY <1>2, <2>1, <2>3, <2>4, <2>5 DEF SoundRec
<1> QED
  BY <1>1, <1>2

LEMMA ValidKeeps ==
  ASSUME NEW rec, SoundRec(rec), NEW input
  PROVE  /\ SoundRec(ValidUpdate(rec, input)) /\ ValidUpdate(rec, input).key = rec.key
         /\ rec.status = "CLOSED" <=> ValidUpdate(rec, input).status = "CLOSED"
         /\ ValidUpdate(rec, input).closedAt = rec.closedAt
<1> DEFINE target == StatusFor(input.level)
           change == Entry(IF input.confidence > rec.confidence
                             THEN "Confidence Increased" ELSE "Confidence Decreased",
                           "confidence", Number(rec.confidence), Number(input.confidence),
                           input.at)
           moved == IF input.confidence = rec.confidence THEN <<>> ELSE <<change>>
           turns == rec.status \notin {target, "CLOSED"}
           turn == Entry(IF target = "EXIT_RECOMMENDED"
                           THEN "Exit Recommended" ELSE "Status Changed",
                         "status", Word(rec.status), Word(target), input.at)
           turned == IF ~turns THEN <<>> ELSE <<turn>>
           new == [rec EXCEPT !.confidence = input.confidence, !.updatedAt = input.at,
                              !.status = IF turns THEN target ELSE @,
                              !.timeline = @ \o moved \o turned]
           told == rec.timeline \o moved
<1>1. ValidUpdate(rec, input) = new
  BY DEF ValidUpdate
<1>2. change.event \notin StatusEvents
  BY DEF Entry, StatusEvents
<1>3. turn.event \in StatusEvents /\ turn.prev = Word(rec.status) /\ turn.next = Word(target)
  BY DEF Entry, StatusEvents
<1>4. target # "CLOSED"
  BY StatusNeverClosed
<1> HIDE DEF change, turn, target
<1>5. IsSequence(told) /\ Tells(told, rec.status)
  <2>1. IsSequence(rec.timeline) /\ Tells(rec.timeline, rec.status)
    BY DEF SoundRec
  <2>2. rec.timeline \o <<change>> = Append(rec.timeline, change)
          /\ rec.timeline \o <<>> = rec.timeline
    BY <2>1, Appended
  <2>3. IsSequence(Append(rec.timeline, change))
          /\ Tells(Append(rec.timeline, change), rec.status)
    BY <1>2, <2>1, Appended, OtherEntry
  <2> QED
    BY <2>1, <2>2, <2>3
<1>6. /\ DOMAIN new = RecFields /\ new.key = rec.key /\ new.closedAt = rec.closedAt
      /\ new.status = IF turns THEN target ELSE rec.status
      /\ new.timeline = told \o turned
  BY DEF SoundRec, RecFields
<1> HIDE DEF new, told
<1>9. /\ told \o <<turn>> = Append(told, turn) /\ told \o <<>> = told
      /\ IsSequence(Append(told, turn)) /\ Tells(Append(told, turn), target)
  <2>1. told \o <<turn>> = Append(told, turn) /\ told \o <<>> = told
          /\ IsSequence(Append(told, turn))
    BY <1>5, Appended
  <2>2. Tells(Append(told, turn), target)
    BY <1>3, <1>5, ChangeEntry
  <2> QED
    BY <2>1, <2>2
<1>7. IsSequence(told \o turned)
  BY <1>5, <1>9
<1>8. Tells(told \o turned, IF turns THEN target ELSE rec.status)
  <2>1. CASE turns
    BY <1>9, <2>1
  <2>2. CASE ~turns
    BY <1>5, <1>9, <2>2
  <2> QED
    BY <2>1, <2>2
<1> QED
  BY <1>1, <1>4, <1>6, <1>7, <1>8 DEF SoundRec

LEMMA UpdateKeeps ==
  ASSUME NEW rec, SoundRec(rec), NEW input
  PROVE  /\ SoundRec(ApplyUpdate(rec, input)) /\ ApplyUpdate(rec, input).key = rec.key
         /\ rec.status = "CLOSED" => /\ ApplyUpdate(rec, input).status = "CLOSED"
                                     /\ ApplyUpdate(rec, input).closedAt = rec.closedAt
BY RejectionKeeps, ValidKeeps DEF ApplyUpdate

-----------------------------------------------------------------------------
(* Every identifier is of a day and a symbol, with a number already given. *)
IdsCounted ==
  /\ \A d \in DOMAIN recSeq : d = <<d[1], d[2]>> /\ recSeq[d] \in Nat
  /\ \A i \in DOMAIN recs : \E d \in DOMAIN recSeq : \E n \in 1 .. recSeq[d] : i = Append(d, n)

(* The active and the closed maps name recommendations of their keys.      *)
NamesItsKey(index) ==
  \A k \in DOMAIN index : index[k] \in DOMAIN recs /\ recs[index[k]].key = k

RecsFinite ==
  IsFiniteSet(DOMAIN recs) /\ IsFiniteSet(DOMAIN activeRecs) /\ IsFiniteSet(DOMAIN closedRecs)

StateInv ==
  /\ IdsCounted
  /\ \A i \in DOMAIN recs : SoundRec(recs[i])
  /\ NamesItsKey(activeRecs) /\ NamesItsKey(closedRecs)
  /\ RecsFinite
  /\ OnePerKey

(* A step of the engine leaves what is closed as it closed.                *)
ClosedStays ==
  \A i \in DOMAIN recs : recs[i].status = "CLOSED" =>
    recs'[i].status = "CLOSED" /\ recs'[i].closedAt = recs[i].closedAt

(* An identifier that is given out is new.                                 *)
LEMMA IdIsFresh ==
  ASSUME IdsCounted, NEW input
  PROVE  /\ NextId(input) \notin DOMAIN recs
         /\ SeqIn(DateKey(input)) \in Nat
         /\ DateKey(input) = <<DateKey(input)[1], DateKey(input)[2]>>
<1> DEFINE d == DateKey(input)
<1>1. d = <<d[1], d[2]>>
  BY DEF DateKey
<1>2. SeqIn(d) \in Nat
  BY DEF SeqIn, IdsCounted
<1>3. ASSUME NextId(input) \in DOMAIN recs PROVE FALSE
  <2>1. PICK c \in DOMAIN recSeq : \E n \in 1 .. recSeq[c] : NextId(input) = Append(c, n)
    BY <1>3 DEF IdsCounted
  <2>2. PICK n \in 1 .. recSeq[c] : NextId(input) = Append(c, n)
    BY <2>1
  <2>3. c = <<c[1], c[2]>> /\ recSeq[c] \in Nat /\ n \in Nat
    BY DEF IdsCounted
  <2>4. Append(<<d[1], d[2]>>, SeqIn(d) + 1) = Append(<<c[1], c[2]>>, n)
    BY <1>1, <2>2, <2>3 DEF NextId
  <2>5. d[1] = c[1] /\ d[2] = c[2] /\ SeqIn(d) + 1 = n
    BY <1>2, <2>3, <2>4
  <2>6. c = d
    BY <1>1, <2>3, <2>5
  <2> QED
    BY <2>3, <2>5, <2>6 DEF SeqIn
<1> QED
  BY <1>1, <1>2, <1>3

LEMMA StateInit == RecInit => StateInv
<1> SUFFICES ASSUME RecInit PROVE StateInv
  OBVIOUS
<1>1. DOMAIN recs = {} /\ DOMAIN activeRecs = {} /\ DOMAIN closedRecs = {} /\ DOMAIN recSeq = {}
  BY DEF RecInit
<1>2. OnePerKey /\ RecsFinite
  BY <1>1, FS_EmptySet, StateLimits DEF OnePerKey, RecsFinite
<1> QED
  BY <1>1, <1>2 DEF StateInv, IdsCounted, NamesItsKey

LEMMA OpeningKeeps ==
  ASSUME StateInv, NEW input, ApplyValidated(input), Opens(input)
  PROVE  StateInv' /\ ClosedStays
<1>0. PICK id, key, d : id = NextId(input) /\ key = input.key /\ d = DateKey(input)
  OBVIOUS
<1>1. ~Known(key) /\ Cardinality(DOMAIN activeRecs) < MaxActive
  BY <1>0 DEF Opens
<1>2. NewRec(input).status # "CLOSED" /\ NewRec(input).key = key /\ SoundRec(NewRec(input))
  BY <1>0, NewIsSound
<1>3. /\ recs' = With(recs, id, NewRec(input))
      /\ activeRecs' = With(activeRecs, key, id)
      /\ closedRecs' = Without(closedRecs, key)
      /\ recSeq' = With(recSeq, d, SeqIn(d) + 1)
  BY <1>0, <1>1, <1>2 DEF ApplyValidated, Changes, ResultId, Result
<1>4. id \notin DOMAIN recs /\ SeqIn(d) \in Nat /\ d = <<d[1], d[2]>> /\ id = Append(d, SeqIn(d) + 1)
  BY <1>0, IdIsFresh DEF StateInv, NextId
<1>5. key \notin DOMAIN activeRecs /\ key \notin DOMAIN closedRecs
  BY <1>1 DEF Known
<1>6. /\ DOMAIN recs' = DOMAIN recs \union {id} /\ recs'[id] = NewRec(input)
      /\ \A i \in DOMAIN recs : recs'[i] = recs[i]
  <2>1. \A i \in DOMAIN recs : i \in DOMAIN recs \ {id}
    BY <1>4
  <2>2. /\ DOMAIN With(recs, id, NewRec(input)) = DOMAIN recs \union {id}
        /\ With(recs, id, NewRec(input))[id] = NewRec(input)
        /\ \A i \in DOMAIN recs \ {id} : With(recs, id, NewRec(input))[i] = recs[i]
    BY DEF With
  <2> QED
    BY ONLY <1>3, <2>1, <2>2
<1>7. /\ DOMAIN activeRecs' = DOMAIN activeRecs \union {key} /\ activeRecs'[key] = id
      /\ \A k \in DOMAIN activeRecs : activeRecs'[k] = activeRecs[k]
  <2>1. \A k \in DOMAIN activeRecs : k \in DOMAIN activeRecs \ {key}
    BY <1>5
  <2>2. /\ DOMAIN With(activeRecs, key, id) = DOMAIN activeRecs \union {key}
        /\ With(activeRecs, key, id)[key] = id
        /\ \A k \in DOMAIN activeRecs \ {key} : With(activeRecs, key, id)[k] = activeRecs[k]
    BY DEF With
  <2> QED
    BY ONLY <1>3, <2>1, <2>2
<1>8. DOMAIN closedRecs' = DOMAIN closedRecs /\ \A k \in DOMAIN closedRecs : closedRecs'[k] = closedRecs[k]
  <2>1. DOMAIN closedRecs \ {key} = DOMAIN closedRecs
    BY <1>5
  <2> QED
    BY ONLY <1>3, <2>1 DEF Without
<1>9. /\ DOMAIN recSeq' = DOMAIN recSeq \union {d} /\ recSeq'[d] = SeqIn(d) + 1
      /\ \A c \in DOMAIN recSeq \ {d} : recSeq'[c] = recSeq[c]
  <2>1. /\ DOMAIN With(recSeq, d, SeqIn(d) + 1) = DOMAIN recSeq \union {d}
        /\ With(recSeq, d, SeqIn(d) + 1)[d] = SeqIn(d) + 1
        /\ \A c \in DOMAIN recSeq \ {d} : With(recSeq, d, SeqIn(d) + 1)[c] = recSeq[c]
    BY DEF With
  <2> QED
    BY ONLY <1>3, <2>1
<1>10. IdsCounted'
  <2>1. \A c \in DOMAIN recSeq' : c = <<c[1], c[2]>> /\ recSeq'[c] \in Nat
    BY <1>4, <1>9 DEF StateInv, IdsCounted
  <2>2. \A c \in DOMAIN recSeq : recSeq[c] \in Nat /\ recSeq[c] <= recSeq'[c]
    BY <1>4, <1>9 DEF StateInv, IdsCounted, SeqIn
  <2>3. ASSUME NEW i \in DOMAIN recs
        PROVE  \E c \in DOMAIN recSeq' : \E n \in 1 .. recSeq'[c] : i = Append(c, n)
    <3>1. PICK c \in DOMAIN recSeq : \E n \in 1 .. recSeq[c] : i = Append(c, n)
      BY DEF StateInv, IdsCounted
    <3>2. PICK n \in 1 .. recSeq[c] : i = Append(c, n)
      BY <3>1
    <3>3. c \in DOMAIN recSeq' /\ n \in 1 .. recSeq'[c]
      BY <1>9, <2>1, <2>2
    <3> QED
      BY <3>2, <3>3
  <2>4. \E c \in DOMAIN recSeq' : \E n \in 1 .. recSeq'[c] : id = Append(c, n)
    BY <1>4, <1>9
  <2> QED
    BY <1>6, <2>1, <2>3, <2>4 DEF IdsCounted
<1>11. \A i \in DOMAIN recs' : SoundRec(recs'[i])
  BY <1>2, <1>6 DEF StateInv
<1>12. NamesItsKey(activeRecs)' /\ NamesItsKey(closedRecs)'
  BY <1>2, <1>6, <1>7, <1>8 DEF StateInv, NamesItsKey
<1>13. RecsFinite'
  BY <1>6, <1>7, <1>8, FS_AddElement DEF StateInv, RecsFinite
<1>14. Cardinality(DOMAIN recs') = Cardinality(DOMAIN activeRecs') + Cardinality(DOMAIN closedRecs')
         /\ Cardinality(DOMAIN activeRecs') <= MaxActive
  <2>1. Cardinality(DOMAIN recs') = Cardinality(DOMAIN recs) + 1
    BY <1>4, <1>6, FS_AddElement DEF StateInv, RecsFinite
  <2>2. Cardinality(DOMAIN activeRecs') = Cardinality(DOMAIN activeRecs) + 1
    BY <1>5, <1>7, FS_AddElement DEF StateInv, RecsFinite
  <2>3. Cardinality(DOMAIN closedRecs') = Cardinality(DOMAIN closedRecs)
    BY <1>8
  <2>4. Cardinality(DOMAIN activeRecs) \in Nat /\ Cardinality(DOMAIN closedRecs) \in Nat
    BY FS_CardinalityType DEF StateInv, RecsFinite
  <2> QED
    BY <1>1, <2>1, <2>2, <2>3, <2>4, StateLimits DEF StateInv, OnePerKey
<1>15. \A i \in DOMAIN recs' :
         /\ recs'[i].key \in DOMAIN activeRecs' \union DOMAIN closedRecs'
         /\ i = IF recs'[i].key \in DOMAIN activeRecs' THEN activeRecs'[recs'[i].key]
               ELSE closedRecs'[recs'[i].key]
  <2>1. ASSUME NEW i \in DOMAIN recs
        PROVE  /\ recs'[i].key \in DOMAIN activeRecs' \union DOMAIN closedRecs'
               /\ i = IF recs'[i].key \in DOMAIN activeRecs' THEN activeRecs'[recs'[i].key]
                     ELSE closedRecs'[recs'[i].key]
    <3>1. Known(recs[i].key) /\ IdOf(recs[i].key) = i /\ recs'[i].key = recs[i].key
      BY <1>6 DEF StateInv, OnePerKey
    <3>2. recs[i].key # key
      BY <1>1, <3>1
    <3> QED
      BY <1>7, <1>8, <3>1, <3>2 DEF Known, IdOf
  <2>2. recs'[id].key = key
    BY <1>2, <1>6
  <2> QED
    BY <1>6, <1>7, <2>1, <2>2
<1>16. OnePerKey'
  <2>1. DOMAIN activeRecs' \intersect DOMAIN closedRecs' = {}
    BY <1>5, <1>7, <1>8 DEF StateInv, OnePerKey
  <2>2. \A k \in DOMAIN activeRecs' : recs'[activeRecs'[k]].status # "CLOSED"
    BY <1>2, <1>6, <1>7 DEF StateInv, OnePerKey, NamesItsKey
  <2>3. \A k \in DOMAIN closedRecs' : recs'[closedRecs'[k]].status = "CLOSED"
    BY <1>6, <1>8 DEF StateInv, OnePerKey, NamesItsKey
  <2> QED
    BY <1>14, <1>15, <2>1, <2>2, <2>3 DEF OnePerKey, Known, IdOf
<1>17. ClosedStays
  BY <1>6 DEF ClosedStays
<1> QED
  BY <1>10, <1>11, <1>12, <1>13, <1>16, <1>17 DEF StateInv

(* What a step does to a recommendation it knows: it replaces it, and when *)
(* it is closed, its key is closed too.                                    *)
LEMMA UpdatingDoes ==
  ASSUME StateInv, NEW input, ApplyValidated(input), Known(input.key)
  PROVE  \E id, rec :
           /\ id \in DOMAIN recs
           /\ id = IdOf(input.key) /\ recs[id].key = input.key
           /\ SoundRec(rec) /\ rec.key = input.key
           /\ recs[id].status = "CLOSED" =>
                rec.status = "CLOSED" /\ rec.closedAt = recs[id].closedAt
           /\ recs' = With(recs, id, rec) /\ recSeq' = recSeq
           /\ IF rec.status = "CLOSED"
                THEN /\ activeRecs' = Without(activeRecs, input.key)
                     /\ closedRecs' = With(closedRecs, input.key, id)
                ELSE activeRecs' = activeRecs /\ closedRecs' = closedRecs
<1>0. PICK id, key, rec :
        id = IdOf(input.key) /\ key = input.key /\ rec = ApplyUpdate(recs[id], input)
  OBVIOUS
<1>1. id \in DOMAIN recs /\ recs[id].key = key
  BY <1>0 DEF StateInv, NamesItsKey, Known, IdOf
<1>2. /\ SoundRec(rec) /\ rec.key = key
      /\ recs[id].status = "CLOSED" =>
           rec.status = "CLOSED" /\ rec.closedAt = recs[id].closedAt
  <2>1. SoundRec(recs[id])
    BY <1>1 DEF StateInv
  <2> QED
    BY <1>0, <1>1, <2>1, UpdateKeeps
<1>3. ~Opens(input) /\ Changes(input) /\ ResultId(input) = id /\ Result(input) = rec
  BY <1>0 DEF Opens, Changes, ResultId, Result
<1>4. /\ recs' = With(recs, id, rec) /\ recSeq' = recSeq
      /\ IF rec.status = "CLOSED"
           THEN activeRecs' = Without(activeRecs, key) /\ closedRecs' = With(closedRecs, key, id)
           ELSE activeRecs' = activeRecs /\ closedRecs' = closedRecs
  BY <1>0, <1>2, <1>3 DEF ApplyValidated
<1> QED
  BY <1>0, <1>1, <1>2, <1>4

LEMMA UpdatingKeeps ==
  ASSUME StateInv, NEW input, ApplyValidated(input), Known(input.key)
  PROVE  StateInv' /\ ClosedStays
<1>0. PICK key : key = input.key
  OBVIOUS
<1>1. PICK id, rec :
        /\ id \in DOMAIN recs
        /\ id = IdOf(key) /\ recs[id].key = key /\ SoundRec(rec) /\ rec.key = key
        /\ recs[id].status = "CLOSED" =>
             rec.status = "CLOSED" /\ rec.closedAt = recs[id].closedAt
        /\ recs' = With(recs, id, rec) /\ recSeq' = recSeq
        /\ IF rec.status = "CLOSED"
             THEN activeRecs' = Without(activeRecs, key) /\ closedRecs' = With(closedRecs, key, id)
             ELSE activeRecs' = activeRecs /\ closedRecs' = closedRecs
  BY <1>0, UpdatingDoes
<1>2. /\ DOMAIN recs' = DOMAIN recs /\ recs'[id] = rec
      /\ \A i \in DOMAIN recs : i # id => recs'[i] = recs[i]
  BY <1>1 DEF With
<1>3. /\ NamesItsKey(activeRecs) /\ NamesItsKey(closedRecs) /\ RecsFinite /\ OnePerKey
      /\ Known(key)
  BY <1>0 DEF StateInv
<1>4. \A i \in DOMAIN recs : recs'[i].key = recs[i].key
  BY <1>1, <1>2
<1>5. \A i \in DOMAIN recs : recs[i].key = key => i = id
  BY <1>1, <1>3 DEF OnePerKey
<1>6. IdsCounted'
  BY <1>1, <1>2 DEF StateInv, IdsCounted
<1>7. \A i \in DOMAIN recs' : SoundRec(recs'[i])
  BY <1>1, <1>2 DEF StateInv
<1>8. ClosedStays
  BY <1>1, <1>2 DEF ClosedStays
<1>9. NamesItsKey(activeRecs)' /\ NamesItsKey(closedRecs)' /\ RecsFinite' /\ OnePerKey'
  <2>1. CASE rec.status # "CLOSED"
    <3>1. activeRecs' = activeRecs /\ closedRecs' = closedRecs
      BY <1>1, <2>1
    <3>2. NamesItsKey(activeRecs)' /\ NamesItsKey(closedRecs)' /\ RecsFinite'
      BY <1>2, <1>3, <1>4, <3>1 DEF NamesItsKey, RecsFinite
    <3>3. recs[id].status # "CLOSED"
      BY <1>1, <2>1
    <3>4. /\ \A k \in DOMAIN activeRecs' : recs'[activeRecs'[k]].status # "CLOSED"
          /\ \A k \in DOMAIN closedRecs' : recs'[closedRecs'[k]].status = "CLOSED"
      BY <1>2, <1>3, <2>1, <3>1, <3>3 DEF OnePerKey, NamesItsKey
    <3> QED
      BY <1>2, <1>3, <1>4, <3>1, <3>2, <3>4 DEF OnePerKey, Known, IdOf
  <2>2. CASE rec.status = "CLOSED"
    <3>1. /\ DOMAIN activeRecs' = DOMAIN activeRecs \ {key}
          /\ \A k \in DOMAIN activeRecs' : activeRecs'[k] = activeRecs[k]
      BY <1>1, <2>2 DEF Without
    <3>2. /\ DOMAIN closedRecs' = DOMAIN closedRecs \union {key} /\ closedRecs'[key] = id
          /\ \A k \in DOMAIN closedRecs : k # key => closedRecs'[k] = closedRecs[k]
      BY <1>1, <2>2 DEF With
    <3>3. NamesItsKey(activeRecs)' /\ NamesItsKey(closedRecs)'
      BY <1>1, <1>2, <1>3, <1>4, <3>1, <3>2 DEF NamesItsKey
    <3>4. RecsFinite'
      <4>1. IsFiniteSet(DOMAIN activeRecs \ {key})
        BY <1>3, FS_RemoveElement DEF RecsFinite
      <4>2. IsFiniteSet(DOMAIN closedRecs \union {key})
        BY <1>3, FS_AddElement DEF RecsFinite
      <4> QED
        BY <1>2, <1>3, <3>1, <3>2, <4>1, <4>2 DEF RecsFinite
    <3>5. DOMAIN activeRecs' \intersect DOMAIN closedRecs' = {}
      BY <1>3, <3>1, <3>2 DEF OnePerKey
    <3>6. \A i \in DOMAIN recs' :
            /\ recs'[i].key \in DOMAIN activeRecs' \union DOMAIN closedRecs'
            /\ i = IF recs'[i].key \in DOMAIN activeRecs' THEN activeRecs'[recs'[i].key]
                  ELSE closedRecs'[recs'[i].key]
      <4> SUFFICES ASSUME NEW i \in DOMAIN recs
                   PROVE  /\ recs[i].key \in DOMAIN activeRecs' \union DOMAIN closedRecs'
                          /\ i = IF recs[i].key \in DOMAIN activeRecs' THEN activeRecs'[recs[i].key]
                                ELSE closedRecs'[recs[i].key]
        BY <1>2, <1>4
      <4>1. CASE i = id
        BY <1>1, <3>1, <3>2, <4>1
      <4>2. CASE i # id
        <5>1. recs[i].key # key /\ Known(recs[i].key) /\ IdOf(recs[i].key) = i
          BY <1>3, <1>5, <4>2 DEF OnePerKey
        <5> QED
          BY <3>1, <3>2, <5>1 DEF Known, IdOf
      <4> QED
        BY <4>1, <4>2
    <3>7. \A k \in DOMAIN activeRecs' : recs'[activeRecs'[k]].status # "CLOSED"
      BY <1>1, <1>2, <1>3, <3>1 DEF OnePerKey, NamesItsKey
    <3>8. \A k \in DOMAIN closedRecs' : recs'[closedRecs'[k]].status = "CLOSED"
      BY <1>1, <1>2, <1>3, <2>2, <3>2 DEF OnePerKey, NamesItsKey
    <3>9. Cardinality(DOMAIN activeRecs') + Cardinality(DOMAIN closedRecs')
            = Cardinality(DOMAIN activeRecs) + Cardinality(DOMAIN closedRecs)
          /\ Cardinality(DOMAIN activeRecs') <= Cardinality(DOMAIN activeRecs)
      <4>0. Cardinality(DOMAIN activeRecs) \in Nat /\ Cardinality(DOMAIN closedRecs) \in Nat
        BY <1>3, FS_CardinalityType DEF RecsFinite
      <4>1. CASE key \in DOMAIN activeRecs
        <5>1. key \notin DOMAIN closedRecs
          BY <1>3, <4>1 DEF OnePerKey
        <5>2. Cardinality(DOMAIN activeRecs') = Cardinality(DOMAIN activeRecs) - 1
          BY <1>3, <3>1, <4>1, FS_RemoveElement DEF RecsFinite
        <5>3. Cardinality(DOMAIN closedRecs') = Cardinality(DOMAIN closedRecs) + 1
          BY <1>3, <3>2, <5>1, FS_AddElement DEF RecsFinite
        <5> QED
          BY <4>0, <5>2, <5>3
      <4>2. CASE key \notin DOMAIN activeRecs
        <5>1. DOMAIN activeRecs' = DOMAIN activeRecs
          BY <3>1, <4>2
        <5>2. DOMAIN closedRecs' = DOMAIN closedRecs
          BY <1>3, <3>2, <4>2 DEF Known
        <5> QED
          BY <4>0, <5>1, <5>2
      <4> QED
        BY <4>1, <4>2
    <3>10. Cardinality(DOMAIN activeRecs') <= MaxActive
      <4>1. Cardinality(DOMAIN activeRecs') \in Nat /\ Cardinality(DOMAIN activeRecs) \in Nat
        BY <1>3, <3>4, FS_CardinalityType DEF RecsFinite
      <4> QED
        BY <1>3, <3>9, <4>1, StateLimits DEF OnePerKey
    <3>11. OnePerKey'
      BY <1>2, <1>3, <3>5, <3>6, <3>7, <3>8, <3>9, <3>10 DEF OnePerKey, Known, IdOf
    <3> QED
      BY <3>3, <3>4, <3>11
  <2> QED
    BY <2>1, <2>2
<1> QED
  BY <1>6, <1>7, <1>8, <1>9 DEF StateInv

-----------------------------------------------------------------------------
LEMMA UnchangedKeeps == StateInv /\ UNCHANGED recVars => StateInv' /\ ClosedStays
<1> SUFFICES ASSUME StateInv, UNCHANGED recVars PROVE StateInv' /\ ClosedStays
  OBVIOUS
<1>1. recs' = recs /\ activeRecs' = activeRecs /\ closedRecs' = closedRecs /\ recSeq' = recSeq
  BY DEF recVars
<1>2. StateInv'
  BY <1>1 DEF StateInv, IdsCounted, NamesItsKey, RecsFinite, OnePerKey, Known, IdOf
<1>3. ClosedStays
  BY <1>1 DEF ClosedStays
<1> QED
  BY <1>2, <1>3

LEMMA ApplyKeeps ==
  ASSUME StateInv, NEW input, ApplyValidated(input)
  PROVE  StateInv' /\ ClosedStays
<1>1. CASE Known(input.key)
  BY <1>1, UpdatingKeeps
<1>2. CASE Opens(input)
  BY <1>2, OpeningKeeps
<1>3. CASE ~Changes(input)
  BY <1>3, UnchangedKeeps DEF ApplyValidated
<1> QED
  BY <1>1, <1>2, <1>3 DEF Changes

(* Every step of the flow is a step of the state engine on some input, or  *)
(* leaves its state alone.                                                 *)
LEMMA StateEngineAlone ==
  ASSUME [FlowNext]_flowVars
  PROVE  (\E input : ApplyValidated(input)) \/ UNCHANGED recVars
<1>1. CASE UNCHANGED flowVars
  BY <1>1 DEF flowVars, downVars
<1>2. CASE StateHandles
  BY <1>2 DEF StateHandles
<1>3. CASE Validate \/ Observe \/ PortfolioTrades \/ CandleCloses \/ TimePasses
  BY <1>3 DEF Validate, Observe, PortfolioTrades, CandleCloses, TimePasses, downVars
<1>4. CASE PerformanceHandles \/ OptimizationHandles \/ ScannerHandles \/ OpportunityHandles
             \/ RecommendationHandles \/ ValidationHandles
  BY <1>4 DEF PerformanceHandles, OptimizationHandles, ScannerHandles, OpportunityHandles,
              RecommendationHandles, ValidationHandles, downVars
<1>5. CASE AlertsHandle \/ IntelligenceHandles \/ QualityHandles \/ FeedbackHandles
             \/ DeliveryHandles
  BY <1>5 DEF AlertsHandle, IntelligenceHandles, QualityHandles, FeedbackHandles, DeliveryHandles
<1> QED
  BY <1>1, <1>2, <1>3, <1>4, <1>5 DEF FlowNext, EngineHandles

(* A step keeps what the state engine promises.                            *)
LEMMA StateStep == StateInv /\ [FlowNext]_flowVars => StateInv' /\ [ClosedStays]_recVars
<1> SUFFICES ASSUME StateInv, [FlowNext]_flowVars PROVE StateInv' /\ ClosedStays
  OBVIOUS
<1>1. CASE UNCHANGED recVars
  BY <1>1, UnchangedKeeps
<1>2. CASE \E input : ApplyValidated(input)
  BY <1>2, ApplyKeeps
<1> QED
  BY <1>1, <1>2, StateEngineAlone

(* Whatever arrives at the state engine, and however much of it the bus    *)
(* loses, a series has one recommendation with one life: the indexes of    *)
(* the cache agree, the timelines tell every change of a status, and what  *)
(* is closed stays closed, as it closed.                                   *)
THEOREM OneLifeHolds == FlowSpec => OneLife
<1>1. FlowInit => StateInv
  BY StateInit DEF FlowInit
<1>2. StateInv /\ [FlowNext]_flowVars => StateInv'
  BY StateStep
<1>3. StateInv /\ [FlowNext]_flowVars => [ClosedStays]_recVars
  BY StateStep
<1>4. StateInv => OnePerKey /\ TimelineTells
  BY DEF StateInv, SoundRec, TimelineTells
<1>5. FlowSpec => []StateInv
  BY <1>1, <1>2, PTL DEF FlowSpec
<1>6. FlowSpec => [][ClosedStays]_recVars
  BY <1>3, <1>5, PTL DEF FlowSpec
<1>7. FlowSpec => [](OnePerKey /\ TimelineTells)
  BY <1>4, <1>5, PTL
<1> QED
  BY <1>6, <1>7 DEF OneLife, ClosedForGood, ClosedStays

-----------------------------------------------------------------------------
(* A sequence over a set is one over what occurs in it.                    *)
LEMMA RangeIsEnough == ASSUME NEW S, NEW t \in Seq(S) PROVE IsSequence(t)
<1>1. t \in [1 .. Len(t) -> S] /\ Len(t) \in Nat /\ DOMAIN t = 1 .. Len(t)
  BY LenProperties
<1>2. t \in [1 .. Len(t) -> {t[n] : n \in DOMAIN t}]
  BY <1>1
<1> QED
  BY <1>1, <1>2, SeqDef DEF IsSequence

-----------------------------------------------------------------------------
(* Queues.                                                                 *)
LEMMA Joined ==
  ASSUME NEW s, IsSequence(s), NEW t, IsSequence(t)
  PROVE  /\ IsSequence(s \o t) /\ Len(s \o t) = Len(s) + Len(t)
         /\ Len(s) \in Nat /\ Len(t) \in Nat
         /\ DOMAIN s = 1 .. Len(s) /\ DOMAIN t = 1 .. Len(t)
         /\ DOMAIN (s \o t) = 1 .. Len(s) + Len(t)
         /\ \A n \in 1 .. Len(s) : (s \o t)[n] = s[n]
         /\ \A n \in 1 .. Len(t) : (s \o t)[Len(s) + n] = t[n]
<1> DEFINE S == {s[n] : n \in DOMAIN s} \union {t[n] : n \in DOMAIN t}
           u == s \o t
<1>1. s \in Seq(S) /\ t \in Seq(S)
  BY SeqMonotonic DEF IsSequence
<1> HIDE DEF S
<1>2. /\ u \in Seq(S) /\ Len(u) = Len(s) + Len(t)
      /\ \A n \in 1 .. Len(s) + Len(t) : u[n] = IF n <= Len(s) THEN s[n] ELSE t[n - Len(s)]
  BY <1>1, ConcatProperties
<1>3. Len(s) \in Nat /\ Len(t) \in Nat /\ DOMAIN s = 1 .. Len(s) /\ DOMAIN t = 1 .. Len(t)
        /\ DOMAIN u = 1 .. Len(u)
  BY <1>1, <1>2, LenProperties
<1> HIDE DEF u
<1>4. (\A n \in 1 .. Len(s) : u[n] = s[n]) /\ \A n \in 1 .. Len(t) : u[Len(s) + n] = t[n]
  BY <1>2, <1>3
<1>5. IsSequence(u)
  BY <1>2, RangeIsEnough
<1> QED
  BY <1>2, <1>3, <1>4, <1>5 DEF u

(* A part of a sequence.                                                   *)
LEMMA Cut ==
  ASSUME NEW s, IsSequence(s), NEW m \in 1 .. Len(s) + 1, NEW k \in m - 1 .. Len(s)
  PROVE  /\ IsSequence(SubSeq(s, m, k)) /\ Len(SubSeq(s, m, k)) = k - m + 1
         /\ DOMAIN SubSeq(s, m, k) = 1 .. k - m + 1
         /\ \A n \in 1 .. k - m + 1 : SubSeq(s, m, k)[n] = s[m + n - 1]
<1> DEFINE S == {s[n] : n \in DOMAIN s}
           u == SubSeq(s, m, k)
<1>1. s \in Seq(S)
  BY DEF IsSequence
<1> HIDE DEF S
<1>2. Len(s) \in Nat /\ DOMAIN s = 1 .. Len(s) /\ \A n \in m .. k : s[n] \in S
  BY <1>1, LenProperties
<1>3. /\ u \in Seq(S) /\ Len(u) = IF m <= k THEN k - m + 1 ELSE 0
      /\ \A n \in 1 .. k - m + 1 : u[n] = s[m + n - 1]
  BY <1>2, SubSeqProperties
<1>4. Len(u) = k - m + 1 /\ DOMAIN u = 1 .. k - m + 1
  BY <1>2, <1>3, LenProperties
<1>5. IsSequence(u)
  BY <1>3, RangeIsEnough
<1> QED
  BY <1>3, <1>4, <1>5

(* A channel that is offered what an engine publishes.                     *)
LEMMA Offered ==
  ASSUME NEW q, IsSequence(q), Len(q) <= Buffer, NEW w, IsSequence(w)
  PROVE  /\ IsSequence(Offer(q, w)) /\ Len(Offer(q, w)) <= Buffer
         /\ \A n \in DOMAIN Offer(q, w) :
              \/ n \in DOMAIN q /\ Offer(q, w)[n] = q[n]
              \/ \E m \in DOMAIN w : Offer(q, w)[n] = w[m]
<1> DEFINE u == q \o w
           k == IF Len(q) + Len(w) > Buffer THEN Buffer ELSE Len(q) + Len(w)
<1>1. /\ IsSequence(u) /\ Len(u) = Len(q) + Len(w) /\ Len(q) \in Nat /\ Len(w) \in Nat
      /\ DOMAIN q = 1 .. Len(q) /\ DOMAIN w = 1 .. Len(w)
      /\ \A n \in 1 .. Len(q) : u[n] = q[n]
      /\ \A n \in 1 .. Len(w) : u[Len(q) + n] = w[n]
  BY Joined
<1>2. k \in 1 - 1 .. Len(u) /\ k <= Buffer /\ 1 \in 1 .. Len(u) + 1
  BY <1>1, BufferPositive
<1>3. Offer(q, w) = SubSeq(u, 1, k)
  BY DEF Offer
<1> HIDE DEF u, k
<1>4. /\ IsSequence(SubSeq(u, 1, k)) /\ Len(SubSeq(u, 1, k)) = k - 1 + 1
      /\ DOMAIN SubSeq(u, 1, k) = 1 .. k - 1 + 1
      /\ \A n \in 1 .. k - 1 + 1 : SubSeq(u, 1, k)[n] = u[1 + n - 1]
  BY <1>1, <1>2, Cut
<1>5. ASSUME NEW n \in 1 .. k
      PROVE  \/ n \in DOMAIN q /\ u[n] = q[n]
             \/ \E m \in DOMAIN w : u[n] = w[m]
  <2>1. CASE n <= Len(q)
    BY <1>1, <1>5, <2>1
  <2>2. CASE n > Len(q)
    <3>1. n - Len(q) \in DOMAIN w /\ u[Len(q) + (n - Len(q))] = w[n - Len(q)]
      BY <1>1, <1>2, <1>5, <2>2
    <3> QED
      BY <1>1, <1>5, <3>1
  <2> QED
    BY <1>1, <1>5, <2>1, <2>2
<1> QED
  BY <1>1, <1>2, <1>3, <1>4, <1>5

(* A channel that is offered one event takes it where it has room.         *)
LEMMA OfferedOne ==
  ASSUME NEW q, IsSequence(q), Len(q) <= Buffer
  PROVE  /\ Offer(q, <<>>) = q
         /\ \A v : Offer(q, <<v>>) = IF Len(q) < Buffer THEN Append(q, v) ELSE q
<1> DEFINE S == {q[n] : n \in DOMAIN q}
<1>1. q \in Seq(S)
  BY DEF IsSequence
<1> HIDE DEF S
<1>2. Len(q) \in Nat /\ Len(<<>>) = 0 /\ SubSeq(q, 1, Len(q)) = q /\ q \o <<>> = q
  BY <1>1, SubSeqFull, ConcatEmptySeq
<1>0. Len(q) \in Nat /\ Len(q) <= Buffer /\ Buffer \in Nat
  BY <1>2, BufferPositive
<1>3. Offer(q, <<>>) = q
  <2>1. Len(q) + Len(<<>>) = Len(q) /\ ~(Len(q) + Len(<<>>) > Buffer)
    BY <1>0, <1>2
  <2> QED
    BY <1>2, <2>1, Zenon DEF Offer
<1>4. ASSUME NEW v PROVE Offer(q, <<v>>) = IF Len(q) < Buffer THEN Append(q, v) ELSE q
  <2>1. q \o <<v>> = Append(q, v) /\ Len(<<v>>) = 1 /\ Len(Append(q, v)) = Len(q) + 1
    BY <1>1, Appended
  <2>2. q \in Seq(S \union {v}) /\ Append(q, v) \in Seq(S \union {v})
    BY <1>1, SeqMonotonic, AppendProperties
  <2>3. CASE Len(q) < Buffer
    <3>1. SubSeq(Append(q, v), 1, Len(q) + 1) = Append(q, v)
      BY <2>1, <2>2, SubSeqFull
    <3> QED
      BY <1>2, <2>1, <2>3, <3>1, BufferPositive DEF Offer
  <2>4. CASE Len(q) = Buffer
    <3>1. 1 \in 1 .. Len(q) /\ Len(q) \in 1 .. Len(q)
      BY <1>2, <2>4, BufferPositive
    <3>2. <<v>> \in Seq(S \union {v})
      OBVIOUS
    <3>3. SubSeq(q \o <<v>>, 1, Len(q)) = SubSeq(q, 1, Len(q))
      BY <2>2, <3>1, <3>2, SubSeqOfConcat1
    <3> QED
      BY <1>2, <2>1, <2>4, <3>3, BufferPositive DEF Offer
  <2> QED
    BY <1>0, <2>3, <2>4
<1> QED
  BY <1>3, <1>4

(* A channel without the event that its engine took.                       *)
LEMMA Tailed ==
  ASSUME NEW q, IsSequence(q), q # <<>>
  PROVE  /\ IsSequence(Tail(q)) /\ Len(Tail(q)) = Len(q) - 1 /\ Len(q) \in Nat \ {0}
         /\ DOMAIN q = 1 .. Len(q) /\ DOMAIN Tail(q) = 1 .. Len(q) - 1
         /\ \A n \in 1 .. Len(q) - 1 : Tail(q)[n] = q[n + 1]
         /\ Head(q) = q[1]
<1> DEFINE S == {q[n] : n \in DOMAIN q}
<1>1. q \in Seq(S)
  BY DEF IsSequence
<1> HIDE DEF S
<1>2. Tail(q) \in Seq(S) /\ Len(Tail(q)) = Len(q) - 1 /\ Len(q) \in Nat \ {0}
        /\ \A n \in 1 .. Len(Tail(q)) : Tail(q)[n] = q[n + 1]
  BY <1>1, HeadTailProperties, EmptySeq
<1>3. DOMAIN q = 1 .. Len(q) /\ DOMAIN Tail(q) = 1 .. Len(q) - 1
  BY <1>1, <1>2, LenProperties
<1>4. IsSequence(Tail(q))
  BY <1>2, RangeIsEnough
<1>5. Head(q) = q[1]
  BY <1>1
<1> QED
  BY <1>2, <1>3, <1>4, <1>5

(* What is published, stamped with the clock.                              *)
Stamped(events) == [n \in DOMAIN events |-> With(events[n], "ts", now)]

(* A publication reaches the channels of those that listen, stamped.       *)
LEMMA PublishDoes ==
  ASSUME NEW events, NEW from, Publish(events, from)
  PROVE  /\ enabled' = enabled
         /\ inbox' = [e \in DOMAIN inbox |->
                       Offer(Queue(e, from), Wanted(Stamped(events), Listening[e]))]
         /\ lost' = (lost \/ \E e \in DOMAIN inbox :
              Len(Queue(e, from)) + Len(Wanted(Stamped(events), Listening[e])) > Buffer)
BY DEF Publish, PublishTo, Stamped

(* The types of what the engines downstream hear, and of the rest.         *)
DownTypes == {"validated", "state", "intelligence", "candle", "quality", "feedback", "alert"}
UpTypes == {"portfolio", "performance", "optimization", "scanner", "opportunity",
            "recommendation", "signal", "decision", "intent", "walkforward", "montecarlo"}

(* What the engines downstream hear is told apart from the rest by type.   *)
LEMMA DownWants ==
  /\ \A d \in Engines : Listening[d] \subseteq Wants[d]
  /\ \A d \in Downstream : Listening[d] \subseteq Wants[d] /\ Wants[d] \subseteq DownTypes
  /\ UpTypes \intersect DownTypes = {} /\ Downstream \subseteq Engines
<1>1. Downstream \subseteq Engines
  BY DEF Engines
<1>2. UpTypes \intersect DownTypes = {}
  BY DEF UpTypes, DownTypes
<1>3. \A d \in Engines : Listening[d] \subseteq Wants[d]
  BY DEF Listening
<1>4. \A d \in Downstream : Wants[d] \subseteq DownTypes
  BY DEF Downstream, Wants, DownTypes
<1> QED
  BY <1>1, <1>2, <1>3, <1>4

-----------------------------------------------------------------------------
(* What is in the channels: events of the types wanted, with the time of   *)
(* the entry, of the recommendation, or of the event.                      *)
Timed(e) ==
  /\ e.ts \in Int
  /\ IF e.type = "state" THEN e.entry.at \in Int
     ELSE IF e.type = "recommendation" THEN e.generatedAt \in Int ELSE e.at \in Int

BoxesTyped ==
  /\ DOMAIN inbox = Engines /\ now \in Int
  /\ \A d \in Engines :
       /\ IsSequence(inbox[d]) /\ Len(inbox[d]) <= Buffer
       /\ \A n \in DOMAIN inbox[d] : inbox[d][n].type \in Wants[d] /\ Timed(inbox[d][n])

(* What is published, but for the stamp.                                   *)
Tells1(v, type) ==
  /\ "type" \in DOMAIN v /\ v.type = type
  /\ IF type = "state" THEN "entry" \in DOMAIN v /\ v.entry.at \in Int
     ELSE IF type = "recommendation" THEN "generatedAt" \in DOMAIN v /\ v.generatedAt \in Int
     ELSE "at" \in DOMAIN v /\ v.at \in Int
AllTell(events, type) == IsSequence(events) /\ \A n \in DOMAIN events : Tells1(events[n], type)

(* A stamp adds a time and changes nothing else.                           *)
LEMMA StampKeeps ==
  ASSUME NEW v
  PROVE  /\ With(v, "ts", now).ts = now
         /\ \A f \in DOMAIN v : f # "ts" => With(v, "ts", now)[f] = v[f]
BY DEF With

(* What tells its time still does when it is stamped.                      *)
LEMMA StampTells ==
  ASSUME now \in Int, NEW v, NEW type, Tells1(v, type)
  PROVE  With(v, "ts", now).type = type /\ Timed(With(v, "ts", now))
<1> DEFINE w == With(v, "ts", now)
<1>1. w.ts = now /\ \A f \in DOMAIN v : f # "ts" => w[f] = v[f]
  BY StampKeeps
<1> HIDE DEF w
<1>2. w.type = type
  BY <1>1 DEF Tells1
<1>3. type = "state" => w.entry = v.entry
  BY <1>1 DEF Tells1
<1>4. type = "recommendation" => w.generatedAt = v.generatedAt
  BY <1>1 DEF Tells1
<1>5. type \notin {"state", "recommendation"} => w.at = v.at
  BY <1>1 DEF Tells1
<1> QED
  BY <1>1, <1>2, <1>3, <1>4, <1>5 DEF Tells1, Timed, w

(* A channel from which its engine has taken an event is a channel still.  *)
LEMMA QueueTyped ==
  ASSUME BoxesTyped, NEW d \in Engines, NEW from, from = d => inbox[d] # <<>>
  PROVE  /\ d \in DOMAIN inbox
         /\ IsSequence(Queue(d, from)) /\ Len(Queue(d, from)) <= Buffer
         /\ \A n \in DOMAIN Queue(d, from) :
              Queue(d, from)[n].type \in Wants[d] /\ Timed(Queue(d, from)[n])
<1>1. d \in DOMAIN inbox
  BY DEF BoxesTyped
<1>2. CASE d # from
  BY <1>1, <1>2 DEF Queue, BoxesTyped
<1>3. CASE d = from
  <2>1. IsSequence(inbox[d]) /\ inbox[d] # <<>> /\ Len(inbox[d]) <= Buffer
    BY <1>3 DEF BoxesTyped
  <2>2. /\ IsSequence(Tail(inbox[d])) /\ Len(Tail(inbox[d])) = Len(inbox[d]) - 1
        /\ Len(inbox[d]) \in Nat \ {0}
        /\ DOMAIN inbox[d] = 1 .. Len(inbox[d]) /\ DOMAIN Tail(inbox[d]) = 1 .. Len(inbox[d]) - 1
        /\ \A n \in 1 .. Len(inbox[d]) - 1 : Tail(inbox[d])[n] = inbox[d][n + 1]
    BY <2>1, Tailed
  <2>3. Queue(d, from) = Tail(inbox[d])
    BY <1>3 DEF Queue
  <2>4. Len(Tail(inbox[d])) <= Buffer
    BY <2>1, <2>2, BufferPositive
  <2>5. \A n \in DOMAIN Tail(inbox[d]) : \E m \in DOMAIN inbox[d] : Tail(inbox[d])[n] = inbox[d][m]
    BY <2>2
  <2> QED
    BY <1>1, <2>2, <2>3, <2>4, <2>5 DEF BoxesTyped
<1> QED
  BY <1>2, <1>3

(* A publication of events of one type.                                    *)
LEMMA Heard ==
  ASSUME BoxesTyped, NEW events, NEW type, AllTell(events, type),
         NEW from, from \in Engines => inbox[from] # <<>>, Publish(events, from), now' = now
  PROVE  BoxesTyped'
<1> DEFINE out == Stamped(events)
<1>1. /\ inbox' = [e \in DOMAIN inbox |-> Offer(Queue(e, from), Wanted(out, Listening[e]))]
  BY PublishDoes
<1>2. IsSequence(events) /\ DOMAIN events = 1 .. Len(events) /\ Len(events) \in Nat
  BY Appended DEF AllTell
<1>3. IsSequence(out)
  BY <1>2, SeqDef DEF Stamped, IsSequence
<1>4. \A n \in DOMAIN out : out[n].type = type /\ Timed(out[n])
  BY <1>2, StampTells DEF Stamped, AllTell, BoxesTyped
<1> HIDE DEF out
<1>5. IsSequence(<<>>) /\ DOMAIN <<>> = {}
  BY DEF IsSequence
<1>6. ASSUME NEW d \in Engines
      PROVE  /\ IsSequence(inbox'[d]) /\ Len(inbox'[d]) <= Buffer
             /\ \A n \in DOMAIN inbox'[d] : inbox'[d][n].type \in Wants[d] /\ Timed(inbox'[d][n])
  <2> DEFINE q == Queue(d, from)
             w == Wanted(out, Listening[d])
  <2>1. /\ d \in DOMAIN inbox /\ IsSequence(q) /\ Len(q) <= Buffer
        /\ \A n \in DOMAIN q : q[n].type \in Wants[d] /\ Timed(q[n])
    BY QueueTyped
  <2>2. IsSequence(w) /\ \A n \in DOMAIN w : w[n].type \in Wants[d] /\ Timed(w[n])
    <3>1. CASE \E n \in DOMAIN out : out[n].type \in Listening[d]
      <4>1. w = out /\ type \in Wants[d]
        BY <1>4, <3>1, DownWants DEF Wanted
      <4> QED
        BY <1>3, <1>4, <4>1
    <3>2. CASE ~ \E n \in DOMAIN out : out[n].type \in Listening[d]
      BY <1>5, <3>2 DEF Wanted
    <3> QED
      BY <3>1, <3>2
  <2>3. inbox'[d] = Offer(q, w)
    BY <1>1, <2>1
  <2> HIDE DEF q, w
  <2> QED
    BY <2>1, <2>2, <2>3, Offered
<1> QED
  BY <1>1, <1>6 DEF BoxesTyped

(* A publication nobody wants, and one of an event.                        *)
LEMMA UnheardBy ==
  ASSUME BoxesTyped, NEW events, NEW from, Publish(events, from),
         NEW d \in Engines, from = d => inbox[d] # <<>>,
         \A n \in DOMAIN events : "type" \in DOMAIN events[n] /\ events[n].type \notin Listening[d]
  PROVE  inbox'[d] = Queue(d, from)
<1>1. inbox' = [e \in DOMAIN inbox |->
                 Offer(Queue(e, from), Wanted(Stamped(events), Listening[e]))]
  BY PublishDoes
<1>2. d \in DOMAIN inbox /\ IsSequence(Queue(d, from)) /\ Len(Queue(d, from)) <= Buffer
  BY QueueTyped
<1>3. \A n \in DOMAIN events : With(events[n], "ts", now).type = events[n].type
  BY StampKeeps
<1>4. \A n \in DOMAIN Stamped(events) : Stamped(events)[n].type \notin Listening[d]
  BY <1>3 DEF Stamped
<1>5. Wanted(Stamped(events), Listening[d]) = <<>>
  BY <1>4, Zenon DEF Wanted
<1> QED
  BY <1>1, <1>2, <1>5, OfferedOne

(* So it is with an engine downstream.                                     *)
LEMMA Unheard ==
  ASSUME BoxesTyped, NEW events, NEW from, Publish(events, from),
         from \in Downstream => inbox[from] # <<>>, NEW d \in Downstream,
         \A n \in DOMAIN events : "type" \in DOMAIN events[n] /\ events[n].type \notin Listening[d]
  PROVE  inbox'[d] = Queue(d, from)
BY UnheardBy, DownWants

(* A publication of one event, to one that listens.                        *)
LEMMA HeardBy ==
  ASSUME BoxesTyped, NEW v, "type" \in DOMAIN v, NEW from, Publish(<<v>>, from),
         NEW d \in Engines, from = d => inbox[d] # <<>>, v.type \in Listening[d]
  PROVE  IF Len(Queue(d, from)) < Buffer
           THEN inbox'[d] = Append(Queue(d, from), With(v, "ts", now))
           ELSE inbox'[d] = Queue(d, from) /\ lost'
<1> DEFINE w == With(v, "ts", now)
<1>1. /\ inbox' = [e \in DOMAIN inbox |->
                    Offer(Queue(e, from), Wanted(Stamped(<<v>>), Listening[e]))]
      /\ lost' = (lost \/ \E e \in DOMAIN inbox :
           Len(Queue(e, from)) + Len(Wanted(Stamped(<<v>>), Listening[e])) > Buffer)
  BY PublishDoes
<1>2. d \in DOMAIN inbox /\ IsSequence(Queue(d, from)) /\ Len(Queue(d, from)) <= Buffer
  BY QueueTyped
<1>3. w.type = v.type
  BY StampKeeps
<1> HIDE DEF w
<1>4. Stamped(<<v>>) = <<w>>
  BY DEF Stamped, w
<1>5. Wanted(<<w>>, Listening[d]) = <<w>>
  BY <1>3 DEF Wanted
<1>6. inbox'[d] = IF Len(Queue(d, from)) < Buffer THEN Append(Queue(d, from), w)
                  ELSE Queue(d, from)
  BY <1>1, <1>2, <1>4, <1>5, OfferedOne
<1>7. ~(Len(Queue(d, from)) < Buffer) => lost'
  <2>1. Len(<<w>>) = 1 /\ Len(Queue(d, from)) \in Nat
    BY <1>2, Appended
  <2>2. Len(Wanted(Stamped(<<v>>), Listening[d])) = 1
    BY <1>4, <1>5, <2>1
  <2>3. ~(Len(Queue(d, from)) < Buffer) =>
          Len(Queue(d, from)) + Len(Wanted(Stamped(<<v>>), Listening[d])) > Buffer
    <3>1. PICK a, b : a = Len(Queue(d, from)) /\ b = Len(Wanted(Stamped(<<v>>), Listening[d]))
      OBVIOUS
    <3>2. a \in Nat /\ b = 1 /\ Buffer \in Nat
      BY <2>1, <2>2, <3>1, BufferPositive
    <3>3. ~(a < Buffer) => a + b > Buffer
      BY ONLY <3>2
    <3> QED
      BY <3>1, <3>3
  <2> QED
    BY <1>1, <1>2, <2>3, Zenon
<1> QED
  BY <1>6, <1>7 DEF w

(* So it is with an engine downstream.                                     *)
LEMMA HeardOne ==
  ASSUME BoxesTyped, NEW v, "type" \in DOMAIN v, NEW from, Publish(<<v>>, from),
         from \in Downstream => inbox[from] # <<>>, NEW d \in Downstream, v.type \in Listening[d]
  PROVE  IF Len(Queue(d, from)) < Buffer
           THEN inbox'[d] = Append(Queue(d, from), With(v, "ts", now))
           ELSE inbox'[d] = Queue(d, from) /\ lost'
BY HeardBy, DownWants

-----------------------------------------------------------------------------
(* One event, or none, as a publication.                                   *)
LEMMA OneTells == ASSUME NEW v, NEW type, Tells1(v, type) PROVE AllTell(<<v>>, type)
<1>1. <<v>> \in Seq({<<v>>[n] : n \in DOMAIN <<v>>})
  OBVIOUS
<1> QED
  BY <1>1 DEF AllTell, IsSequence

(* Nothing published tells its time.                                       *)
LEMMA NoneTell == \A type : AllTell(<<>>, type)
BY DEF AllTell, IsSequence

(* The event an engine takes is of a type it wants and tells its time.     *)
LEMMA TakenBy ==
  ASSUME BoxesTyped, NEW d \in Engines, Waiting(d)
  PROVE  /\ Next1(d).type \in Wants[d] /\ Timed(Next1(d)) /\ inbox[d] # <<>>
         /\ 1 \in DOMAIN inbox[d] /\ Next1(d) = inbox[d][1]
         /\ IsSequence(inbox[d]) /\ Len(inbox[d]) \in Nat \ {0}
<1>1. IsSequence(inbox[d]) /\ inbox[d] # <<>>
  BY DEF BoxesTyped, Waiting
<1>2. Len(inbox[d]) \in Nat \ {0} /\ DOMAIN inbox[d] = 1 .. Len(inbox[d]) /\ Head(inbox[d]) = inbox[d][1]
  BY <1>1, Tailed
<1> QED
  BY <1>1, <1>2 DEF BoxesTyped, Next1

(* So it is with an engine downstream.                                     *)
LEMMA Taken ==
  ASSUME BoxesTyped, NEW d \in Downstream, Waiting(d)
  PROVE  /\ Next1(d).type \in Wants[d] /\ Timed(Next1(d)) /\ inbox[d] # <<>>
         /\ 1 \in DOMAIN inbox[d] /\ Next1(d) = inbox[d][1]
         /\ IsSequence(inbox[d]) /\ Len(inbox[d]) \in Nat \ {0}
BY TakenBy, DownWants

-----------------------------------------------------------------------------
(* The engines upstream, the portfolio and the observations publish        *)
(* nothing that is heard downstream.                                       *)
TradesMove == PortfolioTrades \/ PerformanceHandles \/ OptimizationHandles
OffTrades(from, type) ==
  from \notin {"performance", "optimization"} /\ type \notin {"portfolio", "performance"}
Elsewhere ==
  /\ now' = now /\ UNCHANGED downVars
  /\ \E events, from, type :
       /\ from \notin Downstream /\ (from \in Engines => inbox[from] # <<>>)
       /\ Publish(events, from) /\ AllTell(events, type) /\ type \in UpTypes
       /\ TradesMove \/ OffTrades(from, type)

(* Scan results tell the time of what was scanned.                         *)
LEMMA ScansTell ==
  ASSUME NEW e, e.at \in Int, NEW out \in ScanResults(e) PROVE AllTell(out, "scanner")
<1>1. ASSUME NEW e2, e2.at \in Int, NEW scanner, NEW status, NEW score, NEW confidence
      PROVE  AllTell(<< ScanResult(e2, scanner, status, score, confidence) >>, "scanner")
  <2>1. Tells1(ScanResult(e2, scanner, status, score, confidence), "scanner")
    BY <1>1 DEF Tells1, ScanResult
  <2> QED
    BY <2>1, OneTells
<1>2. AllTell(<<>>, "scanner")
  BY NoneTell
<1>3. AllTell(ScanSignal(e), "scanner")
  BY <1>1, <1>2, Zenon DEF ScanSignal
<1>4. AllTell(ScanDecision(e), "scanner")
  BY <1>1, <1>2, Zenon DEF ScanDecision
<1>5. ASSUME NEW o \in ScanRanking(e) PROVE AllTell(o, "scanner")
  <2>1. PICK k : o = IF k[1] # e.symbol THEN <<>>
                     ELSE << ScanResult([symbol |-> k[1], timeframe |-> k[2], at |-> e.at],
                                        "ranking", "MATCH", PerfScore(PerfAfter(e)[k]),
                                        PerfAfter(e)[k].win) >>
    BY Zenon DEF ScanRanking
  <2>2. [symbol |-> k[1], timeframe |-> k[2], at |-> e.at].at = e.at
    OBVIOUS
  <2> QED
    BY <1>1, <1>2, <2>1, <2>2
<1> QED
  BY <1>2, <1>3, <1>4, <1>5, Zenon DEF ScanResults

(* The opportunities published tell the time of the scanner's report.      *)
LEMMA OpportunitiesTell ==
  ASSUME IsFiniteSet(DOMAIN oppSymbols), NEW e, e.at \in Int, NEW out \in Opportunities(e)
  PROVE  AllTell(out, "opportunity")
<1>1. CASE e.type # "scanner"
  BY <1>1, NoneTell DEF Opportunities
<1>2. CASE e.type = "scanner"
  <2> DEFINE states == SymbolsAfter(e)
             conf == [k \in DOMAIN states |-> Confidence(states[k], oppPlatform)]
             Shape(top) ==
               [n \in DOMAIN top |->
                 [type |-> "opportunity", symbol |-> top[n][1], timeframe |-> top[n][2], rank |-> n,
                  confidence |-> conf[top[n]], optimization |-> states[top[n]].optimization,
                  walkforward |-> oppPlatform.walkforward, montecarlo |-> oppPlatform.montecarlo,
                  at |-> e.at]]
  <2>1. IsFiniteSet(DOMAIN conf)
    BY FS_AddElement DEF SymbolsAfter
  <2>2. PICK top \in {TopN(r) : r \in Rankings(conf)} : out = Shape(top)
    BY <1>2, Zenon DEF Opportunities
  <2>3. PICK r \in Rankings(conf) : top = TopN(r)
    BY <2>2
  <2>4. Cardinality(DOMAIN conf) \in Nat
    BY <2>1, FS_CardinalityType
  <2> HIDE DEF conf, states
  <2>5. IsSequence(r) /\ Len(r) \in Nat
    <3>1. r \in [1 .. Cardinality(DOMAIN conf) -> DOMAIN conf]
      BY <2>3 DEF Rankings
    <3>2. r \in Seq(DOMAIN conf)
      BY <2>4, <3>1, SeqDef
    <3> QED
      BY <3>2, RangeIsEnough, LenProperties
  <2>6. PICK k : k = IF Len(r) <= OppTopN THEN Len(r) ELSE OppTopN
    OBVIOUS
  <2>7. k \in 1 - 1 .. Len(r) /\ 1 \in 1 .. Len(r) + 1 /\ k \in Nat
    BY <2>5, <2>6, OpportunityConfig
  <2>8. DOMAIN top = 1 .. k - 1 + 1
    BY <2>3, <2>5, <2>6, <2>7, Cut DEF TopN
  <2>9. DOMAIN out = 1 .. k /\ \A n \in DOMAIN out : Tells1(out[n], "opportunity")
    <3>1. DOMAIN out = 1 .. k
      BY <2>2, <2>7, <2>8
    <3>2. ASSUME NEW n \in DOMAIN out PROVE Tells1(out[n], "opportunity")
      BY <2>2 DEF Tells1
    <3> QED
      BY <3>1, <3>2
  <2>10. IsSequence(out)
    <3>1. out = [n \in 1 .. k |-> out[n]]
      BY <2>2, <2>9
    <3> QED
      BY <2>7, <2>9, <3>1, SeqDef DEF IsSequence
  <2> QED
    BY <2>9, <2>10 DEF AllTell
<1> QED
  BY <1>1, <1>2

(* What the ranking has scores of are finitely many series.                *)
LEMMA SymbolsFinite ==
  ASSUME IsFiniteSet(DOMAIN oppSymbols), [FlowNext]_flowVars PROVE IsFiniteSet(DOMAIN oppSymbols')
<1>1. CASE oppSymbols' = oppSymbols
  BY <1>1
<1>2. CASE OpportunityHandles
  <2>1. oppSymbols' = SymbolsAfter(Next1("opportunity"))
    BY <1>2 DEF OpportunityHandles, HandleOpportunity
  <2>2. \A e : IsFiniteSet(DOMAIN SymbolsAfter(e))
    BY FS_AddElement DEF SymbolsAfter
  <2> QED
    BY <2>1, <2>2
<1>3. CASE UNCHANGED flowVars
  BY <1>1, <1>3 DEF flowVars, upVars, opportunityVars
<1>4. CASE Validate \/ Observe \/ PortfolioTrades \/ CandleCloses \/ TimePasses
  BY <1>1, <1>4 DEF Validate, Observe, PortfolioTrades, CandleCloses, TimePasses, upVars,
                    opportunityVars
<1>5. CASE \/ PerformanceHandles \/ OptimizationHandles \/ ScannerHandles
           \/ RecommendationHandles \/ ValidationHandles
  BY <1>1, <1>5 DEF PerformanceHandles, OptimizationHandles, ScannerHandles,
                    RecommendationHandles, ValidationHandles, opportunityVars
<1>6. CASE \/ StateHandles \/ AlertsHandle \/ IntelligenceHandles \/ QualityHandles
           \/ FeedbackHandles \/ DeliveryHandles
  BY <1>1, <1>6 DEF StateHandles, AlertsHandle, IntelligenceHandles, QualityHandles,
                    FeedbackHandles, DeliveryHandles, upVars, opportunityVars
<1> QED
  BY <1>2, <1>3, <1>4, <1>5, <1>6 DEF FlowNext, EngineHandles

(* So it is with all that comes from upstream but verdicts and candles.    *)
LEMMA UpstreamIsElsewhere ==
  ASSUME BoxesTyped, IsFiniteSet(DOMAIN oppSymbols),
         \/ PerformanceHandles \/ OptimizationHandles \/ ScannerHandles
         \/ OpportunityHandles \/ RecommendationHandles \/ Observe \/ PortfolioTrades
  PROVE  Elsewhere
<1>1. /\ \A from \in Upstream \union {""} : from \notin Downstream
      /\ "" \notin Engines /\ Upstream \subseteq Engines /\ now \in Int
  BY DEF Upstream, Downstream, Engines, BoxesTyped
<1>2. ASSUME NEW d \in Upstream, Waiting(d), d # "validation"
      PROVE  d \notin Downstream /\ inbox[d] # <<>>
             /\ (d # "recommendation" => Next1(d).at \in Int)
  <2>1. Next1(d).type \in Wants[d] /\ Timed(Next1(d)) /\ inbox[d] # <<>>
    BY <1>1, <1>2, TakenBy
  <2>2. Next1(d).type \notin {"state", "recommendation"}
    BY <1>2, <2>1 DEF Upstream, Wants
  <2> QED
    BY <1>1, <2>1, <2>2 DEF Timed
<1>3. CASE PerformanceHandles
  <2>1. Waiting("performance") /\ "performance" \in Upstream
    BY <1>3 DEF PerformanceHandles, Upstream
  <2>2. Next1("performance").at \in Int
    BY <1>2, <2>1
  <2>3. AllTell(PerformanceUpdates(Next1("performance")), "performance")
    BY <2>2, OneTells DEF PerformanceUpdates, Tells1
  <2> QED
    BY <1>2, <1>3, <2>1, <2>3 DEF PerformanceHandles, worldVars, Elsewhere, UpTypes, TradesMove, OffTrades
<1>4. CASE OptimizationHandles
  <2>1. Waiting("optimization") /\ "optimization" \in Upstream
    BY <1>4 DEF OptimizationHandles, Upstream
  <2>2. Next1("optimization").at \in Int
    BY <1>2, <2>1
  <2>3. AllTell(OptimizationUpdates(Next1("optimization")), "optimization")
    BY <2>2, OneTells DEF OptimizationUpdates, Tells1
  <2> QED
    BY <1>2, <1>4, <2>1, <2>3 DEF OptimizationHandles, worldVars, Elsewhere, UpTypes, TradesMove, OffTrades
<1>5. CASE ScannerHandles
  <2>1. PICK out \in ScanResults(Next1("scanner")) : Publish(out, "scanner")
    BY <1>5 DEF ScannerHandles
  <2>2. Waiting("scanner") /\ "scanner" \in Upstream
    BY <1>5 DEF ScannerHandles, Upstream
  <2>3. AllTell(out, "scanner")
    BY <1>2, <2>2, ScansTell
  <2> QED
    BY <1>2, <1>5, <2>1, <2>2, <2>3 DEF ScannerHandles, worldVars, Elsewhere, UpTypes, TradesMove, OffTrades
<1>6. CASE OpportunityHandles
  <2>1. PICK out \in Opportunities(Next1("opportunity")) : Publish(out, "opportunity")
    BY <1>6 DEF OpportunityHandles
  <2>2. Waiting("opportunity") /\ "opportunity" \in Upstream
    BY <1>6 DEF OpportunityHandles, Upstream
  <2>3. AllTell(out, "opportunity")
    BY <1>2, <2>2, OpportunitiesTell
  <2> QED
    BY <1>2, <1>6, <2>1, <2>2, <2>3 DEF OpportunityHandles, worldVars, Elsewhere, UpTypes, TradesMove, OffTrades
<1>7. CASE RecommendationHandles
  <2>1. Waiting("recommendation") /\ "recommendation" \in Upstream
    BY <1>7 DEF RecommendationHandles, Upstream
  <2>2. Next1("recommendation").at \in Int
    BY <1>1, <2>1, TakenBy DEF Wants, Timed
  <2>3. AllTell(RecommendationUpdates(Next1("recommendation")), "recommendation")
    BY <2>2, OneTells DEF RecommendationUpdates, Built, Tells1
  <2> QED
    BY <1>2, <1>7, <2>1, <2>3 DEF RecommendationHandles, worldVars, Elsewhere, UpTypes, TradesMove, OffTrades
<1>8. CASE Observe
  <2>1. PICK o \in Observations : Publish(<< With(o, "at", now) >>, "")
    BY <1>8 DEF Observe
  <2> DEFINE v == With(o, "at", now)
  <2>2. {"type", "at"} \subseteq DOMAIN v /\ v.type = o.type /\ v.at = now
    BY ObservationTypes DEF With
  <2> HIDE DEF v
  <2>3. AllTell(<<v>>, o.type) /\ o.type \in UpTypes
    BY <1>1, <2>2, OneTells, ObservationTypes DEF Tells1, UpTypes
  <2>4. Publish(<<v>>, "") /\ now' = now /\ UNCHANGED downVars
    BY <1>8, <2>1 DEF Observe, v
  <2>5. OffTrades("", o.type)
    BY ObservationTypes DEF OffTrades
  <2> QED
    BY <1>1, <2>3, <2>4, <2>5 DEF Elsewhere
<1>9. CASE PortfolioTrades
  <2>0. now \in Int
    BY DEF BoxesTyped
  <2>1. PICK symbol, open, realized :
          Publish(<< [type |-> "portfolio", symbol |-> symbol, open |-> open,
                      realized |-> realized, unrealized |-> 0, at |-> now] >>, "")
    BY <1>9 DEF PortfolioTrades
  <2>2. AllTell(<< [type |-> "portfolio", symbol |-> symbol, open |-> open,
                    realized |-> realized, unrealized |-> 0, at |-> now] >>, "portfolio")
    BY <2>0, OneTells DEF Tells1
  <2> QED
    BY <1>1, <1>9, <2>1, <2>2 DEF PortfolioTrades, Elsewhere, UpTypes, TradesMove, OffTrades
<1> QED
  BY <1>3, <1>4, <1>5, <1>6, <1>7, <1>8, <1>9

(* Validated recommendations and candles come from upstream, too.          *)
Comes(v) ==
  /\ DOMAIN v # {} /\ {"type", "at"} \subseteq DOMAIN v
  /\ v.type \in {"validated", "candle"}
  /\ v.at \in Int /\ (ReplayMode \/ v.at = now)
FromUpstream ==
  /\ now' = now /\ UNCHANGED downVars
  /\ \E v, from : /\ from \notin Downstream /\ (from \in Engines => inbox[from] # <<>>)
                  /\ Publish(<<v>>, from) /\ Comes(v) /\ OffTrades(from, v.type)

(* Verdicts and candles come one at a time, with the time that it is, or,  *)
(* in replay, was when the recommendation was made.                        *)
LEMMA VerdictsComeFromUpstream ==
  ASSUME BoxesTyped, Validate \/ CandleCloses \/ ValidationHandles
  PROVE  Elsewhere \/ FromUpstream
<1>1. /\ "" \notin Downstream /\ "validation" \notin Downstream /\ "" \notin Engines
      /\ "validation" \in Engines /\ now \in Int
  BY DEF Downstream, Upstream, Engines, BoxesTyped
<1>2. CASE Validate
  <2>1. PICK k, level, confidence, status :
          Publish(<< [type |-> "validated", key |-> k, level |-> level,
                      confidence |-> confidence, status |-> status, at |-> now] >>, "")
    BY <1>2 DEF Validate
  <2> DEFINE v == [type |-> "validated", key |-> k, level |-> level,
                   confidence |-> confidence, status |-> status, at |-> now]
  <2>2. Comes(v) /\ OffTrades("", v.type)
    BY <1>1 DEF Comes, OffTrades
  <2> QED
    BY <1>1, <1>2, <2>1, <2>2 DEF Validate, FromUpstream
<1>3. CASE CandleCloses
  <2>1. PICK symbol, timeframe, p :
          Publish(<< [type |-> "candle", symbol |-> symbol, timeframe |-> timeframe,
                      price |-> p, at |-> now] >>, "")
    BY <1>3 DEF CandleCloses
  <2> DEFINE v == [type |-> "candle", symbol |-> symbol, timeframe |-> timeframe,
                   price |-> p, at |-> now]
  <2>2. Comes(v) /\ OffTrades("", v.type)
    BY <1>1 DEF Comes, OffTrades
  <2> QED
    BY <1>1, <1>3, <2>1, <2>2 DEF CandleCloses, FromUpstream
<1>4. CASE ValidationHandles
  <2> DEFINE e == Next1("validation")
  <2>1. /\ now' = now /\ UNCHANGED downVars /\ Publish(Verdicts(e, now), "validation")
        /\ Waiting("validation")
    BY <1>4 DEF ValidationHandles, worldVars
  <2>2. e.generatedAt \in Int /\ inbox["validation"] # <<>>
    BY <1>1, <2>1, TakenBy DEF Wants, Timed
  <2> HIDE DEF e
  <2>3. CASE Verdicts(e, now) = <<>>
    <3>1. AllTell(<<>>, "recommendation") /\ "recommendation" \in UpTypes
            /\ OffTrades("validation", "recommendation")
      BY NoneTell DEF UpTypes, OffTrades
    <3> QED
      BY <1>1, <2>1, <2>2, <2>3, <3>1 DEF Elsewhere
  <2>4. CASE Verdicts(e, now) = << Verdict(e, now) >>
    <3>1. Comes(Verdict(e, now)) /\ OffTrades("validation", Verdict(e, now).type)
      BY <1>1, <2>2 DEF Comes, Verdict, JudgedAt, OffTrades
    <3> QED
      BY <1>1, <2>1, <2>2, <2>4, <3>1 DEF FromUpstream
  <2> QED
    BY <2>3, <2>4 DEF Verdicts
<1> QED
  BY <1>2, <1>3, <1>4

(* A step of the flow, as the engines downstream see it.                   *)
LEMMA FlowSteps ==
  ASSUME BoxesTyped, IsFiniteSet(DOMAIN oppSymbols), [FlowNext]_flowVars
  PROVE  \/ UNCHANGED <<downVars, inbox, lost, enabled>> /\ (now' = now \/ now' = now + 1)
         \/ Elsewhere \/ FromUpstream
         \/ StateHandles \/ AlertsHandle \/ IntelligenceHandles \/ QualityHandles
         \/ FeedbackHandles \/ DeliveryHandles
<1>1. CASE UNCHANGED flowVars
  BY <1>1 DEF flowVars, busVars, worldVars
<1>2. CASE TimePasses
  BY <1>2 DEF TimePasses, busVars
<1>3. CASE Validate \/ CandleCloses \/ ValidationHandles
  BY <1>3, VerdictsComeFromUpstream
<1>4. CASE \/ PerformanceHandles \/ OptimizationHandles \/ ScannerHandles
           \/ OpportunityHandles \/ RecommendationHandles \/ Observe \/ PortfolioTrades
  BY <1>4, UpstreamIsElsewhere
<1> QED
  BY <1>1, <1>2, <1>3, <1>4 DEF FlowNext, EngineHandles
-----------------------------------------------------------------------------
(* What an update adds to a timeline: entries of its time, whose reason    *)
(* goes by the event and by what it starts from.                           *)
ReasonFor(event, prev) ==
  CASE event = "Recommendation Created" -> "validated"
    [] event = "Status Changed" /\ prev = Word("CREATED") -> "initial"
    [] event \in {"Confidence Increased", "Confidence Decreased"} -> "confidence"
    [] event = "Closed" -> "rejected"
    [] OTHER -> "status"
Fits(e) == e = Entry(e.event, ReasonFor(e.event, e.prev), e.prev, e.next, e.at)

Extends(t, u, at) ==
  /\ IsSequence(u) /\ Len(t) \in Nat /\ Len(u) \in Nat
  /\ DOMAIN t = 1 .. Len(t) /\ DOMAIN u = 1 .. Len(u)
  /\ Len(t) <= Len(u)
  /\ \A n \in 1 .. Len(t) : u[n] = t[n]
  /\ \A n \in Len(t) + 1 .. Len(u) : u[n].at = at /\ Fits(u[n])

(* An entry that the state engine makes fits.                              *)
LEMMA EntryFits ==
  ASSUME NEW event, NEW prev, NEW next, NEW at, NEW reason, reason = ReasonFor(event, prev)
  PROVE  Fits(Entry(event, reason, prev, next, at)) /\ Entry(event, reason, prev, next, at).at = at
BY DEF Fits, Entry

(* A timeline extends itself.                                              *)
LEMMA ExtendsItself == ASSUME NEW t, IsSequence(t), NEW at PROVE Extends(t, t, at)
<1>1. Len(t) \in Nat /\ DOMAIN t = 1 .. Len(t)
  BY Appended
<1> QED
  BY <1>1 DEF Extends

(* A timeline that extends another may be extended by an entry.            *)
LEMMA ExtendsOn ==
  ASSUME NEW t, NEW u, NEW at, Extends(t, u, at), NEW e, e.at = at, Fits(e)
  PROVE  Extends(t, Append(u, e), at)
<1>1. IsSequence(u) /\ Len(t) \in Nat /\ Len(u) \in Nat /\ Len(t) <= Len(u)
  BY DEF Extends
<1>2. /\ IsSequence(Append(u, e)) /\ Len(Append(u, e)) = Len(u) + 1
      /\ DOMAIN Append(u, e) = 1 .. Len(u) + 1
      /\ \A n \in 1 .. Len(u) : Append(u, e)[n] = u[n]
      /\ Append(u, e)[Len(u) + 1] = e
  BY <1>1, Appended
<1> DEFINE v == Append(u, e)
<1> HIDE DEF v
<1>3. \A n \in 1 .. Len(t) : v[n] = t[n]
  BY <1>1, <1>2 DEF Extends, v
<1>4. ASSUME NEW n \in Len(t) + 1 .. Len(v) PROVE v[n].at = at /\ Fits(v[n])
  <2>1. CASE n = Len(u) + 1
    BY <1>2, <2>1 DEF v
  <2>2. CASE n # Len(u) + 1
    <3>1. n \in Len(t) + 1 .. Len(u) /\ v[n] = u[n]
      BY <1>1, <1>2, <1>4, <2>2 DEF v
    <3> QED
      BY <3>1 DEF Extends
  <2> QED
    BY <2>1, <2>2
<1> QED
  BY <1>1, <1>2, <1>3, <1>4 DEF Extends, v

(* A new recommendation starts its timeline with entries that fit.         *)
LEMMA NewExtends ==
  ASSUME NEW input
  PROVE  Extends(<<>>, NewRec(input).timeline, input.at) /\ NewRec(input).status # "CREATED"
<1> DEFINE s == StatusFor(input.level)
           creation == "Recommendation Created"
           change == "Status Changed"
           nothing == Word("")
           before == Word("CREATED")
           created == Entry(creation, "validated", nothing, Word(s), input.at)
           opened == Entry(change, "initial", before, Word(s), input.at)
<1>1. NewRec(input).timeline = <<created, opened>> /\ NewRec(input).status = s
  BY DEF NewRec
<1>2. "validated" = ReasonFor(creation, nothing) /\ "initial" = ReasonFor(change, before)
  BY DEF ReasonFor
<1> HIDE DEF creation, change, nothing, before
<1>3. Fits(created) /\ created.at = input.at /\ Fits(opened) /\ opened.at = input.at
  BY <1>2, EntryFits
<1>4. s # "CREATED"
  BY StatusNeverClosed
<1> HIDE DEF created, opened, s
<1> DEFINE t == <<created, opened>>
<1>5. DOMAIN t = 1 .. 2 /\ Len(t) = 2 /\ t[1] = created /\ t[2] = opened
  OBVIOUS
<1>6. t \in Seq({t[n] : n \in DOMAIN t})
  BY <1>5
<1>7. Len(<<>>) = 0 /\ DOMAIN <<>> = 1 .. 0
  OBVIOUS
<1> HIDE DEF t
<1>8. \A n \in 1 .. 2 : t[n].at = input.at /\ Fits(t[n])
  BY <1>3, <1>5
<1>9. Extends(<<>>, t, input.at)
  BY <1>5, <1>6, <1>7, <1>8 DEF Extends, IsSequence
<1> QED
  BY <1>1, <1>4, <1>9 DEF t

(* A rejection extends the timeline, if by anything, by its entry.         *)
LEMMA RejectionExtends ==
  ASSUME NEW rec, SoundRec(rec), rec.status # "CREATED", NEW input
  PROVE  /\ Extends(rec.timeline, Rejection(rec, input).timeline, input.at)
         /\ Rejection(rec, input).status # "CREATED"
<1> DEFINE e == Entry("Closed", "rejected", Word(rec.status), Word("CLOSED"), input.at)
<1>1. Extends(rec.timeline, rec.timeline, input.at)
  BY ExtendsItself DEF SoundRec
<1>2. CASE rec.status = "CLOSED"
  BY <1>1, <1>2 DEF Rejection
<1>3. CASE rec.status # "CLOSED"
  <2>1. Rejection(rec, input).timeline = Append(rec.timeline, e)
          /\ Rejection(rec, input).status = "CLOSED"
    BY <1>3 DEF Rejection, SoundRec, RecFields
  <2>2. "rejected" = ReasonFor("Closed", Word(rec.status))
    BY DEF ReasonFor
  <2>3. Fits(e) /\ e.at = input.at
    BY <2>2, EntryFits
  <2> HIDE DEF e
  <2> QED
    BY <1>1, <2>1, <2>3, ExtendsOn
<1> QED
  BY <1>2, <1>3

(* A valid update extends the timeline by entries of its time.             *)
LEMMA ValidExtends ==
  ASSUME NEW rec, SoundRec(rec), rec.status # "CREATED", NEW input
  PROVE  /\ Extends(rec.timeline, ValidUpdate(rec, input).timeline, input.at)
         /\ ValidUpdate(rec, input).status # "CREATED"
<1> DEFINE target == StatusFor(input.level)
           how == IF input.confidence > rec.confidence
                    THEN "Confidence Increased" ELSE "Confidence Decreased"
           change == Entry(how, "confidence", Number(rec.confidence), Number(input.confidence),
                           input.at)
           moved == IF input.confidence = rec.confidence THEN <<>> ELSE <<change>>
           turns == rec.status \notin {target, "CLOSED"}
           turned1 == IF target = "EXIT_RECOMMENDED" THEN "Exit Recommended" ELSE "Status Changed"
           turn == Entry(turned1, "status", Word(rec.status), Word(target), input.at)
           turned == IF ~turns THEN <<>> ELSE <<turn>>
           told == rec.timeline \o moved
<1>1. ValidUpdate(rec, input).timeline = told \o turned
        /\ ValidUpdate(rec, input).status = IF turns THEN target ELSE rec.status
  BY DEF ValidUpdate, SoundRec, RecFields
<1>2. "confidence" = ReasonFor(how, Number(rec.confidence))
  BY DEF ReasonFor
<1>4. "status" = ReasonFor(turned1, Word(rec.status))
  BY DEF ReasonFor, Word
<1> HIDE DEF how, turned1
<1>3. Fits(change) /\ change.at = input.at
  BY <1>2, EntryFits
<1>5. Fits(turn) /\ turn.at = input.at
  BY <1>4, EntryFits
<1>6. target # "CREATED"
  BY StatusNeverClosed
<1> HIDE DEF change, turn, target
<1>7. Extends(rec.timeline, told, input.at)
  <2>1. IsSequence(rec.timeline)
    BY DEF SoundRec
  <2>2. rec.timeline \o <<change>> = Append(rec.timeline, change)
          /\ rec.timeline \o <<>> = rec.timeline
    BY <2>1, Appended
  <2>3. Extends(rec.timeline, rec.timeline, input.at)
    BY <2>1, ExtendsItself
  <2>4. Extends(rec.timeline, Append(rec.timeline, change), input.at)
    BY <1>3, <2>3, ExtendsOn
  <2> QED
    BY <2>2, <2>3, <2>4
<1> HIDE DEF told
<1>8. Extends(rec.timeline, told \o turned, input.at)
  <2>1. told \o <<turn>> = Append(told, turn) /\ told \o <<>> = told
    BY <1>7, Appended DEF Extends
  <2>2. Extends(rec.timeline, Append(told, turn), input.at)
    BY <1>5, <1>7, ExtendsOn
  <2> QED
    BY <1>7, <2>1, <2>2
<1> QED
  BY <1>1, <1>6, <1>8

(* The timeline of a recommendation, empty before there is one.            *)
Timeline(i) == IF i \in DOMAIN recs THEN recs[i].timeline ELSE <<>>

StateUpdate(id, rec) ==
  [type |-> "state", id |-> id, key |-> rec.key, status |-> rec.status,
   confidence |-> rec.confidence, entry |-> rec.timeline[Len(rec.timeline)]]

(* What the engine does with an input, and tells of it.                    *)
Applies(input, id, rec) ==
  /\ recs' = With(recs, id, rec) /\ StateUpdates(input) = << StateUpdate(id, rec) >>
  /\ SoundRec(rec) /\ rec.status # "CREATED"
  /\ Extends(Timeline(id), rec.timeline, input.at)
  /\ Len(rec.timeline) \in Nat \ {0}

(* What the state engine does: nothing, or one update of one               *)
(* recommendation, which it publishes.                                     *)
LEMMA StateDoes ==
  ASSUME StateInv, \A i \in DOMAIN recs : recs[i].status # "CREATED",
         NEW input, ApplyValidated(input)
  PROVE  \/ recs' = recs /\ StateUpdates(input) = <<>>
         \/ \E id, rec : Applies(input, id, rec)
<1>1. CASE ~Changes(input)
  BY <1>1 DEF ApplyValidated, recVars, StateUpdates
<1>2. CASE Changes(input)
  <2> DEFINE id == ResultId(input)
             rec == Result(input)
  <2>1. recs' = With(recs, id, rec) /\ StateUpdates(input) = << StateUpdate(id, rec) >>
    BY <1>2 DEF ApplyValidated, StateUpdates, StateUpdate
  <2>2. /\ SoundRec(rec) /\ rec.status # "CREATED"
        /\ Extends(Timeline(id), rec.timeline, input.at)
    <3>1. CASE Known(input.key)
      <4>1. id = IdOf(input.key) /\ rec = ApplyUpdate(recs[id], input)
        BY <3>1 DEF ResultId, Result
      <4>2. id \in DOMAIN recs
        BY <3>1, <4>1 DEF StateInv, NamesItsKey, Known, IdOf
      <4>3. SoundRec(recs[id]) /\ recs[id].status # "CREATED" /\ Timeline(id) = recs[id].timeline
        BY <4>2 DEF StateInv, Timeline
      <4>4. Extends(recs[id].timeline, rec.timeline, input.at) /\ rec.status # "CREATED"
        <5>1. rec \in {Rejection(recs[id], input), ValidUpdate(recs[id], input)}
          BY <4>1 DEF ApplyUpdate
        <5> QED
          BY <4>3, <5>1, ValidExtends, RejectionExtends
      <4>5. SoundRec(rec)
        BY <4>1, <4>3, UpdateKeeps
      <4> QED
        BY <4>3, <4>4, <4>5
    <3>2. CASE ~Known(input.key)
      <4>1. id = NextId(input) /\ rec = NewRec(input)
        BY <3>2 DEF ResultId, Result
      <4>2. id \notin DOMAIN recs
        BY <4>1, IdIsFresh DEF StateInv
      <4> QED
        BY <4>1, <4>2, NewIsSound, NewExtends DEF Timeline
    <3> QED
      BY <3>1, <3>2
  <2>3. Len(rec.timeline) \in Nat \ {0}
    <3>1. Len(rec.timeline) \in Nat /\ DOMAIN rec.timeline = 1 .. Len(rec.timeline)
      BY <2>2 DEF Extends
    <3>2. DOMAIN rec.timeline # {}
      BY <2>2 DEF SoundRec, Tells
    <3> QED
      BY <3>1, <3>2
  <2> QED
    BY <2>1, <2>2, <2>3 DEF Applies
<1> QED
  BY <1>1, <1>2

-----------------------------------------------------------------------------
(* What the engines downstream publish, as it tells its time.              *)

(* Alerts tell the time of the update they are about.                      *)
LEMMA AlertsTell ==
  ASSUME NEW update, update.entry.at \in Int PROVE AllTell(AlertsFor(update), "alert")
<1> DEFINE Emitted(types) == IF types # <<>> /\ ShouldEmit(update, types[1]) THEN types ELSE <<>>
           created == Emitted(CreationAlert(update))
           changed == Emitted(EntryAlert(update.entry))
           emitted == created \o changed
<1>1. \A a : IsSequence(<<a>>)
  <2>1. ASSUME NEW a PROVE <<a>> \in Seq({<<a>>[n] : n \in DOMAIN <<a>>})
    OBVIOUS
  <2> QED
    BY <2>1 DEF IsSequence
<1>2. IsSequence(<<>>)
  BY DEF IsSequence
<1>3. IsSequence(created)
  BY <1>1, <1>2, Zenon DEF CreationAlert
<1>4. IsSequence(changed)
  BY <1>1, <1>2, Zenon DEF EntryAlert
<1>5. AlertsFor(update) = [n \in DOMAIN emitted |->
        [type |-> "alert", id |-> update.id, alert |-> emitted[n],
         status |-> update.status, reason |-> update.entry.reason, at |-> update.entry.at]]
  BY DEF AlertsFor
<1> HIDE DEF created, changed
<1>6. DOMAIN emitted = 1 .. Len(created) + Len(changed)
        /\ Len(created) \in Nat /\ Len(changed) \in Nat
  BY <1>3, <1>4, Joined
<1> HIDE DEF emitted
<1>7. IsSequence(AlertsFor(update))
  BY <1>5, <1>6, SeqDef DEF IsSequence
<1>8. \A n \in DOMAIN AlertsFor(update) : Tells1(AlertsFor(update)[n], "alert")
  BY <1>5 DEF Tells1
<1> QED
  BY <1>7, <1>8 DEF AllTell

(* So do explanations.                                                     *)
LEMMA DocumentTells ==
  ASSUME NEW update, update.entry.at \in Int
  PROVE  /\ AllTell(DocumentUpdates(update), "intelligence")
         /\ \E v : DocumentUpdates(update) = <<v>>
<1> DEFINE d == Document(update)
           v == [type |-> "intelligence", id |-> update.id, key |-> d.key, status |-> d.status,
                 confidence |-> d.confidence, level |-> d.level, at |-> update.entry.at]
<1>1. DocumentUpdates(update) = <<v>>
  BY DEF DocumentUpdates
<1> HIDE DEF d
<1>2. Tells1(v, "intelligence")
  BY DEF Tells1
<1> QED
  BY <1>1, <1>2, OneTells

(* Feedback tells the time of the report it learned from.                  *)
LEMMA SnapshotTells == ASSUME NEW r, r.at \in Int PROVE AllTell(Snapshots(r), "feedback")
<1> DEFINE v == [type |-> "feedback", version |-> Cardinality(learnedIds) + 1, at |-> r.at]
<1>1. Tells1(v, "feedback")
  BY DEF Tells1
<1>2. Snapshots(r) = <<v>> \/ Snapshots(r) = <<>>
  BY DEF Snapshots
<1> HIDE DEF v
<1> QED
  BY <1>1, <1>2, OneTells, NoneTell

(* A finite set in some order.                                             *)
LEMMA SetInOrder ==
  ASSUME NEW S, IsFiniteSet(S)
  PROVE  DOMAIN SetToSeq(S) = 1 .. Cardinality(S) /\ Cardinality(S) \in Nat
<1>1. Cardinality(S) \in Nat
  BY FS_CardinalityType
<1>2. \E f \in [1 .. Cardinality(S) -> S] : IsInjective(f)
  BY FS_CardinalityType DEF ExistsBijection, Bijection, Injection, IsInjective
<1>3. SetToSeq(S) \in [1 .. Cardinality(S) -> S]
  BY <1>2 DEF SetToSeq
<1> QED
  BY <1>1, <1>3

(* A report tells the time it is made at.                                  *)
LEMMA ReportTells ==
  ASSUME NEW id, NEW t, NEW at \in Int, NEW final, NEW expired
  PROVE  Tells1(Report(id, t, at, final, expired), "quality")
BY DEF Report, Tells1

(* So do the reports on several trackers.                                  *)
LEMMA InOrderTell ==
  ASSUME NEW order, NEW k \in Nat, DOMAIN order = 1 .. k, NEW trk, NEW at \in Int,
         NEW final, NEW expired
  PROVE  AllTell([n \in DOMAIN order |-> Report(order[n], trk[order[n]], at, final, expired)],
                 "quality")
<1> DEFINE out == [n \in DOMAIN order |-> Report(order[n], trk[order[n]], at, final, expired)]
<1>1. \A n \in DOMAIN order : Tells1(out[n], "quality")
  BY ReportTells
<1>2. DOMAIN out = 1 .. k /\ out \in [1 .. k -> {out[n] : n \in DOMAIN out}]
  OBVIOUS
<1>3. IsSequence(out)
  BY <1>2, SeqDef DEF IsSequence
<1> HIDE DEF out
<1> QED
  BY <1>1, <1>2, <1>3 DEF AllTell, out

(* Two publications that tell their times tell them as one.                *)
LEMMA JoinedTell ==
  ASSUME NEW type, NEW s, AllTell(s, type), NEW t, AllTell(t, type)
  PROVE  AllTell(s \o t, type)
<1>1. IsSequence(s) /\ IsSequence(t)
  BY DEF AllTell
<1>2. /\ IsSequence(s \o t)
      /\ Len(s) \in Nat /\ Len(t) \in Nat
      /\ DOMAIN s = 1 .. Len(s) /\ DOMAIN t = 1 .. Len(t)
      /\ DOMAIN (s \o t) = 1 .. Len(s) + Len(t)
      /\ \A n \in 1 .. Len(s) : (s \o t)[n] = s[n]
      /\ \A n \in 1 .. Len(t) : (s \o t)[Len(s) + n] = t[n]
  BY <1>1, Joined
<1>3. ASSUME NEW n \in DOMAIN (s \o t) PROVE Tells1((s \o t)[n], type)
  <2>1. CASE n <= Len(s)
    BY <1>2, <1>3, <2>1 DEF AllTell
  <2>2. CASE n > Len(s)
    <3>1. n - Len(s) \in 1 .. Len(t) /\ n = Len(s) + (n - Len(s))
      BY <1>2, <1>3, <2>2
    <3> QED
      BY <1>2, <3>1 DEF AllTell
  <2> QED
    BY <1>2, <1>3, <2>1, <2>2
<1> QED
  BY <1>2, <1>3 DEF AllTell

(* Timeouts add reports that tell the time, and leave finitely many        *)
(* trackers.                                                               *)
LEMMA Expiring ==
  ASSUME NEW o, IsFiniteSet(DOMAIN o.trackers), AllTell(o.out, "quality"), NEW at \in Int
  PROVE  /\ AllTell(Expire(o, at).out, "quality") /\ IsFiniteSet(DOMAIN Expire(o, at).trackers)
<1> DEFINE ids == {i \in DOMAIN o.trackers : TrackingTimeout > 0
                                             /\ at - o.trackers[i].entryTime >= TrackingTimeout}
           order == SetToSeq(ids)
           out == [n \in DOMAIN order |-> Report(order[n], o.trackers[order[n]], at, FALSE, TRUE)]
<1>1. Expire(o, at) = Outcome(Drop(o.trackers, ids), o.out \o out)
  BY DEF Expire
<1>2. IsFiniteSet(ids)
  BY FS_Subset
<1>3. DOMAIN order = 1 .. Cardinality(ids) /\ Cardinality(ids) \in Nat
  BY <1>2, SetInOrder
<1> HIDE DEF ids, order
<1>4. AllTell(out, "quality")
  BY <1>3, InOrderTell
<1> HIDE DEF out
<1>5. AllTell(o.out \o out, "quality")
  BY <1>4, JoinedTell
<1>6. IsFiniteSet(DOMAIN Drop(o.trackers, ids))
  BY FS_Subset DEF Drop
<1> QED
  BY <1>1, <1>5, <1>6 DEF Outcome

(* All that quality publishes tells its time, whatever it handles.         *)
LEMMA ReportsTell ==
  ASSUME IsFiniteSet(DOMAIN trackers), NEW e, Timed(e), NEW t \in Int,
         e.type \in Wants["quality"]
  PROVE  AllTell(QualityReports(e, t), "quality") /\ IsFiniteSet(DOMAIN Handled(e, t).trackers)
<1> DEFINE Sound(o) == IsFiniteSet(DOMAIN o.trackers) /\ AllTell(o.out, "quality")
<1>1. \A trk, out : Outcome(trk, out).trackers = trk /\ Outcome(trk, out).out = out
  BY DEF Outcome
<1>8. \A trk, out : IsFiniteSet(DOMAIN trk) /\ AllTell(out, "quality") => Sound(Outcome(trk, out))
  BY <1>1
<1>2. ASSUME NEW id, NEW tracker, NEW at \in Int, NEW final, NEW expired
      PROVE  AllTell(<< Report(id, tracker, at, final, expired) >>, "quality")
  BY ReportTells, OneTells
<1>3. \A id, tracker : IsFiniteSet(DOMAIN Put(trackers, id, tracker))
  <2>1. \A id : IsFiniteSet(DOMAIN trackers \union {id})
    BY FS_AddElement
  <2> QED
    BY <2>1 DEF Put
<1>4. \A f, ids : IsFiniteSet(DOMAIN f) => IsFiniteSet(DOMAIN Drop(f, ids))
  BY FS_Subset DEF Drop
<1>5. CASE e.type = "intelligence"
  <2>1. e.at \in Int
    BY <1>5 DEF Timed
  <2>2. Sound(OnDocument(e, t))
    <3>1. \/ OnDocument(e, t) = Outcome(trackers, <<>>)
          \/ OnDocument(e, t) = Outcome(Drop(trackers, {e.id}),
                                       << Report(e.id, trackers[e.id], t, TRUE, FALSE) >>)
          \/ OnDocument(e, t) = Outcome(Put(trackers, e.id, Started(e)),
                                       << Report(e.id, Started(e), e.at, FALSE, FALSE) >>)
      BY Zenon DEF OnDocument
    <3>2. Sound(Outcome(trackers, <<>>))
      BY <1>8, NoneTell
    <3>3. Sound(Outcome(Drop(trackers, {e.id}), << Report(e.id, trackers[e.id], t, TRUE, FALSE) >>))
      BY <1>2, <1>4, <1>8
    <3>4. Sound(Outcome(Put(trackers, e.id, Started(e)),
                        << Report(e.id, Started(e), e.at, FALSE, FALSE) >>))
      BY <1>2, <1>3, <1>8, <2>1
    <3> HIDE DEF Sound
    <3> QED
      BY <3>1, <3>2, <3>3, <3>4
  <2>3. Handled(e, t) = Expire(OnDocument(e, t), e.ts)
    BY <1>5 DEF Handled
  <2> QED
    BY <2>2, <2>3, Expiring DEF QualityReports, Timed
<1>6. CASE e.type = "state"
  <2>1. e.entry.at \in Int
    BY <1>6 DEF Timed
  <2>2. Sound(OnState(e))
    <3>1. \/ OnState(e) = Outcome(trackers, <<>>)
          \/ \E tracker :
               OnState(e) = Outcome(Put(trackers, e.id, tracker),
                   << Report(e.id, tracker, e.entry.at, e.status = "CLOSED", FALSE) >>)
      BY Zenon DEF OnState
    <3>2. Sound(Outcome(trackers, <<>>))
      BY <1>8, NoneTell
    <3>3. \A tracker : Sound(Outcome(Put(trackers, e.id, tracker),
                   << Report(e.id, tracker, e.entry.at, e.status = "CLOSED", FALSE) >>))
      BY <1>2, <1>3, <1>8, <2>1
    <3> HIDE DEF Sound
    <3> QED
      BY <3>1, <3>2, <3>3
  <2>3. Handled(e, t) = Expire(OnState(e), e.ts)
    BY <1>6 DEF Handled
  <2> QED
    BY <2>2, <2>3, Expiring DEF QualityReports, Timed
<1>7. CASE e.type = "candle"
  <2>1. e.at \in Int
    BY <1>7 DEF Timed
  <2>2. Sound(OnCandle(e))
    <3> DEFINE ids == {i \in DOMAIN trackers : Matches(trackers[i], e)}
               trk == [i \in DOMAIN trackers |->
                        IF i \in ids THEN Priced(trackers[i], e.price) ELSE trackers[i]]
               order == SetToSeq(ids)
               out == [n \in DOMAIN order |-> Report(order[n], trk[order[n]], e.at, FALSE, FALSE)]
    <3>1. OnCandle(e) = Outcome(trk, out)
      BY DEF OnCandle
    <3>2. IsFiniteSet(ids) /\ DOMAIN trk = DOMAIN trackers
      BY FS_Subset
    <3>3. DOMAIN order = 1 .. Cardinality(ids) /\ Cardinality(ids) \in Nat
      BY <3>2, SetInOrder
    <3> HIDE DEF ids, trk, order
    <3>4. AllTell(out, "quality")
      BY <2>1, <3>3, InOrderTell
    <3> QED
      BY <1>1, <3>1, <3>2, <3>4
  <2>3. Handled(e, t) = Expire(OnCandle(e), e.ts)
    BY <1>7 DEF Handled
  <2> QED
    BY <2>2, <2>3, Expiring DEF QualityReports, Timed
<1> QED
  BY <1>5, <1>6, <1>7 DEF Wants

-----------------------------------------------------------------------------
(* Types, of all that is under way downstream.                             *)
RecsFit ==
  \A i \in DOMAIN recs :
    /\ recs[i].status # "CREATED"
    /\ \A n \in DOMAIN recs[i].timeline :
         Fits(recs[i].timeline[n]) /\ recs[i].timeline[n].at \in Int

FlowTyped == /\ StateInv /\ RecsFit /\ BoxesTyped
             /\ IsFiniteSet(DOMAIN trackers) /\ IsFiniteSet(DOMAIN oppSymbols)

(* What is not heard downstream leaves the channels there alone.           *)
LEMMA ElsewhereTyped ==
  ASSUME BoxesTyped, Elsewhere
  PROVE  BoxesTyped' /\ (\A d \in Downstream : inbox'[d] = inbox[d]) /\ (lost => lost')
           /\ enabled' = enabled
<1>1. PICK events, from, type :
        /\ from \notin Downstream /\ (from \in Engines => inbox[from] # <<>>)
        /\ Publish(events, from) /\ AllTell(events, type) /\ type \in UpTypes
  BY DEF Elsewhere
<1>2. /\ inbox' = [e \in DOMAIN inbox |->
                    Offer(Queue(e, from), Wanted(Stamped(events), Listening[e]))]
      /\ enabled' = enabled /\ (lost => lost')
  BY <1>1, PublishDoes
<1>3. ASSUME NEW d \in Downstream PROVE inbox'[d] = inbox[d]
  <2>1. \A n \in DOMAIN events : "type" \in DOMAIN events[n] /\ events[n].type \notin Listening[d]
    BY <1>1, DownWants DEF AllTell, Tells1
  <2>2. inbox'[d] = Queue(d, from)
    BY <1>1, <2>1, Unheard
  <2> QED
    BY <1>1, <2>2 DEF Queue
<1>4. now' = now
  BY DEF Elsewhere
<1>5. BoxesTyped'
  BY <1>1, <1>4, Heard
<1> QED
  BY <1>2, <1>3, <1>5

(* A verdict or a candle tells its time.                                   *)
LEMMA ComesTells == ASSUME NEW v, Comes(v) PROVE Tells1(v, v.type)
BY DEF Comes, Tells1

(* An update the state engine publishes tells the time of its entry.       *)
LEMMA UpdateTells ==
  ASSUME RecsFit, NEW input, input.at \in Int, NEW id, NEW rec, Applies(input, id, rec)
  PROVE  /\ \A n \in DOMAIN rec.timeline : Fits(rec.timeline[n]) /\ rec.timeline[n].at \in Int
         /\ Tells1(StateUpdate(id, rec), "state")
         /\ AllTell(StateUpdates(input), "state")
<1>1. \A n \in 1 .. Len(Timeline(id)) : Fits(Timeline(id)[n]) /\ Timeline(id)[n].at \in Int
  <2>1. CASE id \in DOMAIN recs
    BY <2>1 DEF Timeline, RecsFit, Applies, Extends
  <2>2. CASE id \notin DOMAIN recs
    BY <2>2 DEF Timeline
  <2> QED
    BY <2>1, <2>2
<1>2. /\ Len(Timeline(id)) \in Nat /\ Len(rec.timeline) \in Nat \ {0}
      /\ DOMAIN rec.timeline = 1 .. Len(rec.timeline)
      /\ \A n \in 1 .. Len(Timeline(id)) : rec.timeline[n] = Timeline(id)[n]
      /\ \A n \in Len(Timeline(id)) + 1 .. Len(rec.timeline) :
           rec.timeline[n].at = input.at /\ Fits(rec.timeline[n])
  BY DEF Applies, Extends
<1>3. \A n \in DOMAIN rec.timeline : Fits(rec.timeline[n]) /\ rec.timeline[n].at \in Int
  BY <1>1, <1>2
<1>4. Tells1(StateUpdate(id, rec), "state")
  BY <1>2, <1>3 DEF Tells1, StateUpdate
<1> QED
  BY <1>3, <1>4, OneTells DEF Applies

(* The state engine keeps the types.                                       *)
LEMMA StateTyped ==
  ASSUME FlowTyped, StateHandles PROVE FlowTyped'
<1> DEFINE e == Next1("state")
<1>1. ApplyValidated(e) /\ Publish(StateUpdates(e), "state") /\ Waiting("state")
        /\ now' = now /\ trackers' = trackers /\ oppSymbols' = oppSymbols
  BY DEF StateHandles, worldVars, qualityVars, upVars, opportunityVars
<1>2. e.at \in Int /\ inbox["state"] # <<>>
  BY <1>1, Taken DEF FlowTyped, Downstream, Wants, Timed
<1>3. StateInv'
  BY <1>1, ApplyKeeps DEF FlowTyped
<1>4. \/ recs' = recs /\ StateUpdates(e) = <<>>
      \/ \E id, rec : Applies(e, id, rec)
  BY <1>1, StateDoes DEF FlowTyped, RecsFit
<1> HIDE DEF e
<1>5. RecsFit' /\ AllTell(StateUpdates(e), "state")
  <2>1. CASE recs' = recs /\ StateUpdates(e) = <<>>
    BY <2>1, NoneTell DEF FlowTyped, RecsFit
  <2>2. CASE \E id, rec : Applies(e, id, rec)
    <3>1. PICK id, rec : Applies(e, id, rec)
      BY <2>2
    <3>2. /\ \A n \in DOMAIN rec.timeline : Fits(rec.timeline[n]) /\ rec.timeline[n].at \in Int
          /\ AllTell(StateUpdates(e), "state")
      BY <1>2, <3>1, UpdateTells DEF FlowTyped
    <3>3. recs' = With(recs, id, rec) /\ rec.status # "CREATED"
      BY <3>1 DEF Applies
    <3> QED
      BY <3>2, <3>3 DEF With, FlowTyped, RecsFit
  <2> QED
    BY <1>4, <2>1, <2>2
<1>6. BoxesTyped'
  BY <1>1, <1>2, <1>5, Heard DEF FlowTyped
<1> QED
  BY <1>1, <1>3, <1>5, <1>6 DEF FlowTyped

(* So does every step.                                                     *)
LEMMA FlowTypes ==
  ASSUME FlowTyped, [FlowNext]_flowVars PROVE FlowTyped'
<1>0. {"state", "alerts", "intelligence", "quality", "feedback", "delivery"} = Downstream
  BY DEF Downstream
<1>11. IsFiniteSet(DOMAIN oppSymbols')
  BY SymbolsFinite DEF FlowTyped
<1>1. CASE UNCHANGED <<downVars, inbox, lost, enabled>> /\ (now' = now \/ now' = now + 1)
  <2>1. recVars' = recVars /\ trackers' = trackers /\ inbox' = inbox
    BY <1>1 DEF downVars, qualityVars
  <2>2. recs' = recs /\ StateInv'
    BY <2>1, UnchangedKeeps DEF FlowTyped, recVars
  <2>3. now' \in Int
    BY <1>1 DEF FlowTyped, BoxesTyped
  <2> QED
    BY <1>11, <2>1, <2>2, <2>3 DEF FlowTyped, BoxesTyped, RecsFit
<1>2. CASE Elsewhere
  <2>1. recVars' = recVars /\ trackers' = trackers /\ BoxesTyped'
    BY <1>2, ElsewhereTyped DEF FlowTyped, Elsewhere, downVars, qualityVars
  <2>2. recs' = recs /\ StateInv'
    BY <2>1, UnchangedKeeps DEF FlowTyped, recVars
  <2> QED
    BY <1>11, <2>1, <2>2 DEF FlowTyped, RecsFit
<1>3. CASE FromUpstream
  <2>1. PICK v, from : /\ from \notin Downstream /\ (from \in Engines => inbox[from] # <<>>)
                       /\ Publish(<<v>>, from) /\ Comes(v)
    BY <1>3 DEF FromUpstream
  <2>2. recVars' = recVars /\ trackers' = trackers /\ now' = now
    BY <1>3 DEF FromUpstream, downVars, qualityVars
  <2>3. AllTell(<<v>>, v.type)
    BY <2>1, ComesTells, OneTells
  <2>4. BoxesTyped'
    BY <2>1, <2>2, <2>3, Heard DEF FlowTyped
  <2>5. recs' = recs /\ StateInv'
    BY <2>2, UnchangedKeeps DEF FlowTyped, recVars
  <2> QED
    BY <1>11, <2>2, <2>4, <2>5 DEF FlowTyped, RecsFit
<1>4. CASE StateHandles
  BY <1>4, StateTyped
<1>5. ASSUME NEW d \in Downstream, Waiting(d), NEW events, NEW type, AllTell(events, type),
             Publish(events, d), now' = now, recVars' = recVars, IsFiniteSet(DOMAIN trackers')
      PROVE  FlowTyped'
  <2>1. inbox[d] # <<>>
    BY <1>5 DEF Waiting
  <2>2. BoxesTyped'
    BY <1>5, <2>1, Heard DEF FlowTyped
  <2>3. recs' = recs /\ StateInv'
    BY <1>5, UnchangedKeeps DEF FlowTyped, recVars
  <2> QED
    BY <1>5, <1>11, <2>2, <2>3 DEF FlowTyped, RecsFit
<1>6. CASE AlertsHandle
  <2>1. /\ Waiting("alerts") /\ Publish(AlertsFor(Next1("alerts")), "alerts") /\ now' = now
        /\ recVars' = recVars /\ trackers' = trackers
    BY <1>6 DEF AlertsHandle, worldVars, qualityVars
  <2>2. Next1("alerts").entry.at \in Int
    BY <1>0, <2>1, Taken DEF FlowTyped, Wants, Timed
  <2>3. AllTell(AlertsFor(Next1("alerts")), "alert")
    BY <2>2, AlertsTell
  <2> QED
    BY <1>0, <1>5, <2>1, <2>3 DEF FlowTyped
<1>7. CASE IntelligenceHandles
  <2>1. /\ Waiting("intelligence")
        /\ Publish(DocumentUpdates(Next1("intelligence")), "intelligence") /\ now' = now
        /\ recVars' = recVars /\ trackers' = trackers
    BY <1>7 DEF IntelligenceHandles, worldVars, qualityVars
  <2>2. Next1("intelligence").entry.at \in Int
    BY <1>0, <2>1, Taken DEF FlowTyped, Wants, Timed
  <2>3. AllTell(DocumentUpdates(Next1("intelligence")), "intelligence")
    BY <2>2, DocumentTells
  <2> QED
    BY <1>0, <1>5, <2>1, <2>3 DEF FlowTyped
<1>8. CASE QualityHandles
  <2>1. /\ Waiting("quality") /\ Publish(QualityReports(Next1("quality"), now), "quality")
        /\ now' = now /\ recVars' = recVars
        /\ trackers' = Handled(Next1("quality"), now).trackers
    BY <1>8 DEF QualityHandles, HandleQuality, worldVars
  <2>2. Next1("quality").type \in Wants["quality"] /\ Timed(Next1("quality")) /\ now \in Int
    BY <1>0, <2>1, Taken DEF FlowTyped, BoxesTyped
  <2>3. /\ AllTell(QualityReports(Next1("quality"), now), "quality")
        /\ IsFiniteSet(DOMAIN trackers')
    BY <2>1, <2>2, ReportsTell DEF FlowTyped
  <2> QED
    BY <1>0, <1>5, <2>1, <2>3
<1>9. CASE FeedbackHandles
  <2>1. /\ Waiting("feedback") /\ Publish(Snapshots(Next1("feedback")), "feedback")
        /\ now' = now /\ recVars' = recVars /\ trackers' = trackers
    BY <1>9 DEF FeedbackHandles, worldVars, qualityVars
  <2>2. Next1("feedback").at \in Int
    BY <1>0, <2>1, Taken DEF FlowTyped, Wants, Timed
  <2>3. AllTell(Snapshots(Next1("feedback")), "feedback")
    BY <2>2, SnapshotTells
  <2> QED
    BY <1>0, <1>5, <2>1, <2>3 DEF FlowTyped
<1>10. CASE DeliveryHandles
  <2>1. /\ Waiting("delivery") /\ Publish(<<>>, "delivery")
        /\ now' = now /\ recVars' = recVars /\ trackers' = trackers
    BY <1>10 DEF DeliveryHandles, worldVars, qualityVars
  <2> QED
    BY <1>0, <1>5, <2>1, NoneTell DEF FlowTyped
<1> QED
  BY <1>1, <1>2, <1>3, <1>4, <1>6, <1>7, <1>8, <1>9, <1>10, FlowSteps DEF FlowTyped

-----------------------------------------------------------------------------
(* The steps that concern the state engine and the explanations.           *)
Aside ==
  /\ recs' = recs /\ documents' = documents /\ enabled' = enabled /\ (lost => lost')
  /\ inbox'["intelligence"] = inbox["intelligence"]
Passes == Aside /\ inbox'["state"] = inbox["state"] /\ (now' = now \/ now' = now + 1)
Arrives ==
  Aside /\ now' = now /\ \E w : w.at = now /\ inbox'["state"] = Append(inbox["state"], w)

(* Verdicts are heard by the state engine, and its updates by the          *)
(* explanations.                                                           *)
LEMMA WantedHere ==
  /\ Listening["state"] \subseteq {"validated"} /\ Listening["intelligence"] \subseteq {"state"}
  /\ "intelligence" \in enabled => "state" \in Listening["intelligence"]
  /\ "state" \in Downstream /\ "intelligence" \in Downstream
BY DEF Listening, Engines, Downstream, Upstream, Wants

(* A step of the state engine takes a verdict, and where it changes a      *)
(* recommendation it tells the explanations.                               *)
LEMMA StateHandled ==
  ASSUME FlowTyped, StateHandles
  PROVE  /\ inbox'["state"] = Tail(inbox["state"]) /\ Waiting("state")
         /\ now' = now /\ documents' = documents /\ enabled' = enabled /\ (lost => lost')
         /\ \/ recs' = recs /\ inbox'["intelligence"] = inbox["intelligence"]
            \/ \E id, rec :
                 /\ Applies(Next1("state"), id, rec)
                 /\ \/ inbox'["intelligence"] =
                         Append(inbox["intelligence"], With(StateUpdate(id, rec), "ts", now))
                    \/ /\ inbox'["intelligence"] = inbox["intelligence"]
                       /\ "intelligence" \notin enabled \/ lost'
<1> DEFINE e == Next1("state")
<1>1. ApplyValidated(e) /\ Publish(StateUpdates(e), "state") /\ Waiting("state")
        /\ now' = now /\ documents' = documents
  BY DEF StateHandles, worldVars
<1>2. e.at \in Int /\ inbox["state"] # <<>>
  BY <1>1, Taken DEF FlowTyped, Downstream, Wants, Timed
<1>3. \/ recs' = recs /\ StateUpdates(e) = <<>>
      \/ \E id, rec : Applies(e, id, rec)
  BY <1>1, StateDoes DEF FlowTyped, RecsFit
<1> HIDE DEF e
<1>4. BoxesTyped /\ RecsFit
  BY DEF FlowTyped
<1>5. enabled' = enabled /\ (lost => lost')
  BY <1>1, PublishDoes
<1>6. Queue("state", "state") = Tail(inbox["state"])
        /\ Queue("intelligence", "state") = inbox["intelligence"]
  BY DEF Queue
<1>7. CASE recs' = recs /\ StateUpdates(e) = <<>>
  <2>1. inbox'["state"] = Queue("state", "state")
          /\ inbox'["intelligence"] = Queue("intelligence", "state")
    BY <1>1, <1>2, <1>4, <1>7, WantedHere, Unheard
  <2> QED
    BY <1>1, <1>5, <1>6, <1>7, <2>1
<1>8. ASSUME NEW id, NEW rec, Applies(e, id, rec)
      PROVE  /\ inbox'["state"] = Tail(inbox["state"])
             /\ \/ inbox'["intelligence"] =
                     Append(inbox["intelligence"], With(StateUpdate(id, rec), "ts", now))
                \/ /\ inbox'["intelligence"] = inbox["intelligence"]
                   /\ "intelligence" \notin enabled \/ lost'
  <2> DEFINE u == StateUpdate(id, rec)
  <2>1. Tells1(u, "state")
    BY <1>2, <1>4, <1>8, UpdateTells
  <2>2. Publish(<<u>>, "state")
    BY <1>1, <1>8 DEF Applies
  <2> HIDE DEF u
  <2>3. "type" \in DOMAIN u /\ u.type = "state"
    BY <2>1 DEF Tells1
  <2>4. inbox'["state"] = Queue("state", "state")
    BY <1>2, <1>4, <2>2, <2>3, WantedHere, Unheard
  <2>5. CASE "intelligence" \in enabled
    <3>1. IF Len(Queue("intelligence", "state")) < Buffer
            THEN inbox'["intelligence"] = Append(Queue("intelligence", "state"), With(u, "ts", now))
            ELSE inbox'["intelligence"] = Queue("intelligence", "state") /\ lost'
      BY <1>2, <1>4, <2>2, <2>3, <2>5, WantedHere, HeardOne
    <3> QED
      BY <1>6, <2>4, <3>1 DEF u
  <2>6. CASE "intelligence" \notin enabled
    <3>1. Listening["intelligence"] = {}
      BY <2>6, WantedHere, DownWants DEF Listening
    <3>2. inbox'["intelligence"] = Queue("intelligence", "state")
      BY <1>2, <1>4, <2>2, <2>3, <3>1, WantedHere, Unheard
    <3> QED
      BY <1>6, <2>4, <2>6, <3>2
  <2> QED
    BY <2>5, <2>6
<1> QED
  BY <1>1, <1>3, <1>5, <1>7, <1>8 DEF e

(* A step of the explanations takes an update.                             *)
LEMMA IntelligenceHandled ==
  ASSUME FlowTyped, IntelligenceHandles
  PROVE  /\ inbox'["intelligence"] = Tail(inbox["intelligence"]) /\ Waiting("intelligence")
         /\ inbox'["state"] = inbox["state"]
         /\ now' = now /\ recs' = recs /\ enabled' = enabled /\ (lost => lost')
         /\ HandleExplanation(Next1("intelligence"))
<1> DEFINE e == Next1("intelligence")
<1>1. /\ Waiting("intelligence") /\ HandleExplanation(e)
      /\ Publish(DocumentUpdates(e), "intelligence") /\ now' = now /\ recs' = recs
  BY DEF IntelligenceHandles, worldVars, recVars
<1>2. e.entry.at \in Int /\ inbox["intelligence"] # <<>> /\ BoxesTyped
  BY <1>1, Taken, WantedHere DEF FlowTyped, Wants, Timed
<1> HIDE DEF e
<1>3. AllTell(DocumentUpdates(e), "intelligence")
  BY <1>2, DocumentTells
<1>4. inbox'["intelligence"] = Queue("intelligence", "intelligence")
        /\ inbox'["state"] = Queue("state", "intelligence")
  BY <1>1, <1>2, <1>3, WantedHere, Unheard DEF AllTell, Tells1
<1>5. enabled' = enabled /\ (lost => lost')
  BY <1>1, PublishDoes
<1> QED
  BY <1>1, <1>4, <1>5 DEF Queue, e

(* A step, as the recommendations and their explanations see it: nothing   *)
(* to them, a verdict that arrives, or one of the two above.               *)
LEMMA LifeSteps ==
  ASSUME ~ReplayMode, FlowTyped, [FlowNext]_flowVars
  PROVE  Passes \/ Arrives \/ StateHandles \/ IntelligenceHandles
<1>0. BoxesTyped
  BY DEF FlowTyped
<1>1. CASE UNCHANGED <<downVars, inbox, lost, enabled>> /\ (now' = now \/ now' = now + 1)
  BY <1>1 DEF downVars, recVars, Passes, Aside
<1>2. CASE Elsewhere
  <2>1. recs' = recs /\ documents' = documents /\ now' = now
    BY <1>2 DEF Elsewhere, downVars, recVars
  <2> QED
    BY <1>0, <1>2, <2>1, ElsewhereTyped, WantedHere DEF Passes, Aside
<1>3. CASE FromUpstream
  <2>1. PICK v, from : /\ from \notin Downstream /\ (from \in Engines => inbox[from] # <<>>)
                       /\ Publish(<<v>>, from) /\ Comes(v)
    BY <1>3 DEF FromUpstream
  <2>2. recs' = recs /\ documents' = documents /\ now' = now
    BY <1>3 DEF FromUpstream, downVars, recVars
  <2>3. enabled' = enabled /\ (lost => lost')
    BY <2>1, PublishDoes
  <2>4. "type" \in DOMAIN v /\ "at" \in DOMAIN v /\ v.type \in {"validated", "candle"} /\ v.at = now
    BY <2>1 DEF Comes
  <2>5. \A d \in Downstream : Queue(d, from) = inbox[d]
    BY <2>1 DEF Queue
  <2>6. inbox'["intelligence"] = inbox["intelligence"]
    <3>1. v.type \notin Listening["intelligence"]
      BY <2>4, WantedHere
    <3>2. inbox'["intelligence"] = Queue("intelligence", from)
      BY <1>0, <2>1, <2>4, <3>1, WantedHere, Unheard
    <3> QED
      BY <2>5, <3>2, WantedHere
  <2>7. CASE v.type \in Listening["state"]
    <3>1. \/ inbox'["state"] = Append(Queue("state", from), With(v, "ts", now))
          \/ inbox'["state"] = Queue("state", from)
      BY <1>0, <2>1, <2>4, <2>7, WantedHere, HeardOne
    <3>2. With(v, "ts", now).at = now
      BY <2>4, StampKeeps
    <3> QED
      BY <2>2, <2>3, <2>5, <2>6, <3>1, <3>2, WantedHere DEF Passes, Arrives, Aside
  <2>8. CASE v.type \notin Listening["state"]
    <3>1. inbox'["state"] = Queue("state", from)
      BY <1>0, <2>1, <2>4, <2>8, WantedHere, Unheard
    <3> QED
      BY <2>2, <2>3, <2>5, <2>6, <3>1, WantedHere DEF Passes, Aside
  <2> QED
    BY <2>7, <2>8
<1>4. ASSUME NEW d \in Downstream \ {"state", "intelligence"}, Waiting(d), NEW events,
             NEW type \in {"alert", "quality", "feedback"}, AllTell(events, type),
             Publish(events, d), now' = now, recs' = recs, documents' = documents
      PROVE  Passes
  <2>1. inbox[d] # <<>>
    BY <1>4 DEF Waiting
  <2>2. inbox'["state"] = Queue("state", d) /\ inbox'["intelligence"] = Queue("intelligence", d)
    BY <1>0, <1>4, <2>1, WantedHere, Unheard DEF AllTell, Tells1
  <2>3. enabled' = enabled /\ (lost => lost')
    BY <1>4, PublishDoes
  <2> QED
    BY <1>4, <2>2, <2>3 DEF Queue, Passes, Aside
<1>5. {"alerts", "quality", "feedback", "delivery"} = Downstream \ {"state", "intelligence"}
  BY DEF Downstream
<1>6. CASE AlertsHandle
  <2>1. /\ Waiting("alerts") /\ Publish(AlertsFor(Next1("alerts")), "alerts") /\ now' = now
        /\ recs' = recs /\ documents' = documents
    BY <1>6 DEF AlertsHandle, worldVars, recVars
  <2>2. Next1("alerts").entry.at \in Int
    BY <1>0, <1>5, <2>1, Taken DEF Wants, Timed
  <2>3. AllTell(AlertsFor(Next1("alerts")), "alert")
    BY <2>2, AlertsTell
  <2> QED
    BY <1>4, <1>5, <2>1, <2>3
<1>8. CASE QualityHandles
  <2>1. /\ Waiting("quality") /\ Publish(QualityReports(Next1("quality"), now), "quality")
        /\ now' = now /\ recs' = recs /\ documents' = documents
    BY <1>8 DEF QualityHandles, worldVars, recVars
  <2>2. Next1("quality").type \in Wants["quality"] /\ Timed(Next1("quality")) /\ now \in Int
    BY <1>0, <1>5, <2>1, Taken DEF BoxesTyped
  <2>3. AllTell(QualityReports(Next1("quality"), now), "quality")
    BY <2>2, ReportsTell DEF FlowTyped
  <2> QED
    BY <1>4, <1>5, <2>1, <2>3
<1>9. CASE FeedbackHandles
  <2>1. /\ Waiting("feedback") /\ Publish(Snapshots(Next1("feedback")), "feedback")
        /\ now' = now /\ recs' = recs /\ documents' = documents
    BY <1>9 DEF FeedbackHandles, worldVars, recVars
  <2>2. Next1("feedback").at \in Int
    BY <1>0, <1>5, <2>1, Taken DEF Wants, Timed
  <2>3. AllTell(Snapshots(Next1("feedback")), "feedback")
    BY <2>2, SnapshotTells
  <2> QED
    BY <1>4, <1>5, <2>1, <2>3
<1>10. CASE DeliveryHandles
  <2>1. /\ Waiting("delivery") /\ Publish(<<>>, "delivery")
        /\ now' = now /\ recs' = recs /\ documents' = documents
    BY <1>10 DEF DeliveryHandles, worldVars, recVars
  <2> QED
    BY <1>4, <1>5, <2>1, NoneTell
<1> QED
  BY <1>1, <1>2, <1>3, <1>6, <1>8, <1>9, <1>10, FlowSteps DEF FlowTyped

-----------------------------------------------------------------------------
(* A timeline is in order of time, as the verdicts arrive in that order.   *)
InTime(t) == \A n \in 2 .. Len(t) : t[n - 1].at <= t[n].at
Before(t, at) == \A n \in DOMAIN t : t[n].at <= at
TimeInv ==
  /\ \A i \in DOMAIN recs :
       /\ InTime(recs[i].timeline) /\ Before(recs[i].timeline, now)
       /\ \A m \in DOMAIN inbox["state"] : Before(recs[i].timeline, inbox["state"][m].at)
  /\ Before(inbox["state"], now)
  /\ \A m, n \in DOMAIN inbox["state"] : m <= n => inbox["state"][m].at <= inbox["state"][n].at

(* The verdicts that wait are a sequence of what tells its time.           *)
LEMMA StateBoxTyped ==
  ASSUME BoxesTyped
  PROVE  /\ IsSequence(inbox["state"]) /\ DOMAIN inbox["state"] = 1 .. Len(inbox["state"])
         /\ Len(inbox["state"]) \in Nat /\ now \in Int
         /\ \A m \in DOMAIN inbox["state"] : inbox["state"][m].at \in Int
<1>1. IsSequence(inbox["state"])
        /\ \A m \in DOMAIN inbox["state"] : inbox["state"][m].type \in Wants["state"]
                                            /\ Timed(inbox["state"][m])
  BY WantedHere, DownWants DEF BoxesTyped
<1> QED
  BY <1>1, Appended DEF BoxesTyped, Wants, Timed

(* What extends a timeline in order by entries of a later time is in       *)
(* order.                                                                  *)
LEMMA LastingInTime ==
  ASSUME NEW t, NEW u, NEW at \in Int, Extends(t, u, at), InTime(t), Before(t, at),
         \A n \in DOMAIN u : u[n].at \in Int
  PROVE  InTime(u) /\ Before(u, at)
<1>1. /\ Len(t) \in Nat /\ Len(u) \in Nat /\ DOMAIN t = 1 .. Len(t) /\ DOMAIN u = 1 .. Len(u)
      /\ \A n \in 1 .. Len(t) : u[n] = t[n]
      /\ \A n \in Len(t) + 1 .. Len(u) : u[n].at = at
  BY DEF Extends
<1>2. Before(u, at)
  BY <1>1 DEF Before
<1>3. ASSUME NEW n \in 2 .. Len(u) PROVE u[n - 1].at <= u[n].at
  <2>1. n - 1 \in DOMAIN u /\ n \in DOMAIN u
    BY <1>1, <1>3
  <2>2. CASE n <= Len(t)
    BY <1>1, <1>3, <2>2 DEF InTime
  <2>3. CASE n > Len(t)
    BY <1>1, <1>2, <1>3, <2>1, <2>3 DEF Before
  <2> QED
    BY <1>1, <1>3, <2>2, <2>3
<1> QED
  BY <1>2, <1>3 DEF InTime

(* The state engine keeps the timelines in order.                          *)
LEMMA StateInTime ==
  ASSUME FlowTyped, FlowTyped', TimeInv, StateHandles PROVE TimeInv'
<1> DEFINE q == inbox["state"]
           e == Next1("state")
<1>1. inbox'["state"] = Tail(q) /\ Waiting("state") /\ now' = now
  BY StateHandled
<1>2. /\ IsSequence(q) /\ Len(q) \in Nat \ {0} /\ DOMAIN q = 1 .. Len(q) /\ now \in Int
      /\ e = q[1] /\ 1 \in DOMAIN q /\ \A m \in DOMAIN q : q[m].at \in Int
  BY <1>1, Taken, WantedHere, StateBoxTyped DEF FlowTyped
<1>3. DOMAIN Tail(q) = 1 .. Len(q) - 1 /\ \A m \in DOMAIN Tail(q) : Tail(q)[m] = q[m + 1]
  <2>1. q # <<>>
    BY <1>1, <1>2, Taken, WantedHere DEF FlowTyped
  <2> QED
    BY <1>2, <2>1, Tailed
<1>4. /\ Before(q, now) /\ \A m, n \in DOMAIN q : m <= n => q[m].at <= q[n].at
      /\ \A i \in DOMAIN recs :
           /\ InTime(recs[i].timeline) /\ Before(recs[i].timeline, now)
           /\ \A m \in DOMAIN q : Before(recs[i].timeline, q[m].at)
  BY DEF TimeInv
<1> DEFINE r == Tail(q)
<1> HIDE DEF q, e, r
<1>5. Before(r, now) /\ \A m, n \in DOMAIN r : m <= n => r[m].at <= r[n].at
  BY <1>2, <1>3, <1>4 DEF Before, r
<1>6. \A i \in DOMAIN recs : \A m \in DOMAIN r : Before(recs[i].timeline, r[m].at)
  BY <1>2, <1>3, <1>4 DEF r
<1>7. CASE recs' = recs
  BY <1>1, <1>4, <1>5, <1>6, <1>7 DEF TimeInv, r, q
<1>8. ASSUME NEW id, NEW rec, Applies(e, id, rec) PROVE TimeInv'
  <2>1. recs' = With(recs, id, rec) /\ Extends(Timeline(id), rec.timeline, e.at)
    BY <1>8 DEF Applies
  <2>2. InTime(Timeline(id)) /\ Before(Timeline(id), e.at)
    <3>1. CASE id \in DOMAIN recs
      BY <1>2, <1>4, <3>1 DEF Timeline
    <3>2. CASE id \notin DOMAIN recs
      BY <3>2 DEF Timeline, InTime, Before
    <3> QED
      BY <3>1, <3>2
  <2>3. \A n \in DOMAIN rec.timeline : rec.timeline[n].at \in Int
    <3>1. id \in DOMAIN recs' /\ recs'[id] = rec
      BY <2>1 DEF With
    <3> QED
      BY <3>1 DEF FlowTyped, RecsFit
  <2>4. InTime(rec.timeline) /\ Before(rec.timeline, e.at)
    BY <1>2, <2>1, <2>2, <2>3, LastingInTime
  <2>5. e.at <= now /\ \A m \in DOMAIN r : e.at <= r[m].at /\ r[m].at \in Int
    BY <1>2, <1>3, <1>4 DEF Before, r
  <2>6. Before(rec.timeline, now) /\ \A m \in DOMAIN r : Before(rec.timeline, r[m].at)
    BY <1>2, <2>3, <2>4, <2>5 DEF Before
  <2> QED
    BY <1>1, <1>4, <1>5, <1>6, <2>1, <2>4, <2>6 DEF TimeInv, With, r, q
<1> QED
  BY <1>7, <1>8, StateHandled DEF e

(* So does every step outside of replay.                                   *)
LEMMA TimeKeeps ==
  ASSUME ~ReplayMode, FlowTyped, FlowTyped', TimeInv, [FlowNext]_flowVars PROVE TimeInv'
<1>1. /\ DOMAIN inbox["state"] = 1 .. Len(inbox["state"]) /\ Len(inbox["state"]) \in Nat
      /\ now \in Int /\ \A m \in DOMAIN inbox["state"] : inbox["state"][m].at \in Int
      /\ IsSequence(inbox["state"])
  BY StateBoxTyped DEF FlowTyped
<1>2. \A i \in DOMAIN recs : \A n \in DOMAIN recs[i].timeline : recs[i].timeline[n].at \in Int
  BY DEF FlowTyped, RecsFit
<1>3. CASE Passes
  <2>1. now' \in Int /\ now <= now'
    BY <1>1, <1>3 DEF Passes
  <2>2. recs' = recs /\ inbox'["state"] = inbox["state"]
    BY <1>3 DEF Passes, Aside
  <2>3. Before(inbox["state"], now') /\ \A i \in DOMAIN recs : Before(recs[i].timeline, now')
    BY <1>1, <1>2, <2>1 DEF TimeInv, Before
  <2> QED
    BY <2>2, <2>3 DEF TimeInv
<1>4. CASE Arrives
  <2> DEFINE q == inbox["state"]
  <2>1. PICK w : w.at = now /\ inbox'["state"] = Append(q, w)
    BY <1>4 DEF Arrives
  <2>2. recs' = recs /\ now' = now
    BY <1>4 DEF Arrives, Aside
  <2>3. /\ DOMAIN Append(q, w) = 1 .. Len(q) + 1 /\ Append(q, w)[Len(q) + 1] = w
        /\ \A n \in 1 .. Len(q) : Append(q, w)[n] = q[n]
    BY <1>1, Appended
  <2> DEFINE r == Append(q, w)
  <2>4. /\ Before(q, now) /\ \A m, n \in DOMAIN q : m <= n => q[m].at <= q[n].at
        /\ \A i \in DOMAIN recs :
             /\ InTime(recs[i].timeline) /\ Before(recs[i].timeline, now)
             /\ \A m \in DOMAIN q : Before(recs[i].timeline, q[m].at)
    BY DEF TimeInv
  <2>5. DOMAIN q = 1 .. Len(q) /\ Len(q) \in Nat /\ \A m \in DOMAIN q : q[m].at \in Int
    BY <1>1
  <2> HIDE DEF q, r
  <2>6. Before(r, now)
    BY <1>1, <2>1, <2>3, <2>4, <2>5 DEF Before, r
  <2>7. \A m, n \in DOMAIN r : m <= n => r[m].at <= r[n].at
    <3> SUFFICES ASSUME NEW m \in DOMAIN r, NEW n \in DOMAIN r, m <= n PROVE r[m].at <= r[n].at
      OBVIOUS
    <3>1. CASE n = Len(q) + 1
      BY <1>1, <2>1, <2>3, <2>6, <3>1 DEF Before, r
    <3>2. CASE n # Len(q) + 1
      BY <2>3, <2>4, <2>5, <3>2 DEF r
    <3> QED
      BY <3>1, <3>2
  <2>8. \A i \in DOMAIN recs : \A m \in DOMAIN r : Before(recs[i].timeline, r[m].at)
    BY <2>1, <2>3, <2>4, <2>5 DEF r
  <2> QED
    BY <2>1, <2>2, <2>4, <2>6, <2>7, <2>8 DEF TimeInv, r
<1>5. CASE StateHandles
  BY <1>5, StateInTime
<1>6. CASE IntelligenceHandles
  BY <1>6, IntelligenceHandled DEF TimeInv
<1> QED
  BY <1>3, <1>4, <1>5, <1>6, LifeSteps

-----------------------------------------------------------------------------
(* An explanation's history follows the timeline: f tells where its        *)
(* entries are, and g where those are that the updates under way carry,    *)
(* which come no earlier.                                                  *)
Follows(i, h, t, q, f, g) ==
  /\ \A n \in DOMAIN h : f[n] \in DOMAIN t /\ h[n] = t[f[n]]
  /\ \A m, n \in DOMAIN h : m < n => f[m] < f[n]
  /\ \A m \in DOMAIN q : q[m].id = i =>
       /\ g[m] \in DOMAIN t /\ q[m].entry = t[g[m]]
       /\ \A n \in DOMAIN h : f[n] <= g[m]
  /\ \A m, n \in DOMAIN q : m < n /\ q[m].id = i /\ q[n].id = i => g[m] <= g[n]

(* The last of the updates under way tells the recommendation as it is,    *)
(* and where there is none, the explanation does.                          *)
Has(h, x) == \E n \in DOMAIN h : h[n] = x
LastWord(i, rec, q) ==
  \E m \in DOMAIN q :
    /\ q[m].id = i /\ \A n \in DOMAIN q : n > m => q[n].id # i
    /\ q[m].status = rec.status /\ q[m].confidence = rec.confidence
    /\ q[m].entry = rec.timeline[Len(rec.timeline)]
Explains(doc, rec) ==
  /\ doc.status = rec.status /\ doc.confidence = rec.confidence
  /\ Has(doc.timeline, rec.timeline[Len(rec.timeline)])

History(i) == IF i \in DOMAIN documents THEN documents[i].timeline ELSE <<>>
Updates == inbox["intelligence"]

TellInv ==
  /\ DOMAIN documents \subseteq DOMAIN recs
  /\ \A i \in DOMAIN documents : IsSequence(documents[i].timeline)
  /\ \A m \in DOMAIN Updates : Updates[m].id \in DOMAIN recs
  /\ \A i \in DOMAIN recs : \E f, g : Follows(i, History(i), recs[i].timeline, Updates, f, g)
  /\ ~lost /\ "intelligence" \in enabled =>
       \A i \in DOMAIN recs :
         \/ LastWord(i, recs[i], Updates)
         \/ /\ \A m \in DOMAIN Updates : Updates[m].id # i
            /\ i \in DOMAIN documents /\ Explains(documents[i], recs[i])

(* A history that follows a timeline follows what extends it.              *)
LEMMA FollowsLonger ==
  ASSUME NEW i, NEW h, NEW t, NEW q, NEW f, NEW g, Follows(i, h, t, q, f, g),
         NEW u, NEW at, Extends(t, u, at)
  PROVE  Follows(i, h, u, q, f, g)
<1>1. \A n \in DOMAIN t : n \in DOMAIN u /\ u[n] = t[n]
  BY DEF Extends
<1> QED
  BY <1>1 DEF Follows

(* An update that carries the last entry may be added to those under way.  *)
LEMMA FollowsMore ==
  ASSUME NEW i, NEW h, NEW t, NEW q, NEW f, NEW g, Follows(i, h, t, q, f, g),
         IsSequence(q), IsSequence(t),
         NEW w, w.id = i => Len(t) # 0 /\ w.entry = t[Len(t)]
  PROVE  \E k : Follows(i, h, t, Append(q, w), f, k)
<1> DEFINE r == Append(q, w)
           k == [m \in 1 .. Len(q) + 1 |-> IF m = Len(q) + 1 THEN Len(t) ELSE g[m]]
<1>1. /\ Len(q) \in Nat /\ DOMAIN q = 1 .. Len(q) /\ DOMAIN r = 1 .. Len(q) + 1
      /\ \A m \in 1 .. Len(q) : r[m] = q[m]
      /\ r[Len(q) + 1] = w
  BY Appended
<1>2. Len(t) \in Nat /\ DOMAIN t = 1 .. Len(t)
  BY Appended
<1>3. k[Len(q) + 1] = Len(t) /\ \A m \in 1 .. Len(q) : k[m] = g[m]
  BY <1>1
<1> HIDE DEF r, k
<1>4. ASSUME NEW m \in DOMAIN r, r[m].id = i
      PROVE  /\ k[m] \in DOMAIN t /\ r[m].entry = t[k[m]]
             /\ \A n \in DOMAIN h : f[n] <= k[m]
  <2>1. CASE m = Len(q) + 1
    <3>1. k[m] = Len(t) /\ Len(t) # 0 /\ r[m].entry = t[Len(t)]
      BY <1>1, <1>3, <1>4, <2>1
    <3>2. \A n \in DOMAIN h : f[n] \in 1 .. Len(t)
      BY <1>2 DEF Follows
    <3> QED
      BY <1>2, <3>1, <3>2
  <2>2. CASE m # Len(q) + 1
    <3>1. m \in DOMAIN q /\ r[m] = q[m] /\ k[m] = g[m]
      BY <1>1, <1>3, <2>2
    <3> QED
      BY <1>4, <3>1 DEF Follows
  <2> QED
    BY <2>1, <2>2
<1>5. ASSUME NEW m \in DOMAIN r, NEW n \in DOMAIN r, m < n, r[m].id = i, r[n].id = i
      PROVE  k[m] <= k[n]
  <2>1. m \in DOMAIN q /\ r[m] = q[m] /\ k[m] = g[m]
    BY <1>1, <1>3, <1>5
  <2>2. CASE n = Len(q) + 1
    <3>1. k[m] \in 1 .. Len(t) /\ k[n] = Len(t)
      BY <1>2, <1>3, <1>4, <1>5, <2>2
    <3> QED
      BY <1>2, <3>1
  <2>3. CASE n # Len(q) + 1
    <3>1. n \in DOMAIN q /\ r[n] = q[n] /\ k[n] = g[n]
      BY <1>1, <1>3, <2>3
    <3> QED
      BY <1>5, <2>1, <3>1 DEF Follows
  <2> QED
    BY <2>2, <2>3
<1> QED
  BY <1>4, <1>5 DEF Follows, r

(* The first of the updates under way may go.                              *)
LEMMA FollowsTail ==
  ASSUME NEW i, NEW h, NEW t, NEW q, NEW f, NEW g, Follows(i, h, t, q, f, g),
         IsSequence(q), q # <<>>
  PROVE  \E k : /\ Follows(i, h, t, Tail(q), f, k)
                /\ \A m \in DOMAIN Tail(q) : k[m] = g[m + 1]
<1> DEFINE r == Tail(q)
           k == [m \in DOMAIN r |-> g[m + 1]]
<1>1. /\ Len(q) \in Nat \ {0} /\ DOMAIN q = 1 .. Len(q) /\ DOMAIN r = 1 .. Len(q) - 1
      /\ \A m \in 1 .. Len(q) - 1 : r[m] = q[m + 1]
  BY Tailed
<1> HIDE DEF r
<1>2. \A m \in DOMAIN r : m + 1 \in DOMAIN q /\ r[m] = q[m + 1] /\ k[m] = g[m + 1] /\ m \in Nat
  BY <1>1
<1> HIDE DEF k
<1>3. Follows(i, h, t, r, f, k)
  <2>1. \A m \in DOMAIN r : r[m].id = i =>
          /\ k[m] \in DOMAIN t /\ r[m].entry = t[k[m]]
          /\ \A n \in DOMAIN h : f[n] <= k[m]
    BY <1>2 DEF Follows
  <2>2. \A m, n \in DOMAIN r : m < n /\ r[m].id = i /\ r[n].id = i => k[m] <= k[n]
    <3> SUFFICES ASSUME NEW m \in DOMAIN r, NEW n \in DOMAIN r, m < n, r[m].id = i, r[n].id = i
                 PROVE  k[m] <= k[n]
      OBVIOUS
    <3>1. m + 1 \in DOMAIN q /\ n + 1 \in DOMAIN q /\ m + 1 < n + 1
            /\ q[m + 1].id = i /\ q[n + 1].id = i
      BY <1>2
    <3>2. g[m + 1] <= g[n + 1]
      BY <3>1 DEF Follows
    <3> QED
      BY <1>2, <3>2
  <2> QED
    BY <2>1, <2>2 DEF Follows
<1> QED
  BY <1>2, <1>3 DEF r

(* Merging adds an entry exactly where it is missing, as an entry's reason *)
(* goes by the rest of it.                                                 *)
LEMMA MergeDoes ==
  ASSUME NEW h, IsSequence(h), NEW x, Fits(x), \A n \in DOMAIN h : Fits(h[n])
  PROVE  \/ MergeEntry(h, x) = h /\ Has(h, x)
         \/ MergeEntry(h, x) = Append(h, x) /\ ~Has(h, x)
<1>1. CASE \E n \in DOMAIN h : /\ h[n].event = x.event /\ h[n].at = x.at
                               /\ h[n].prev = x.prev /\ h[n].next = x.next
  <2>1. MergeEntry(h, x) = h
    BY <1>1 DEF MergeEntry
  <2>2. Has(h, x)
    BY <1>1, Zenon DEF Has, Fits
  <2> QED
    BY <2>1, <2>2
<1>2. CASE ~ \E n \in DOMAIN h : /\ h[n].event = x.event /\ h[n].at = x.at
                                 /\ h[n].prev = x.prev /\ h[n].next = x.next
  <2>1. MergeEntry(h, x) = Append(h, x)
    BY <1>2, Zenon DEF MergeEntry
  <2>2. ~Has(h, x)
    BY <1>2, Zenon DEF Has
  <2> QED
    BY <2>1, <2>2
<1> QED
  BY <1>1, <1>2

(* The first update under way is merged into the history.                  *)
LEMMA FollowsMerged ==
  ASSUME NEW i, NEW h, NEW t, NEW q, NEW f, NEW g, Follows(i, h, t, q, f, g),
         IsSequence(q), q # <<>>, IsSequence(h), IsSequence(t), \A n \in DOMAIN t : Fits(t[n]),
         q[1].id = i
  PROVE  /\ \E e, k : Follows(i, MergeEntry(h, q[1].entry), t, Tail(q), e, k)
         /\ Has(MergeEntry(h, q[1].entry), q[1].entry) /\ IsSequence(MergeEntry(h, q[1].entry))
<1>1. PICK k : /\ Follows(i, h, t, Tail(q), f, k)
               /\ \A m \in DOMAIN Tail(q) : k[m] = g[m + 1]
  BY FollowsTail
<1>2. /\ Len(q) \in Nat \ {0} /\ DOMAIN q = 1 .. Len(q) /\ DOMAIN Tail(q) = 1 .. Len(q) - 1
      /\ \A m \in 1 .. Len(q) - 1 : Tail(q)[m] = q[m + 1]
  BY Tailed
<1>3. 1 \in DOMAIN q
  BY <1>2
<1> DEFINE x == q[1].entry
<1>4. g[1] \in DOMAIN t /\ x = t[g[1]] /\ \A n \in DOMAIN h : f[n] <= g[1]
  BY <1>3 DEF Follows
<1>5. Fits(x) /\ \A n \in DOMAIN h : Fits(h[n])
  BY <1>4 DEF Follows
<1>6. CASE MergeEntry(h, x) = h /\ Has(h, x)
  BY <1>1, <1>6
<1>7. CASE MergeEntry(h, x) = Append(h, x) /\ ~Has(h, x)
  <2> DEFINE u == Append(h, x)
             e == [n \in 1 .. Len(h) + 1 |-> IF n = Len(h) + 1 THEN g[1] ELSE f[n]]
  <2>1. /\ IsSequence(u) /\ Len(h) \in Nat /\ DOMAIN h = 1 .. Len(h)
        /\ DOMAIN u = 1 .. Len(h) + 1
        /\ \A n \in 1 .. Len(h) : u[n] = h[n]
        /\ u[Len(h) + 1] = x
    BY Appended
  <2>2. e[Len(h) + 1] = g[1] /\ \A n \in 1 .. Len(h) : e[n] = f[n]
    BY <2>1
  <2>3. Len(t) \in Nat /\ DOMAIN t = 1 .. Len(t)
    BY Appended
  <2> HIDE DEF u, e, x
  <2>4. \A n \in DOMAIN h : f[n] \in DOMAIN t /\ h[n] = t[f[n]] /\ f[n] < g[1]
    <3> SUFFICES ASSUME NEW n \in DOMAIN h
                 PROVE  f[n] \in DOMAIN t /\ h[n] = t[f[n]] /\ f[n] < g[1]
      OBVIOUS
    <3>1. f[n] \in DOMAIN t /\ h[n] = t[f[n]] /\ f[n] <= g[1]
      BY <1>4 DEF Follows
    <3>2. f[n] # g[1]
      BY <1>4, <1>7, <3>1 DEF Has
    <3> QED
      BY <1>4, <2>3, <3>1, <3>2
  <2>5. \A n \in DOMAIN u : e[n] \in DOMAIN t /\ u[n] = t[e[n]]
    BY <1>4, <2>1, <2>2, <2>4
  <2>6. \A m, n \in DOMAIN u : m < n => e[m] < e[n]
    <3> SUFFICES ASSUME NEW m \in DOMAIN u, NEW n \in DOMAIN u, m < n PROVE e[m] < e[n]
      OBVIOUS
    <3>1. m \in DOMAIN h /\ e[m] = f[m]
      BY <2>1, <2>2
    <3>2. CASE n = Len(h) + 1
      BY <2>2, <2>4, <3>1, <3>2
    <3>3. CASE n # Len(h) + 1
      <4>1. n \in DOMAIN h /\ e[n] = f[n]
        BY <2>1, <2>2, <3>3
      <4> QED
        BY <3>1, <4>1 DEF Follows
    <3> QED
      BY <3>2, <3>3
  <2>7. ASSUME NEW m \in DOMAIN Tail(q), Tail(q)[m].id = i
        PROVE  /\ k[m] \in DOMAIN t /\ Tail(q)[m].entry = t[k[m]]
               /\ \A n \in DOMAIN u : e[n] <= k[m]
    <3>1. k[m] \in DOMAIN t /\ Tail(q)[m].entry = t[k[m]]
      BY <1>1, <2>7 DEF Follows
    <3>2. g[1] <= k[m]
      <4>1. m + 1 \in DOMAIN q /\ 1 < m + 1 /\ q[m + 1].id = i
        BY <1>2, <2>7
      <4>2. g[1] <= g[m + 1]
        BY <1>3, <4>1 DEF Follows
      <4> QED
        BY <1>1, <4>2, <2>7
    <3>3. ASSUME NEW n \in DOMAIN u PROVE e[n] <= k[m]
      <4>1. e[n] <= g[1]
        BY <1>4, <2>1, <2>2, <2>3, <2>4
      <4>2. e[n] \in Nat /\ g[1] \in Nat /\ k[m] \in Nat
        BY <1>4, <2>3, <2>5, <3>1
      <4> QED
        BY <3>2, <4>1, <4>2
    <3> QED
      BY <3>1, <3>3
  <2>8. \A m, n \in DOMAIN Tail(q) :
          m < n /\ Tail(q)[m].id = i /\ Tail(q)[n].id = i => k[m] <= k[n]
    BY <1>1 DEF Follows
  <2>9. Follows(i, u, t, Tail(q), e, k)
    BY <2>5, <2>6, <2>7, <2>8 DEF Follows
  <2>10. Has(u, x)
    BY <2>1 DEF Has
  <2> QED
    BY <1>7, <2>1, <2>9, <2>10 DEF u, x
<1> QED
  BY <1>5, <1>6, <1>7, MergeDoes

(* The updates under way are a sequence.                                   *)
LEMMA UpdatesTyped ==
  ASSUME BoxesTyped
  PROVE  IsSequence(Updates) /\ DOMAIN Updates = 1 .. Len(Updates) /\ Len(Updates) \in Nat
BY WantedHere, DownWants, Appended DEF BoxesTyped, Updates

(* The state engine keeps what the explanations and the updates under way  *)
(* tell.                                                                   *)
LEMMA StateTells ==
  ASSUME FlowTyped, TellInv, StateHandles PROVE TellInv'
<1> DEFINE q == Updates
           e == Next1("state")
<1>1. /\ documents' = documents /\ enabled' = enabled /\ (lost => lost')
      /\ \/ recs' = recs /\ Updates' = q
         \/ \E id, rec :
              /\ Applies(e, id, rec)
              /\ \/ Updates' = Append(q, With(StateUpdate(id, rec), "ts", now))
                 \/ Updates' = q /\ ("intelligence" \notin enabled \/ lost')
  BY StateHandled DEF Updates
<1>2. IsSequence(q) /\ DOMAIN q = 1 .. Len(q) /\ Len(q) \in Nat
  BY UpdatesTyped DEF FlowTyped
<1>3. /\ DOMAIN documents \subseteq DOMAIN recs
      /\ \A i \in DOMAIN documents : IsSequence(documents[i].timeline)
      /\ \A m \in DOMAIN q : q[m].id \in DOMAIN recs
      /\ \A i \in DOMAIN recs : \E f, g : Follows(i, History(i), recs[i].timeline, q, f, g)
      /\ ~lost /\ "intelligence" \in enabled =>
           \A i \in DOMAIN recs :
             \/ LastWord(i, recs[i], q)
             \/ /\ \A m \in DOMAIN q : q[m].id # i
                /\ i \in DOMAIN documents /\ Explains(documents[i], recs[i])
  BY DEF TellInv
<1>4. \A i : History(i)' = History(i)
  BY <1>1 DEF History
<1>5. CASE recs' = recs /\ Updates' = q
  BY <1>1, <1>5 DEF TellInv, History
<1> HIDE DEF q, e
<1>6. ASSUME NEW id, NEW rec, Applies(e, id, rec),
             \/ Updates' = Append(q, With(StateUpdate(id, rec), "ts", now))
             \/ Updates' = q /\ ("intelligence" \notin enabled \/ lost')
      PROVE  TellInv'
  <2> DEFINE u == With(StateUpdate(id, rec), "ts", now)
  <2>1. /\ recs' = With(recs, id, rec) /\ Len(rec.timeline) \in Nat \ {0}
        /\ Extends(Timeline(id), rec.timeline, e.at) /\ IsSequence(rec.timeline)
    BY <1>6 DEF Applies, SoundRec
  <2>2. /\ DOMAIN recs' = DOMAIN recs \union {id} /\ recs'[id] = rec
        /\ \A i \in DOMAIN recs : i # id => recs'[i] = recs[i]
    BY <2>1 DEF With
  <2>3. /\ u.id = id /\ u.status = rec.status /\ u.confidence = rec.confidence
        /\ u.entry = rec.timeline[Len(rec.timeline)]
    BY DEF StateUpdate, With
  <2> HIDE DEF u
  <2>4. /\ DOMAIN Append(q, u) = 1 .. Len(q) + 1 /\ Append(q, u)[Len(q) + 1] = u
        /\ \A m \in 1 .. Len(q) : Append(q, u)[m] = q[m]
    BY <1>2, Appended
  <2>5. \A m \in DOMAIN Updates' : Updates'[m].id \in DOMAIN recs'
    BY <1>2, <1>3, <1>6, <2>2, <2>3, <2>4 DEF u
  <2>6. \A i \in DOMAIN recs' : \E f, g : Follows(i, History(i), recs'[i].timeline, q, f, g)
    <3>1. CASE id \in DOMAIN recs
      <4>1. PICK f, g : Follows(id, History(id), recs[id].timeline, q, f, g)
        BY <1>3, <3>1
      <4>2. Follows(id, History(id), rec.timeline, q, f, g)
        BY <2>1, <3>1, <4>1, FollowsLonger DEF Timeline
      <4> QED
        BY <1>3, <2>2, <4>2
    <3>2. CASE id \notin DOMAIN recs
      <4>1. History(id) = <<>>
        BY <1>3, <3>2 DEF History
      <4>2. \A f, g : Follows(id, <<>>, rec.timeline, q, f, g)
        BY <1>3, <3>2 DEF Follows
      <4> QED
        BY <1>3, <2>2, <4>1, <4>2
    <3> QED
      BY <3>1, <3>2
  <2>7. \A i \in DOMAIN recs' : \E f, g : Follows(i, History(i), recs'[i].timeline, Updates', f, g)
    <3>1. CASE Updates' = q
      BY <2>6, <3>1
    <3>2. CASE Updates' = Append(q, u)
      <4> SUFFICES ASSUME NEW i \in DOMAIN recs'
                   PROVE  \E f, g : Follows(i, History(i), recs'[i].timeline, Append(q, u), f, g)
        BY <3>2
      <4>1. PICK f, g : Follows(i, History(i), recs'[i].timeline, q, f, g)
        BY <2>6
      <4>2. IsSequence(recs'[i].timeline)
        BY <2>1, <2>2 DEF FlowTyped, StateInv, SoundRec
      <4>3. u.id = i => Len(recs'[i].timeline) # 0
                        /\ u.entry = recs'[i].timeline[Len(recs'[i].timeline)]
        BY <2>1, <2>2, <2>3
      <4> QED
        BY <1>2, <4>1, <4>2, <4>3, FollowsMore
    <3> QED
      BY <1>6, <3>1, <3>2 DEF u
  <2>8. ~lost' /\ "intelligence" \in enabled' =>
          \A i \in DOMAIN recs' :
            \/ LastWord(i, recs'[i], Updates')
            \/ /\ \A m \in DOMAIN Updates' : Updates'[m].id # i
               /\ i \in DOMAIN documents /\ Explains(documents[i], recs'[i])
    <3> SUFFICES ASSUME ~lost', "intelligence" \in enabled', NEW i \in DOMAIN recs'
                 PROVE  \/ LastWord(i, recs'[i], Updates')
                        \/ /\ \A m \in DOMAIN Updates' : Updates'[m].id # i
                           /\ i \in DOMAIN documents /\ Explains(documents[i], recs'[i])
      OBVIOUS
    <3>1. ~lost /\ "intelligence" \in enabled /\ Updates' = Append(q, u)
      BY <1>1, <1>6 DEF u
    <3> DEFINE r == Append(q, u)
    <3>2. DOMAIN r = 1 .. Len(q) + 1 /\ r[Len(q) + 1] = u /\ \A m \in 1 .. Len(q) : r[m] = q[m]
      BY <2>4
    <3> HIDE DEF r
    <3>3. CASE i = id
      <4>1. LastWord(i, rec, r)
        <5>1. Len(q) + 1 \in DOMAIN r /\ \A n \in DOMAIN r : ~(n > Len(q) + 1)
          BY <1>2, <3>2
        <5> QED
          BY <2>3, <3>2, <3>3, <5>1 DEF LastWord
      <4> QED
        BY <2>2, <3>1, <3>3, <4>1 DEF r
    <3>4. CASE i # id
      <4>1. i \in DOMAIN recs /\ recs'[i] = recs[i]
        BY <2>2, <3>4
      <4>2. CASE LastWord(i, recs[i], q)
        <5>1. PICK m \in DOMAIN q :
                /\ q[m].id = i /\ \A n \in DOMAIN q : n > m => q[n].id # i
                /\ q[m].status = recs[i].status /\ q[m].confidence = recs[i].confidence
                /\ q[m].entry = recs[i].timeline[Len(recs[i].timeline)]
          BY <4>2 DEF LastWord
        <5>2. m \in DOMAIN r /\ r[m] = q[m] /\ \A n \in DOMAIN r : n > m => r[n].id # i
          BY <1>2, <2>3, <3>2, <3>4, <5>1
        <5>3. LastWord(i, recs[i], r)
          BY <5>1, <5>2 DEF LastWord
        <5> QED
          BY <3>1, <4>1, <5>3 DEF r
      <4>3. CASE (\A m \in DOMAIN q : q[m].id # i) /\ i \in DOMAIN documents
                   /\ Explains(documents[i], recs[i])
        <5>1. \A m \in DOMAIN r : r[m].id # i
          BY <1>2, <2>3, <3>2, <3>4, <4>3
        <5> QED
          BY <3>1, <4>1, <4>3, <5>1 DEF r
      <4> QED
        BY <1>3, <3>1, <4>1, <4>2, <4>3
    <3> QED
      BY <3>3, <3>4
  <2> QED
    BY <1>1, <1>3, <1>4, <2>2, <2>5, <2>7, <2>8 DEF TellInv
<1> QED
  BY <1>1, <1>5, <1>6

(* The explanations keep it, as they merge the first update.               *)
LEMMA IntelligenceTells ==
  ASSUME FlowTyped, TellInv, IntelligenceHandles PROVE TellInv'
<1> DEFINE q == Updates
           r == Tail(q)
           e == Next1("intelligence")
           doc == Document(e)
<1>0. PICK id : id = e.id
  OBVIOUS
<1>1. /\ Updates' = r /\ Waiting("intelligence") /\ recs' = recs /\ enabled' = enabled
      /\ (lost => lost') /\ HandleExplanation(e)
  BY IntelligenceHandled DEF Updates
<1>2. IsSequence(q) /\ q # <<>> /\ e = q[1] /\ 1 \in DOMAIN q
  BY <1>1, WantedHere, Taken DEF FlowTyped, Updates
<1>3. /\ Len(q) \in Nat \ {0} /\ DOMAIN q = 1 .. Len(q) /\ DOMAIN r = 1 .. Len(q) - 1
      /\ \A m \in 1 .. Len(q) - 1 : r[m] = q[m + 1]
  BY <1>2, Tailed
<1>4. /\ DOMAIN documents \subseteq DOMAIN recs
      /\ \A i \in DOMAIN documents : IsSequence(documents[i].timeline)
      /\ \A m \in DOMAIN q : q[m].id \in DOMAIN recs
      /\ \A i \in DOMAIN recs : \E f, g : Follows(i, History(i), recs[i].timeline, q, f, g)
      /\ ~lost /\ "intelligence" \in enabled =>
           \A i \in DOMAIN recs :
             \/ LastWord(i, recs[i], q)
             \/ /\ \A m \in DOMAIN q : q[m].id # i
                /\ i \in DOMAIN documents /\ Explains(documents[i], recs[i])
  BY DEF TellInv
<1>5. /\ DOMAIN documents' = DOMAIN documents \union {id} /\ documents'[id] = doc
      /\ \A i \in DOMAIN documents : i # id => documents'[i] = documents[i]
  BY <1>0, <1>1 DEF HandleExplanation
<1>6. /\ doc.timeline = MergeEntry(History(id), e.entry) /\ doc.status = e.status
      /\ doc.confidence = e.confidence
  BY <1>0 DEF Document, History
<1> HIDE DEF q, r, e, doc
<1>7. id \in DOMAIN recs /\ q[1].id = id
  BY <1>0, <1>2, <1>4
<1>8. \A i : i # id => History(i)' = History(i)
  BY <1>5 DEF History
<1>9. History(id)' = doc.timeline
  BY <1>5 DEF History
<1>10. /\ \E f, g : Follows(id, doc.timeline, recs[id].timeline, r, f, g)
       /\ Has(doc.timeline, e.entry) /\ IsSequence(doc.timeline)
  <2>1. PICK f, g : Follows(id, History(id), recs[id].timeline, q, f, g)
    BY <1>4, <1>7
  <2>2. IsSequence(History(id))
    <3>1. IsSequence(<<>>)
      BY DEF IsSequence
    <3> QED
      BY <1>4, <3>1 DEF History
  <2>3. IsSequence(recs[id].timeline) /\ \A n \in DOMAIN recs[id].timeline : Fits(recs[id].timeline[n])
    BY <1>7 DEF FlowTyped, StateInv, SoundRec, RecsFit
  <2> DEFINE h == History(id)
             t == recs[id].timeline
  <2>4. Follows(id, h, t, q, f, g) /\ IsSequence(h) /\ IsSequence(t)
          /\ \A n \in DOMAIN t : Fits(t[n])
    BY <2>1, <2>2, <2>3
  <2> HIDE DEF h, t
  <2>5. /\ \E d, k : Follows(id, MergeEntry(h, q[1].entry), t, Tail(q), d, k)
        /\ Has(MergeEntry(h, q[1].entry), q[1].entry) /\ IsSequence(MergeEntry(h, q[1].entry))
    BY <1>2, <1>7, <2>4, FollowsMerged
  <2>6. doc.timeline = MergeEntry(h, q[1].entry) /\ e.entry = q[1].entry
    BY <1>2, <1>6 DEF h
  <2> QED
    BY <2>5, <2>6 DEF r, t
<1>11. \A i \in DOMAIN recs : \E f, g : Follows(i, History(i)', recs[i].timeline, r, f, g)
  <2> SUFFICES ASSUME NEW i \in DOMAIN recs
               PROVE  \E f, g : Follows(i, History(i)', recs[i].timeline, r, f, g)
    OBVIOUS
  <2>1. CASE i = id
    BY <1>9, <1>10, <2>1
  <2>2. CASE i # id
    <3>1. PICK f, g : Follows(i, History(i), recs[i].timeline, q, f, g)
      BY <1>4
    <3> QED
      BY <1>2, <1>8, <2>2, <3>1, FollowsTail DEF r
  <2> QED
    BY <2>1, <2>2
<1>12. \A m \in DOMAIN r : r[m].id \in DOMAIN recs
  BY <1>3, <1>4
<1>13. /\ DOMAIN documents' \subseteq DOMAIN recs
       /\ \A i \in DOMAIN documents' : IsSequence(documents'[i].timeline)
  BY <1>4, <1>5, <1>7, <1>10
<1>14. ~lost' /\ "intelligence" \in enabled' =>
         \A i \in DOMAIN recs :
           \/ LastWord(i, recs[i], r)
           \/ /\ \A m \in DOMAIN r : r[m].id # i
              /\ i \in DOMAIN documents' /\ Explains(documents'[i], recs[i])
  <2> SUFFICES ASSUME ~lost', "intelligence" \in enabled', NEW i \in DOMAIN recs
               PROVE  \/ LastWord(i, recs[i], r)
                      \/ /\ \A m \in DOMAIN r : r[m].id # i
                         /\ i \in DOMAIN documents' /\ Explains(documents'[i], recs[i])
    OBVIOUS
  <2>1. ~lost /\ "intelligence" \in enabled
    BY <1>1
  <2>2. CASE LastWord(i, recs[i], q)
    <3>1. PICK m \in DOMAIN q :
            /\ q[m].id = i /\ \A n \in DOMAIN q : n > m => q[n].id # i
            /\ q[m].status = recs[i].status /\ q[m].confidence = recs[i].confidence
            /\ q[m].entry = recs[i].timeline[Len(recs[i].timeline)]
      BY <2>2 DEF LastWord
    <3>2. CASE m = 1
      <4>1. i = id /\ \A n \in DOMAIN r : r[n].id # i
        <5>1. i = id
          BY <1>7, <3>1, <3>2
        <5>2. \A n \in DOMAIN r : n + 1 \in DOMAIN q /\ n + 1 > m /\ r[n] = q[n + 1]
          BY <1>3, <3>2
        <5> QED
          BY <3>1, <5>1, <5>2
      <4>2. Explains(doc, recs[i])
        BY <1>2, <1>6, <1>10, <3>1, <3>2 DEF Explains
      <4> QED
        BY <1>5, <4>1, <4>2
    <3>3. CASE m # 1
      <4>1. m - 1 \in DOMAIN r /\ r[m - 1] = q[m]
        BY <1>3, <3>1, <3>3
      <4>2. \A n \in DOMAIN r : n > m - 1 => n + 1 \in DOMAIN q /\ n + 1 > m /\ r[n] = q[n + 1]
        BY <1>3, <3>1
      <4>3. \A n \in DOMAIN r : n > m - 1 => r[n].id # i
        BY <3>1, <4>2
      <4> QED
        BY <3>1, <4>1, <4>3 DEF LastWord
    <3> QED
      BY <3>2, <3>3
  <2>3. CASE (\A m \in DOMAIN q : q[m].id # i) /\ i \in DOMAIN documents
               /\ Explains(documents[i], recs[i])
    <3>1. i # id
      BY <1>2, <1>7, <2>3
    <3>2. \A m \in DOMAIN r : r[m].id # i
      BY <1>3, <2>3
    <3> QED
      BY <1>5, <2>3, <3>1, <3>2
  <2> QED
    BY <1>4, <2>1, <2>2, <2>3
<1> QED
  BY <1>1, <1>11, <1>12, <1>13, <1>14 DEF TellInv

(* So does every step outside of replay.                                   *)
LEMMA TellKeeps ==
  ASSUME ~ReplayMode, FlowTyped, TellInv, [FlowNext]_flowVars PROVE TellInv'
<1>1. CASE Passes \/ Arrives
  <2>1. Aside
    BY <1>1 DEF Passes, Arrives
  <2>2. Updates' = Updates /\ recs' = recs /\ documents' = documents /\ enabled' = enabled
          /\ (lost => lost') /\ \A i : History(i)' = History(i)
    BY <2>1 DEF Aside, Updates, History
  <2> QED
    BY <2>2 DEF TellInv
<1>2. CASE StateHandles
  BY <1>2, StateTells
<1>3. CASE IntelligenceHandles
  BY <1>3, IntelligenceTells
<1> QED
  BY <1>1, <1>2, <1>3, LifeSteps

-----------------------------------------------------------------------------
(* A document's timeline: in order, and nothing twice.                     *)
Ordered(t) ==
  /\ IsSequence(t) /\ \A n \in DOMAIN t : t[n].at \in Int
  /\ \A m, n \in DOMAIN t : m < n => t[m].at <= t[n].at /\ t[m] # t[n]

(* There is a place for an entry: behind the last that is not after it.    *)
LEMMA BehindIs ==
  ASSUME NEW t, Ordered(t), NEW e, e.at \in Int
  PROVE  /\ Behind(t, e) \in 0 .. Len(t)
         /\ Behind(t, e) > 0 => t[Behind(t, e)].at <= e.at
         /\ \A m \in Behind(t, e) + 1 .. Len(t) : t[m].at > e.at
<1> DEFINE after == {n \in 0 .. Len(t) : \A m \in n + 1 .. Len(t) : t[m].at > e.at}
<1>1. Len(t) \in Nat /\ DOMAIN t = 1 .. Len(t) /\ \A n \in 1 .. Len(t) : t[n].at \in Int
  BY Appended DEF Ordered
<1>2. after \subseteq Nat /\ Len(t) \in after
  BY <1>1
<1>3. PICK b \in after : \A n \in after : ~(<<n, b>> \in OpToRel(<, Nat))
  <2> HIDE DEF after
  <2> QED
    BY <1>2, WFMin, NatLessThanWellFounded
<1>4. \A n \in after : ~(n < b)
  BY <1>2, <1>3 DEF OpToRel
<1>5. b > 0 => t[b].at <= e.at
  <2> SUFFICES ASSUME b > 0 PROVE t[b].at <= e.at
    OBVIOUS
  <2>1. b \in 1 .. Len(t) /\ b - 1 \in 0 .. Len(t) /\ b - 1 < b
    BY <1>1
  <2>2. PICK m \in b - 1 + 1 .. Len(t) : ~(t[m].at > e.at)
    BY <1>4, <2>1
  <2>3. m = b
    BY <1>1, <2>1, <2>2
  <2> QED
    BY <1>1, <2>1, <2>2, <2>3
<1>6. \E n \in 0 .. Len(t) : /\ n > 0 => t[n].at <= e.at
                             /\ \A m \in n + 1 .. Len(t) : t[m].at > e.at
  BY <1>5
<1> QED
  BY <1>6 DEF Behind

(* InsertAt, by its definition.                                            *)
LEMMA Inserted ==
  ASSUME NEW s, NEW i, NEW e
  PROVE  InsertAt(s, i, e) = SubSeq(s, 1, i - 1) \o <<e>> \o SubSeq(s, i, Len(s))
BY Zenon DEF InsertAt

(* Merging keeps a timeline in order, with nothing twice.                  *)
LEMMA Merging ==
  ASSUME NEW t, Ordered(t), NEW e, e.at \in Int PROVE Ordered(Merged(t, e))
<1>1. CASE e \in {t[n] : n \in DOMAIN t}
  BY <1>1 DEF Merged
<1>2. CASE e \notin {t[n] : n \in DOMAIN t}
  <2>1. PICK b : b = Behind(t, e)
    OBVIOUS
  <2>2. /\ b \in 0 .. Len(t) /\ (b > 0 => t[b].at <= e.at)
        /\ \A m \in b + 1 .. Len(t) : t[m].at > e.at
    BY <2>1, BehindIs
  <2>3. IsSequence(t) /\ Len(t) \in Nat /\ DOMAIN t = 1 .. Len(t)
    BY Appended DEF Ordered
  <2> DEFINE s == SubSeq(t, 1, b)
             v == s \o <<e>>
             r == SubSeq(t, b + 1, Len(t))
             u == v \o r
  <2>4. Merged(t, e) = u
    <3>1. (b + 1) - 1 = b
      BY <2>2
    <3>2. Merged(t, e) = InsertAt(t, b + 1, e)
      BY <1>2, <2>1 DEF Merged
    <3>3. InsertAt(t, b + 1, e) = SubSeq(t, 1, (b + 1) - 1) \o <<e>> \o SubSeq(t, b + 1, Len(t))
      BY Inserted
    <3> QED
      BY <3>1, <3>2, <3>3
  <2>5. /\ IsSequence(s) /\ Len(s) = b /\ DOMAIN s = 1 .. b /\ \A n \in 1 .. b : s[n] = t[n]
    <3>1. 1 \in 1 .. Len(t) + 1 /\ b \in 1 - 1 .. Len(t)
      BY <2>2, <2>3
    <3>2. /\ IsSequence(SubSeq(t, 1, b)) /\ Len(SubSeq(t, 1, b)) = b - 1 + 1
          /\ DOMAIN SubSeq(t, 1, b) = 1 .. b - 1 + 1
          /\ \A n \in 1 .. b - 1 + 1 : SubSeq(t, 1, b)[n] = t[1 + n - 1]
      BY <2>3, <3>1, Cut
    <3> HIDE DEF s
    <3>3. b - 1 + 1 = b /\ \A n \in 1 .. b : 1 + n - 1 = n
      BY <2>2
    <3> QED
      BY <3>2, <3>3 DEF s
  <2>6. /\ IsSequence(r) /\ Len(r) = Len(t) - b /\ DOMAIN r = 1 .. Len(t) - b
        /\ \A n \in 1 .. Len(t) - b : r[n] = t[b + n]
    <3>1. b + 1 \in 1 .. Len(t) + 1 /\ Len(t) \in b + 1 - 1 .. Len(t)
      BY <2>2, <2>3
    <3>2. /\ IsSequence(SubSeq(t, b + 1, Len(t)))
          /\ Len(SubSeq(t, b + 1, Len(t))) = Len(t) - (b + 1) + 1
          /\ DOMAIN SubSeq(t, b + 1, Len(t)) = 1 .. Len(t) - (b + 1) + 1
          /\ \A n \in 1 .. Len(t) - (b + 1) + 1 : SubSeq(t, b + 1, Len(t))[n] = t[b + 1 + n - 1]
      BY <2>3, <3>1, Cut
    <3> HIDE DEF r
    <3>3. Len(t) - (b + 1) + 1 = Len(t) - b /\ \A n \in 1 .. Len(t) - b : b + 1 + n - 1 = b + n
      BY <2>2, <2>3
    <3> QED
      BY <3>2, <3>3 DEF r
  <2> HIDE DEF s, r
  <2>7. /\ IsSequence(v) /\ Len(v) = b + 1 /\ \A n \in 1 .. b : v[n] = t[n]
        /\ v[b + 1] = e
    <3>1. /\ IsSequence(Append(s, e)) /\ Len(Append(s, e)) = b + 1 /\ s \o <<e>> = Append(s, e)
          /\ \A n \in 1 .. b : Append(s, e)[n] = s[n]
          /\ Append(s, e)[b + 1] = e
      BY <2>5, Appended
    <3> QED
      BY <2>5, <3>1
  <2> HIDE DEF v
  <2>8. /\ IsSequence(u) /\ DOMAIN u = 1 .. Len(t) + 1
        /\ \A n \in 1 .. b : u[n] = t[n]
        /\ u[b + 1] = e
        /\ \A n \in b + 1 .. Len(t) : u[n + 1] = t[n]
    <3>1. /\ IsSequence(u) /\ DOMAIN u = 1 .. b + 1 + (Len(t) - b)
          /\ \A n \in 1 .. b + 1 : u[n] = v[n]
          /\ \A n \in 1 .. Len(t) - b : u[b + 1 + n] = r[n]
      <4>1. /\ IsSequence(v \o r) /\ DOMAIN (v \o r) = 1 .. Len(v) + Len(r)
            /\ \A n \in 1 .. Len(v) : (v \o r)[n] = v[n]
            /\ \A n \in 1 .. Len(r) : (v \o r)[Len(v) + n] = r[n]
        <5>1. IsSequence(v) /\ IsSequence(r)
          BY <2>6, <2>7
        <5> QED
          BY <5>1, Joined
      <4> QED
        BY <2>6, <2>7, <4>1
    <3> HIDE DEF u
    <3>2. b + 1 + (Len(t) - b) = Len(t) + 1
      BY <2>2, <2>3
    <3>3. ASSUME NEW n \in b + 1 .. Len(t) PROVE u[n + 1] = t[n]
      <4>1. n - b \in 1 .. Len(t) - b /\ b + 1 + (n - b) = n + 1 /\ b + (n - b) = n
        BY <2>2, <2>3
      <4> QED
        BY <2>6, <3>1, <4>1
    <3> QED
      BY <2>2, <2>7, <3>1, <3>2, <3>3
  <2> HIDE DEF u
  <2> DEFINE at(n) == IF n <= b THEN n ELSE n - 1
  <2>9. \A n \in DOMAIN u : n # b + 1 => at(n) \in DOMAIN t /\ u[n] = t[at(n)]
    <3> SUFFICES ASSUME NEW n \in DOMAIN u, n # b + 1 PROVE at(n) \in DOMAIN t /\ u[n] = t[at(n)]
      OBVIOUS
    <3>1. CASE n <= b
      BY <2>2, <2>3, <2>8, <3>1
    <3>2. CASE n > b
      <4>1. n - 1 \in b + 1 .. Len(t) /\ n - 1 + 1 = n /\ ~(n <= b)
        BY <2>2, <2>3, <2>8, <3>2
      <4> QED
        BY <2>2, <2>3, <2>8, <4>1
    <3> QED
      BY <2>2, <2>8, <3>1, <3>2
  <2>10. \A n \in DOMAIN u : u[n].at \in Int
    BY <2>8, <2>9 DEF Ordered
  <2>11. \A n \in 1 .. b : t[n].at <= e.at
    <3> SUFFICES ASSUME NEW n \in 1 .. b PROVE t[n].at <= e.at
      OBVIOUS
    <3>1. t[b].at <= e.at /\ b \in DOMAIN t /\ n \in DOMAIN t
      BY <2>2, <2>3
    <3>2. t[n].at <= t[b].at /\ t[n].at \in Int /\ t[b].at \in Int
      BY <2>2, <3>1 DEF Ordered
    <3> QED
      BY <3>1, <3>2
  <2>12. \A m, n \in DOMAIN u : m < n => u[m].at <= u[n].at /\ u[m] # u[n]
    <3> SUFFICES ASSUME NEW m \in DOMAIN u, NEW n \in DOMAIN u, m < n
                 PROVE  u[m].at <= u[n].at /\ u[m] # u[n]
      OBVIOUS
    <3>1. CASE n = b + 1
      <4>1. m \in 1 .. b /\ u[m] = t[m] /\ u[n] = e /\ m \in DOMAIN t
        BY <2>2, <2>3, <2>8, <3>1
      <4> QED
        BY <1>2, <2>11, <4>1
    <3>2. CASE m = b + 1
      <4>1. n - 1 \in b + 1 .. Len(t) /\ u[n] = t[n - 1] /\ u[m] = e /\ n - 1 \in DOMAIN t
        BY <2>2, <2>3, <2>8, <3>2
      <4>2. t[n - 1].at > e.at /\ t[n - 1].at \in Int
        BY <2>2, <4>1 DEF Ordered
      <4> QED
        BY <1>2, <4>1, <4>2
    <3>3. CASE m # b + 1 /\ n # b + 1
      <4>1. at(m) \in DOMAIN t /\ u[m] = t[at(m)] /\ at(n) \in DOMAIN t /\ u[n] = t[at(n)]
        BY <2>9, <3>3
      <4>2. at(m) < at(n)
        BY <2>2, <2>8, <3>3
      <4> HIDE DEF at
      <4> QED
        BY <4>1, <4>2 DEF Ordered
    <3> QED
      BY <3>1, <3>2, <3>3
  <2> QED
    BY <2>4, <2>8, <2>10, <2>12 DEF Ordered
<1> QED
  BY <1>1, <1>2

DocsInv == \A i \in DOMAIN docs : "timeline" \in DOMAIN docs[i] /\ Ordered(docs[i].timeline)

(* What an engine's event makes of a document: the timeline is what it was *)
(* with one entry or two merged, of the event's time.                      *)
SoundDoc(doc) == "timeline" \in DOMAIN doc /\ Ordered(doc.timeline)

(* A document that is given its keys keeps its timeline.                   *)
LEMMA KeyedKeeps ==
  ASSUME NEW doc, SoundDoc(doc), NEW key
  PROVE  SoundDoc(Keyed(doc, key)) /\ Keyed(doc, key).timeline = doc.timeline
BY DEF Keyed, SoundDoc

(* An entry that delivery makes has the time of its event.                 *)
LEMMA EventAt ==
  ASSUME NEW name, NEW at, NEW next
  PROVE  Event(name, at, next).at = at /\ "at" \in DOMAIN Event(name, at, next)
BY DEF Event

(* A state update keeps a document sound.                                  *)
LEMMA StatePatches ==
  ASSUME NEW doc, SoundDoc(doc), NEW e, e.entry.at \in Int PROVE SoundDoc(WithState(doc, e))
<1>1. Ordered(Merged(doc.timeline, e.entry))
  BY Merging DEF SoundDoc
<1> DEFINE d == Keyed(doc, e.key)
<1>2. SoundDoc(d) /\ d.timeline = doc.timeline
  BY KeyedKeeps
<1>3. WithState(doc, e) =
        [d EXCEPT
           !.createdAt = IF @ = NoTime THEN e.entry.at ELSE @,
           !.status = e.status, !.confidence = e.confidence, !.updatedAt = e.entry.at,
           !.closedAt = IF e.status = "CLOSED" THEN e.entry.at ELSE @,
           !.timeline = Merged(@, e.entry)]
  BY Zenon DEF WithState
<1> HIDE DEF d
<1>4. DOMAIN WithState(doc, e) = DOMAIN d
        /\ WithState(doc, e).timeline = Merged(d.timeline, e.entry)
  BY <1>2, <1>3 DEF SoundDoc
<1> QED
  BY <1>1, <1>2, <1>4 DEF SoundDoc

(* So does an explanation.                                                 *)
LEMMA IntelligencePatches ==
  ASSUME NEW doc, SoundDoc(doc), NEW e PROVE SoundDoc(WithIntelligence(doc, e))
<1>1. SoundDoc(Keyed(doc, e.key))
  BY KeyedKeeps
<1> QED
  BY <1>1 DEF WithIntelligence, SoundDoc

(* So does a report, with one entry or two.                                *)
LEMMA QualityPatches ==
  ASSUME NEW doc, SoundDoc(doc), NEW e, e.at \in Int PROVE SoundDoc(WithQuality(doc, e))
<1> DEFINE enters == e.entry > 0 /\ ~doc.hadEntry
           entry == Event("Entry Triggered", e.at, <<"number", e.entry>>)
           entered == IF enters THEN Merged(doc.timeline, entry) ELSE doc.timeline
           told == Event("Quality Evaluated", e.at, <<e.outcome, 0>>)
           d == Keyed(doc, e.key)
<1>1. entry.at = e.at /\ told.at = e.at
  BY EventAt, Zenon
<1>2. SoundDoc(d)
  BY KeyedKeeps
<1>3. WithQuality(doc, e) =
        [d EXCEPT
           !.level = e.level, !.status = e.status, !.updatedAt = e.at,
           !.confidence = IF e.confidence > 0 THEN e.confidence ELSE @,
           !.hadEntry = @ \/ enters, !.completed = e.completed,
           !.timeline = Merged(entered, told)]
  BY Zenon DEF WithQuality
<1> HIDE DEF entry, told, d, enters
<1>4. Ordered(entered)
  BY <1>1, Merging DEF SoundDoc
<1> HIDE DEF entered
<1>5. Ordered(Merged(entered, told))
  BY <1>1, <1>4, Merging
<1>6. DOMAIN WithQuality(doc, e) = DOMAIN d /\ WithQuality(doc, e).timeline = Merged(entered, told)
  BY <1>2, <1>3 DEF SoundDoc
<1> QED
  BY <1>2, <1>5, <1>6 DEF SoundDoc

(* So does feedback.                                                       *)
LEMMA FeedbackPatches ==
  ASSUME NEW doc, SoundDoc(doc), NEW e, e.at \in Int PROVE SoundDoc(WithFeedback(doc, e))
<1> DEFINE told == Event("Feedback Updated", e.at, <<"", 0>>)
<1>1. told.at = e.at
  BY EventAt, Zenon
<1>2. WithFeedback(doc, e) =
        [doc EXCEPT !.updatedAt = e.at, !.feedback = TRUE,
           !.timeline = IF doc.feedback THEN @ ELSE Merged(@, told)]
  BY Zenon DEF WithFeedback
<1> HIDE DEF told
<1>3. Ordered(Merged(doc.timeline, told))
  BY <1>1, Merging DEF SoundDoc
<1> QED
  BY <1>2, <1>3 DEF SoundDoc

(* So does an alert.                                                       *)
LEMMA AlertPatches ==
  ASSUME NEW doc, SoundDoc(doc), NEW e, e.at \in Int PROVE SoundDoc(WithAlert(doc, e))
<1> DEFINE event == Event("Alert Generated", e.at, <<e.alert, 0>>)
           told == [event EXCEPT !.reason = e.reason]
<1>1. told.at = e.at
  <2>1. event.at = e.at /\ "at" \in DOMAIN event
    BY EventAt, Zenon
  <2> HIDE DEF event
  <2> QED
    BY <2>1
<1>2. WithAlert(doc, e) =
        [doc EXCEPT !.alerts = @ + 1, !.updatedAt = e.at, !.timeline = Merged(@, told)]
  BY Zenon DEF WithAlert
<1> HIDE DEF told
<1>3. Ordered(Merged(doc.timeline, told))
  BY <1>1, Merging DEF SoundDoc
<1> QED
  BY <1>2, <1>3 DEF SoundDoc

(* A new document is sound.                                                *)
LEMMA NewDocIsSound == SoundDoc(NewDoc)
<1>1. DOMAIN <<>> = {} /\ IsSequence(<<>>)
  BY DEF IsSequence
<1>2. Ordered(<<>>)
  BY <1>1 DEF Ordered
<1>3. NewDoc.timeline = <<>> /\ "timeline" \in DOMAIN NewDoc
  BY DEF NewDoc
<1> QED
  BY <1>2, <1>3 DEF SoundDoc

(* So is what any event that delivery wants makes of a document.           *)
LEMMA PatchesKeep ==
  ASSUME DocsInv, NEW e, Timed(e), e.type \in Wants["delivery"], NEW id
  PROVE  SoundDoc(Patched(id, e))
<1> DEFINE doc == IF id \in DOMAIN docs THEN docs[id] ELSE NewDoc
<1>1. SoundDoc(doc)
  BY NewDocIsSound DEF DocsInv, SoundDoc
<1>2. Patched(id, e) =
        CASE e.type = "state" -> WithState(doc, e)
          [] e.type = "intelligence" -> WithIntelligence(doc, e)
          [] e.type = "quality" -> WithQuality(doc, e)
          [] e.type = "feedback" -> WithFeedback(doc, e)
          [] OTHER -> WithAlert(doc, e)
  BY Zenon DEF Patched
<1>3. e.type \in {"state", "intelligence", "quality", "feedback", "alert"}
        /\ IF e.type = "state" THEN e.entry.at \in Int ELSE e.at \in Int
  BY DEF Wants, Timed
<1> HIDE DEF doc
<1>4. CASE e.type = "state"
  BY <1>1, <1>2, <1>3, <1>4, StatePatches
<1>5. CASE e.type = "intelligence"
  BY <1>1, <1>2, <1>5, IntelligencePatches
<1>6. CASE e.type = "quality"
  BY <1>1, <1>2, <1>3, <1>6, QualityPatches
<1>7. CASE e.type = "feedback"
  BY <1>1, <1>2, <1>3, <1>7, FeedbackPatches
<1>8. CASE e.type = "alert"
  BY <1>1, <1>2, <1>3, <1>8, AlertPatches
<1> QED
  BY <1>3, <1>4, <1>5, <1>6, <1>7, <1>8

(* Only delivery changes the documents.                                    *)
LEMMA DeliveryAlone ==
  ASSUME [FlowNext]_flowVars PROVE DeliveryHandles \/ UNCHANGED deliveryVars
<1>1. CASE UNCHANGED flowVars
  BY <1>1 DEF flowVars, downVars
<1>2. CASE Validate \/ Observe \/ PortfolioTrades \/ CandleCloses \/ TimePasses
  BY <1>2 DEF Validate, Observe, PortfolioTrades, CandleCloses, TimePasses, downVars
<1>3. CASE \/ PerformanceHandles \/ OptimizationHandles \/ ScannerHandles
           \/ OpportunityHandles \/ RecommendationHandles \/ ValidationHandles
  BY <1>3 DEF PerformanceHandles, OptimizationHandles, ScannerHandles, OpportunityHandles,
              RecommendationHandles, ValidationHandles, downVars
<1>4. CASE StateHandles \/ AlertsHandle \/ IntelligenceHandles \/ QualityHandles \/ FeedbackHandles
  BY <1>4 DEF StateHandles, AlertsHandle, IntelligenceHandles, QualityHandles, FeedbackHandles
<1> QED
  BY <1>1, <1>2, <1>3, <1>4 DEF FlowNext, EngineHandles

(* Every step keeps the documents sound.                                   *)
LEMMA DocsKept ==
  ASSUME BoxesTyped, DocsInv, [FlowNext]_flowVars PROVE DocsInv'
<1>1. CASE UNCHANGED deliveryVars
  BY <1>1 DEF deliveryVars, DocsInv
<1>2. CASE DeliveryHandles
  <2> DEFINE e == Next1("delivery")
  <2>1. docs' = PatchedDocs(e) /\ Waiting("delivery")
    BY <1>2 DEF DeliveryHandles, HandleDelivery
  <2>2. Timed(e) /\ e.type \in Wants["delivery"]
    BY <2>1, Taken DEF Downstream
  <2>3. \A i : SoundDoc(Patched(i, e))
    BY <2>2, PatchesKeep
  <2> HIDE DEF e
  <2>4. \A i \in DOMAIN docs' : SoundDoc(docs'[i])
    BY <2>1, <2>3 DEF PatchedDocs, DocsInv, SoundDoc
  <2> QED
    BY <2>4 DEF DocsInv, SoundDoc
<1> QED
  BY <1>1, <1>2, DeliveryAlone

(* A triple of the indexes names the document that it is about.            *)
LEMMA KeyNames ==
  /\ \A name, k, i, x : x \in Named(name, k, i) => x = <<name, k, i>>
  /\ \A name, t, i, x : x \in Dated(name, t, i) => x = <<name, t \div DocDayLength, i>>
<1>1. \A name, k, i, x : x \in Named(name, k, i) => x = <<name, k, i>>
  BY Zenon DEF Named
<1>2. \A name, t, i, x : x \in Dated(name, t, i) => x = <<name, t \div DocDayLength, i>>
  BY Zenon DEF Dated
<1> QED
  BY <1>1, <1>2

(* A key of a document names it, and the one by status has its status.     *)
LEMMA KeyIsOf ==
  ASSUME NEW i, NEW doc, NEW x \in IndexKeys(i, doc)
  PROVE  /\ x[3] = i
         /\ x[1] = "status" => x[2] = doc.status
<1>1. \/ x \in Named("symbol", doc.symbol, i) \/ x \in Named("strategy", doc.strategy, i)
      \/ x \in Named("timeframe", doc.timeframe, i) \/ x \in Named("status", doc.status, i)
      \/ x \in Named("level", doc.level, i)
      \/ x = <<"confidence", ConfidenceBucketOf(doc.confidence), i>>
      \/ x \in Dated("created", doc.createdAt, i) \/ x \in Dated("updated", doc.updatedAt, i)
  BY DEF IndexKeys
<1>2. \/ x = <<"symbol", doc.symbol, i>> \/ x = <<"strategy", doc.strategy, i>>
      \/ x = <<"timeframe", doc.timeframe, i>> \/ x = <<"status", doc.status, i>>
      \/ x = <<"level", doc.level, i>>
      \/ x = <<"confidence", ConfidenceBucketOf(doc.confidence), i>>
      \/ \E t : x = <<"created", t, i>> \/ x = <<"updated", t, i>>
  BY <1>1, KeyNames, Zenon
<1> QED
  BY <1>2

(* Every step keeps the indexes and the documents in agreement.            *)
LEMMA IndexesKept ==
  ASSUME IndexesAgree, [FlowNext]_flowVars PROVE IndexesAgree'
<1>1. CASE UNCHANGED deliveryVars
  BY <1>1 DEF deliveryVars, IndexesAgree
<1>2. CASE DeliveryHandles
  <2> DEFINE e == Next1("delivery")
             ids == Touched(e)
  <2>1. /\ docs' = PatchedDocs(e)
        /\ docIndex' = (docIndex \ UNION {IndexKeys(i, docs[i]) : i \in ids \intersect DOMAIN docs})
                         \union UNION {IndexKeys(i, Patched(i, e)) : i \in ids}
    BY <1>2 DEF DeliveryHandles, HandleDelivery
  <2>2. /\ DOMAIN docs' = DOMAIN docs \union ids
        /\ \A i \in ids : docs'[i] = Patched(i, e)
        /\ \A i \in DOMAIN docs : i \notin ids => docs'[i] = docs[i]
    BY <2>1 DEF PatchedDocs
  <2> HIDE DEF e, ids
  <2>3. docIndex = UNION {IndexKeys(i, docs[i]) : i \in DOMAIN docs}
    BY DEF IndexesAgree
  <2>4. ASSUME NEW x \in docIndex' PROVE \E i \in DOMAIN docs' : x \in IndexKeys(i, docs'[i])
    <3>1. CASE \E i \in ids : x \in IndexKeys(i, Patched(i, e))
      BY <2>2, <3>1
    <3>2. CASE x \in docIndex /\ x \notin UNION {IndexKeys(i, docs[i]) : i \in ids \intersect DOMAIN docs}
      <4>1. PICK i \in DOMAIN docs : x \in IndexKeys(i, docs[i])
        BY <2>3, <3>2
      <4>2. i \notin ids
        BY <3>2, <4>1
      <4> QED
        BY <2>2, <4>1, <4>2
    <3> QED
      BY <2>1, <2>4, <3>1, <3>2
  <2>5. ASSUME NEW i \in DOMAIN docs', NEW x \in IndexKeys(i, docs'[i]) PROVE x \in docIndex'
    <3>1. CASE i \in ids
      BY <2>1, <2>2, <2>5, <3>1
    <3>2. CASE i \notin ids
      <4>1. i \in DOMAIN docs /\ x \in IndexKeys(i, docs[i])
        BY <2>2, <2>5, <3>2
      <4>2. x[3] = i
        BY <4>1, KeyIsOf
      <4>3. \A j \in ids \intersect DOMAIN docs : x \notin IndexKeys(j, docs[j])
        BY <3>2, <4>2, KeyIsOf
      <4>4. x \in docIndex
        BY <2>3, <4>1
      <4> QED
        BY <2>1, <4>3, <4>4
    <3> QED
      BY <3>1, <3>2
  <2>6. docIndex' = UNION {IndexKeys(i, docs'[i]) : i \in DOMAIN docs'}
    BY <2>4, <2>5
  <2> QED
    BY <2>6 DEF IndexesAgree
<1> QED
  BY <1>1, <1>2, DeliveryAlone

(* Where they agree, the scan and the index split the documents.           *)
LEMMA ActiveOrClosedThen == IndexesAgree => ActiveOrClosed
<1> SUFFICES ASSUME IndexesAgree PROVE ActiveOrClosed
  OBVIOUS
<1> DEFINE key(i) == <<"status", "CLOSED", i>>
<1>1. docIndex = UNION {IndexKeys(i, docs[i]) : i \in DOMAIN docs}
  BY DEF IndexesAgree
<1>2. ASSUME NEW i PROVE key(i) \in IndexKeys(i, docs[i]) <=> docs[i].status = "CLOSED"
  <2>1. key(i) \in IndexKeys(i, docs[i]) => docs[i].status = "CLOSED"
    BY KeyIsOf
  <2>2. docs[i].status = "CLOSED" => key(i) \in Named("status", docs[i].status, i)
    <3>1. "CLOSED" # ""
      OBVIOUS
    <3> QED
      BY <3>1, Zenon DEF Named
  <2>3. \A x \in Named("status", docs[i].status, i) : x \in IndexKeys(i, docs[i])
    BY DEF IndexKeys
  <2> QED
    BY <2>1, <2>2, <2>3
<1>3. \A i : key(i)[3] = i /\ key(i)[1] = "status" /\ key(i)[2] = "CLOSED"
  OBVIOUS
<1>4. ASSUME NEW i \in ClosedDocs PROVE i \in DOMAIN docs /\ docs[i].status = "CLOSED"
  <2>1. key(i) \in IndexKeys(i, docs[i]) /\ \E x \in docIndex : x[3] = i
    BY <1>4 DEF ClosedDocs, ListByIndex
  <2>2. i \in DOMAIN docs
    BY <1>1, <2>1, KeyIsOf
  <2> QED
    BY <1>2, <2>1, <2>2
<1>5. ASSUME NEW i \in DOMAIN docs, docs[i].status = "CLOSED" PROVE i \in ClosedDocs
  <2>1. key(i) \in IndexKeys(i, docs[i]) /\ key(i) \in docIndex
    BY <1>1, <1>2, <1>5
  <2> QED
    BY <1>3, <2>1 DEF ClosedDocs, ListByIndex
<1> QED
  BY <1>4, <1>5 DEF ActiveOrClosed, ActiveDocs

-----------------------------------------------------------------------------
(* All of it together.                                                     *)
DocumentsInv == FlowTyped /\ TimeInv /\ TellInv /\ DocsInv /\ IndexesAgree

(* So it is at the start.                                                  *)
LEMMA DocumentsInit == FlowInit => DocumentsInv
<1> SUFFICES ASSUME FlowInit PROVE DocumentsInv
  OBVIOUS
<1>1. /\ recs = <<>> /\ documents = <<>> /\ trackers = <<>> /\ docs = <<>> /\ docIndex = {}
      /\ inbox = [e \in Engines |-> <<>>] /\ now = 0 /\ RecInit /\ oppSymbols = <<>>
  BY DEF FlowInit, RecInit, DocumentInit, QualityInit, DeliveryInit, OpportunityInit
<1>2. DOMAIN <<>> = {} /\ IsSequence(<<>>) /\ Len(<<>>) = 0
  BY DEF IsSequence
<1>3. DOMAIN recs = {} /\ DOMAIN documents = {} /\ DOMAIN trackers = {} /\ DOMAIN docs = {}
        /\ (\A d \in Engines : inbox[d] = <<>>) /\ DOMAIN oppSymbols = {}
  BY <1>1, <1>2
<1>4. FlowTyped
  <2>1. StateInv /\ IsFiniteSet(DOMAIN trackers) /\ IsFiniteSet(DOMAIN oppSymbols)
    BY <1>1, <1>3, StateInit, FS_EmptySet
  <2>2. BoxesTyped
    BY <1>1, <1>2, <1>3, BufferPositive DEF BoxesTyped
  <2> QED
    BY <1>3, <2>1, <2>2 DEF FlowTyped, RecsFit
<1>5. inbox["state"] = <<>> /\ Updates = <<>>
  BY <1>3, WantedHere, DownWants DEF Updates
<1>6. TimeInv
  BY <1>2, <1>3, <1>5 DEF TimeInv, Before
<1>7. TellInv
  BY <1>2, <1>3, <1>5 DEF TellInv
<1>8. DocsInv /\ IndexesAgree
  BY <1>1, <1>3 DEF DocsInv, IndexesAgree
<1> QED
  BY <1>4, <1>6, <1>7, <1>8 DEF DocumentsInv

(* Every step outside of replay keeps all of it.                           *)
LEMMA DocumentsStep ==
  ASSUME ~ReplayMode, DocumentsInv, [FlowNext]_flowVars PROVE DocumentsInv'
<1>1. FlowTyped'
  BY FlowTypes DEF DocumentsInv
<1>2. TimeInv' /\ TellInv'
  BY <1>1, TimeKeeps, TellKeeps DEF DocumentsInv
<1>3. DocsInv' /\ IndexesAgree'
  BY DocsKept, IndexesKept DEF DocumentsInv, FlowTyped
<1> QED
  BY <1>1, <1>2, <1>3 DEF DocumentsInv

(* What follows the timeline is a part of it, in the same order.           *)
LEMMA HistoryThen == TellInv => HistoryIsTimeline
<1> SUFFICES ASSUME TellInv, NEW i \in DOMAIN documents
             PROVE  LET t == recs[i].timeline
                        h == documents[i].timeline
                    IN \E f \in [DOMAIN h -> DOMAIN t] :
                         /\ \A n \in DOMAIN h : h[n] = t[f[n]]
                         /\ \A m, n \in DOMAIN h : m < n => f[m] < f[n]
  BY DEF HistoryIsTimeline
<1> DEFINE t == recs[i].timeline
           h == documents[i].timeline
<1>1. PICK e, g : Follows(i, h, t, Updates, e, g)
  BY DEF TellInv, History
<1> DEFINE f == [n \in DOMAIN h |-> e[n]]
<1>2. /\ f \in [DOMAIN h -> DOMAIN t] /\ \A n \in DOMAIN h : h[n] = t[f[n]]
      /\ \A m, n \in DOMAIN h : m < n => f[m] < f[n]
  <2> HIDE DEF h, t
  <2> QED
    BY <1>1 DEF Follows
<1> QED
  BY <1>2

(* With no update under way, the explanations have the last word.          *)
LEMMA ConvergesThen == TellInv => ExplanationsConverge
<1> SUFFICES ASSUME TellInv, Quiet, "intelligence" \in enabled
             PROVE  /\ DOMAIN documents = DOMAIN recs
                    /\ \A i \in DOMAIN recs : Explains(documents[i], recs[i])
  BY DEF ExplanationsConverge, Explains, Has
<1>1. Updates = <<>> /\ ~lost /\ DOMAIN Updates = {}
  BY WantedHere DEF Quiet, Updates, Engines
<1>2. \A i \in DOMAIN recs : ~LastWord(i, recs[i], Updates)
  BY <1>1 DEF LastWord
<1> QED
  BY <1>1, <1>2 DEF TellInv

(* All of it together is what is wanted of the documents.                  *)
LEMMA DocumentsThen == DocumentsInv => DocumentsAgree
<1> SUFFICES ASSUME DocumentsInv PROVE DocumentsAgree
  OBVIOUS
<1>1. ExplanationsConverge /\ HistoryIsTimeline
  BY ConvergesThen, HistoryThen DEF DocumentsInv
<1>2. TimelineInTime
  BY DEF DocumentsInv, TimeInv, InTime, TimelineInTime
<1>3. TimelineOrdered
  BY DEF DocumentsInv, DocsInv, Ordered, TimelineOrdered
<1>4. IndexesAgree /\ ActiveOrClosed
  BY ActiveOrClosedThen DEF DocumentsInv
<1> QED
  BY <1>1, <1>2, <1>3, <1>4 DEF DocumentsAgree

(* Without replay's times, and whatever the bus loses: a recommendation's  *)
(* timeline is in order of time, an explanation's history is part of it in *)
(* the same order, a delivery document's timeline is in order and says     *)
(* nothing twice, and the indexes find every document by what it says.     *)
(* Where nothing is under way and nothing was lost, the explanations agree *)
(* with the recommendations.                                               *)
THEOREM DocumentsAgreeHolds == ~ReplayMode => (FlowSpec => []DocumentsAgree)
<1> SUFFICES ASSUME ~ReplayMode PROVE FlowSpec => []DocumentsAgree
  OBVIOUS
<1>1. FlowInit => DocumentsInv
  BY DocumentsInit
<1>2. DocumentsInv /\ [FlowNext]_flowVars => DocumentsInv'
  BY DocumentsStep
<1>3. DocumentsInv => DocumentsAgree
  BY DocumentsThen
<1> QED
  BY <1>1, <1>2, <1>3, PTL DEF FlowSpec

-----------------------------------------------------------------------------
(***************************************************************************)
(* Alerts. Every alert but the first of a recommendation was called for by *)
(* an entry of the timeline, with the status the timeline then shows; the  *)
(* cooldown keeps two alerts from being of the same entry.                 *)
(***************************************************************************)
Shows(t, m, status) ==
  \E n \in 1 .. m : /\ t[n].event \in StatusEvents /\ NoneOf(StatusEvents, t, n + 1 .. m)
                    /\ t[n].next = Word(status)
Stems(id, m, status, entry) ==
  /\ id \in DOMAIN recs /\ m \in DOMAIN recs[id].timeline
  /\ recs[id].timeline[m] = entry /\ Shows(recs[id].timeline, m, status)
CalledAt(a, m) ==
  \E entry : /\ Stems(a.id, m, a.status, entry) /\ EntryAlert(entry) = <<a.alert>>
             /\ entry.at = a.at /\ entry.reason = a.reason
MarkOf(a) == <<a.id, a.alert, a.status, a.reason>>
Created == "Recommendation Created"

UpdatesStem ==
  \A n \in DOMAIN inbox["alerts"] :
    \E m : Stems(inbox["alerts"][n].id, m, inbox["alerts"][n].status, inbox["alerts"][n].entry)
AlertsCalled ==
  \A n \in DOMAIN alertHistory :
    IF alertHistory[n].alert = Created THEN alertHistory[n].id \in seenRecs
    ELSE \E m : CalledAt(alertHistory[n], m)
CreatedOnce ==
  \A m, n \in DOMAIN alertHistory :
    alertHistory[m].alert = Created /\ alertHistory[n].alert = Created
      /\ alertHistory[m].id = alertHistory[n].id => m = n
EmittedLast ==
  /\ \A f \in DOMAIN lastEmitted : lastEmitted[f] \in Int
  /\ \A n \in DOMAIN alertHistory :
       /\ alertHistory[n].type = "alert" /\ alertHistory[n].at \in Int
       /\ MarkOf(alertHistory[n]) \in DOMAIN lastEmitted
       /\ alertHistory[n].at <= lastEmitted[MarkOf(alertHistory[n])]
AlertsInv ==
  IsSequence(alertHistory) /\ UpdatesStem /\ AlertsCalled /\ CreatedOnce /\ EmittedLast /\ AlertsCooled

(* A timeline shows one status at an entry.                                *)
LEMMA ShowsOne ==
  ASSUME NEW t, NEW m \in Int, NEW s1, NEW s2, Shows(t, m, s1), Shows(t, m, s2) PROVE s1 = s2
<1>1. PICK n1 \in 1 .. m : /\ t[n1].event \in StatusEvents
                           /\ NoneOf(StatusEvents, t, n1 + 1 .. m) /\ t[n1].next = Word(s1)
  BY DEF Shows
<1>2. PICK n2 \in 1 .. m : /\ t[n2].event \in StatusEvents
                           /\ NoneOf(StatusEvents, t, n2 + 1 .. m) /\ t[n2].next = Word(s2)
  BY DEF Shows
<1>3. ~(n1 < n2) /\ ~(n2 < n1)
  BY <1>1, <1>2 DEF NoneOf
<1>4. Word(s1) = Word(s2)
  BY <1>1, <1>2, <1>3
<1> QED
  BY <1>4 DEF Word

(* An entry stays where it is when the timeline grows, and the last one    *)
(* shows the status.                                                       *)
LEMMA StemsOn ==
  ASSUME NEW input, NEW id, NEW rec, Applies(input, id, rec)
  PROVE  /\ \A i, m, status, entry : Stems(i, m, status, entry) => Stems(i, m, status, entry)'
         /\ Stems(id, Len(rec.timeline), rec.status, rec.timeline[Len(rec.timeline)])'
<1>1. /\ recs' = With(recs, id, rec) /\ SoundRec(rec)
      /\ Extends(Timeline(id), rec.timeline, input.at) /\ Len(rec.timeline) \in Nat \ {0}
  BY DEF Applies
<1>2. id \in DOMAIN recs' /\ recs'[id] = rec
        /\ \A i \in DOMAIN recs : i \in DOMAIN recs' /\ (i # id => recs'[i] = recs[i])
  BY <1>1 DEF With
<1>3. /\ Len(Timeline(id)) \in Nat /\ DOMAIN rec.timeline = 1 .. Len(rec.timeline)
      /\ \A n \in 1 .. Len(Timeline(id)) : rec.timeline[n] = Timeline(id)[n]
      /\ Len(Timeline(id)) <= Len(rec.timeline)
  BY <1>1 DEF Extends
<1>4. ASSUME NEW i, NEW m, NEW status, NEW entry, Stems(i, m, status, entry)
      PROVE  Stems(i, m, status, entry)'
  <2>1. CASE i # id
    BY <1>2, <1>4, <2>1 DEF Stems
  <2>2. CASE i = id
    <3> DEFINE t == recs[id].timeline
               u == rec.timeline
    <3>1. id \in DOMAIN recs /\ m \in DOMAIN t /\ t[m] = entry /\ Shows(t, m, status)
      BY <1>4, <2>2 DEF Stems
    <3>2. Timeline(id) = t /\ DOMAIN t = 1 .. Len(t)
      BY <3>1, <1>1 DEF Timeline, Extends
    <3> HIDE DEF t, u
    <3>3. m \in 1 .. Len(t) /\ \A n \in 1 .. m : u[n] = t[n]
      BY <1>3, <3>1, <3>2 DEF u
    <3>4. m \in DOMAIN u /\ u[m] = entry
      BY <1>3, <3>1, <3>2, <3>3 DEF u
    <3>5. Shows(u, m, status)
      BY <3>1, <3>3 DEF Shows, NoneOf
    <3> QED
      BY <1>2, <2>2, <3>4, <3>5 DEF Stems, u
  <2> QED
    BY <2>1, <2>2
<1>5. Shows(rec.timeline, Len(rec.timeline), rec.status)
  BY <1>1, <1>3 DEF SoundRec, Tells, Shows
<1>6. Len(rec.timeline) \in DOMAIN rec.timeline
  BY <1>1, <1>3
<1>7. Stems(id, Len(rec.timeline), rec.status, rec.timeline[Len(rec.timeline)])'
  <2> SUFFICES ASSUME NEW n, n = Len(rec.timeline) PROVE Stems(id, n, rec.status, rec.timeline[n])'
    BY Zenon
  <2> QED
    BY <1>2, <1>5, <1>6 DEF Stems
<1> QED
  BY <1>4, <1>7

(* What is in a channel after a publication was there or is published.     *)
LEMMA FromWhere ==
  ASSUME BoxesTyped, NEW events, IsSequence(events), NEW from, Publish(events, from),
         from \in Downstream => inbox[from] # <<>>, NEW d \in Downstream
  PROVE  \A n \in DOMAIN inbox'[d] :
           \/ \E m \in DOMAIN inbox[d] : inbox'[d][n] = inbox[d][m]
           \/ \E m \in DOMAIN events : inbox'[d][n] = With(events[m], "ts", now)
<1> DEFINE out == Stamped(events)
           q == Queue(d, from)
           w == Wanted(out, Listening[d])
<1>1. inbox' = [e \in DOMAIN inbox |-> Offer(Queue(e, from), Wanted(out, Listening[e]))]
  BY PublishDoes
<1>2. d \in DOMAIN inbox /\ IsSequence(q) /\ Len(q) <= Buffer
  BY QueueTyped, DownWants
<1>3. IsSequence(out) /\ IsSequence(<<>>)
  BY Appended, SeqDef DEF Stamped, IsSequence
<1>4. IsSequence(w) /\ \A n \in DOMAIN w : \E m \in DOMAIN events : w[n] = With(events[m], "ts", now)
  <2>1. w = out \/ w = <<>>
    BY DEF Wanted
  <2>2. DOMAIN <<>> = {}
    OBVIOUS
  <2> QED
    BY <1>3, <2>1, <2>2 DEF Stamped
<1>5. \A n \in DOMAIN q : \E m \in DOMAIN inbox[d] : q[n] = inbox[d][m]
  <2>1. CASE d # from
    BY <2>1 DEF Queue
  <2>2. CASE d = from
    <3>1. IsSequence(inbox[d]) /\ inbox[d] # <<>>
      BY <2>2, DownWants DEF BoxesTyped
    <3> QED
      BY <2>2, <3>1, Tailed DEF Queue
  <2> QED
    BY <2>1, <2>2
<1>6. inbox'[d] = Offer(q, w)
  BY <1>1, <1>2
<1> HIDE DEF q, w
<1>7. \A n \in DOMAIN Offer(q, w) :
        \/ n \in DOMAIN q /\ Offer(q, w)[n] = q[n]
        \/ \E m \in DOMAIN w : Offer(q, w)[n] = w[m]
  BY <1>2, <1>4, Offered
<1> QED
  BY <1>4, <1>5, <1>6, <1>7


(* What an entry calls for is no creation.                                 *)
LEMMA EntryCalls ==
  ASSUME NEW entry PROVE \/ EntryAlert(entry) = <<>>
                         \/ \E x : EntryAlert(entry) = <<x>> /\ x # Created
<1>1. /\ \A x : x \in {"Confidence Increased", "Confidence Decreased"} => x # Created
      /\ \A x : x \in {"Exit Recommended", "Closed"} => x # Created
      /\ "Entry Zone Reached" # Created /\ "Status Changed" # Created
  BY DEF Created
<1> QED
  BY <1>1, Zenon DEF EntryAlert

(* The alerts of an update: a creation when it is the first, what its      *)
(* entry calls for, both outside of the cooldown.                          *)
LEMMA AlertsAre ==
  ASSUME NEW update
  PROVE  LET out == AlertsFor(update)
         IN /\ IsSequence(out)
            /\ \A n \in DOMAIN out :
                 /\ out[n].type = "alert" /\ out[n].id = update.id /\ out[n].status = update.status
                 /\ out[n].reason = update.entry.reason /\ out[n].at = update.entry.at
                 /\ ShouldEmit(update, out[n].alert)
                 /\ \/ out[n].alert = Created /\ update.id \notin seenRecs
                    \/ out[n].alert # Created /\ EntryAlert(update.entry) = <<out[n].alert>>
            /\ \A m, n \in DOMAIN out : out[m].alert = out[n].alert => m = n
<1> DEFINE Emitted(types) == IF types # <<>> /\ ShouldEmit(update, types[1]) THEN types ELSE <<>>
           created == Emitted(CreationAlert(update))
           changed == Emitted(EntryAlert(update.entry))
           emitted == created \o changed
           out == AlertsFor(update)
<1>1. \A a : IsSequence(<<a>>) /\ Len(<<a>>) = 1 /\ <<a>>[1] = a
  <2>1. ASSUME NEW a PROVE <<a>> \in Seq({<<a>>[n] : n \in DOMAIN <<a>>})
    OBVIOUS
  <2> QED
    BY <2>1 DEF IsSequence
<1>2. IsSequence(<<>>) /\ Len(<<>>) = 0
  BY DEF IsSequence
<1>3. \/ created = <<>>
      \/ created = <<Created>> /\ update.id \notin seenRecs /\ ShouldEmit(update, Created)
  <2>1. \/ CreationAlert(update) = <<>>
        \/ CreationAlert(update) = <<Created>> /\ update.id \notin seenRecs
    BY Zenon DEF CreationAlert, Created
  <2>2. CASE CreationAlert(update) = <<>>
    BY <2>2, Zenon
  <2>3. CASE CreationAlert(update) = <<Created>> /\ update.id \notin seenRecs
    BY <1>1, <2>3
  <2> QED
    BY <2>1, <2>2, <2>3
<1>4. \/ changed = <<>>
      \/ \E x : /\ changed = <<x>> /\ x # Created /\ EntryAlert(update.entry) = <<x>>
                /\ ShouldEmit(update, x)
  <2>1. CASE EntryAlert(update.entry) = <<>>
    BY <2>1, Zenon
  <2>2. CASE \E x : EntryAlert(update.entry) = <<x>> /\ x # Created
    BY <1>1, <2>2
  <2> QED
    BY <2>1, <2>2, EntryCalls
<1>5. out = [n \in DOMAIN emitted |->
        [type |-> "alert", id |-> update.id, alert |-> emitted[n],
         status |-> update.status, reason |-> update.entry.reason, at |-> update.entry.at]]
  BY DEF AlertsFor
<1> HIDE DEF created, changed
<1>6. IsSequence(created) /\ IsSequence(changed)
  BY <1>1, <1>2, <1>3, <1>4
<1>7. /\ DOMAIN emitted = 1 .. Len(created) + Len(changed)
      /\ Len(created) \in Nat /\ Len(changed) \in Nat
      /\ \A n \in 1 .. Len(created) : emitted[n] = created[n]
      /\ \A n \in 1 .. Len(changed) : emitted[Len(created) + n] = changed[n]
  <2>1. ASSUME NEW a, IsSequence(a), NEW b, IsSequence(b)
        PROVE  /\ DOMAIN (a \o b) = 1 .. Len(a) + Len(b)
               /\ Len(a) \in Nat /\ Len(b) \in Nat
               /\ \A n \in 1 .. Len(a) : (a \o b)[n] = a[n]
               /\ \A n \in 1 .. Len(b) : (a \o b)[Len(a) + n] = b[n]
    BY <2>1, Joined
  <2> QED
    BY <1>6, <2>1
<1> HIDE DEF emitted
<1>8. Len(created) \in {0, 1} /\ Len(changed) \in {0, 1}
  BY <1>1, <1>2, <1>3, <1>4
<1>9. \A n \in DOMAIN emitted : \/ n = 1 /\ Len(created) = 1 /\ emitted[n] = created[1]
                                \/ n = Len(created) + 1 /\ Len(changed) = 1 /\ emitted[n] = changed[1]
  BY <1>7, <1>8
<1>10. \A n \in DOMAIN emitted :
        /\ ShouldEmit(update, emitted[n])
        /\ \/ n = 1 /\ Len(created) = 1 /\ emitted[n] = Created /\ update.id \notin seenRecs
           \/ n = Len(created) + 1 /\ emitted[n] # Created /\ EntryAlert(update.entry) = <<emitted[n]>>
  BY <1>1, <1>2, <1>3, <1>4, <1>9
<1>11. \A m, n \in DOMAIN emitted : emitted[m] = emitted[n] => m = n
  BY <1>10
<1>12. IsSequence(out)
  BY <1>5, <1>7, SeqDef DEF IsSequence
<1>13. DOMAIN out = DOMAIN emitted /\ \A n \in DOMAIN out :
        /\ out[n].type = "alert" /\ out[n].id = update.id /\ out[n].status = update.status
        /\ out[n].reason = update.entry.reason /\ out[n].at = update.entry.at
        /\ out[n].alert = emitted[n]
  BY <1>5
<1> HIDE DEF out
<1> QED
  BY <1>10, <1>11, <1>12, <1>13 DEF out


(* A publication of a type that an engine does not want.                   *)
LEMMA Unwanted ==
  ASSUME BoxesTyped, NEW events, NEW type, AllTell(events, type), NEW from, Publish(events, from),
         from \in Downstream => inbox[from] # <<>>, NEW d \in Downstream, type \notin Wants[d]
  PROVE  inbox'[d] = Queue(d, from)
<1>1. \A n \in DOMAIN events : "type" \in DOMAIN events[n] /\ events[n].type \notin Listening[d]
  BY DownWants DEF AllTell, Tells1
<1> QED
  BY <1>1, Unheard

(* What the engines downstream of the updates, but the alerts, publish.    *)
Posts(d, events, type) ==
  /\ Waiting(d) /\ AllTell(events, type) /\ Publish(events, d)
  /\ recs' = recs /\ UNCHANGED alertVars /\ now' = now
Writes(d) == \E events : Posts(d, events, d) /\ docs' = docs
LEMMA OthersPublish ==
  ASSUME FlowTyped, \/ IntelligenceHandles \/ QualityHandles \/ FeedbackHandles \/ DeliveryHandles
  PROVE  \/ \E d \in {"intelligence", "quality", "feedback"} : Writes(d)
         \/ Posts("delivery", <<>>, "quality") /\ HandleDelivery(Next1("delivery"))
<1>0. {"intelligence", "quality", "feedback", "delivery"} \subseteq Downstream /\ BoxesTyped
  BY DEF Downstream, FlowTyped
<1>1. CASE IntelligenceHandles
  <2>1. /\ Waiting("intelligence") /\ now' = now /\ recs' = recs /\ UNCHANGED alertVars
        /\ Publish(DocumentUpdates(Next1("intelligence")), "intelligence") /\ docs' = docs
    BY <1>1 DEF IntelligenceHandles, worldVars, recVars, deliveryVars
  <2>2. Next1("intelligence").entry.at \in Int
    BY <1>0, <2>1, Taken DEF Wants, Timed
  <2>3. AllTell(DocumentUpdates(Next1("intelligence")), "intelligence")
    BY <2>2, DocumentTells
  <2>4. Posts("intelligence", DocumentUpdates(Next1("intelligence")), "intelligence")
    BY <2>1, <2>3 DEF Posts
  <2>5. Writes("intelligence")
    BY <2>1, <2>4, Zenon DEF Writes
  <2> QED
    BY <2>5
<1>2. CASE QualityHandles
  <2>1. /\ Waiting("quality") /\ now' = now /\ recs' = recs /\ UNCHANGED alertVars
        /\ Publish(QualityReports(Next1("quality"), now), "quality") /\ docs' = docs
    BY <1>2 DEF QualityHandles, worldVars, recVars, deliveryVars
  <2>2. Next1("quality").type \in Wants["quality"] /\ Timed(Next1("quality")) /\ now \in Int
    BY <1>0, <2>1, Taken DEF BoxesTyped
  <2>3. AllTell(QualityReports(Next1("quality"), now), "quality")
    BY <2>2, ReportsTell DEF FlowTyped
  <2>4. Posts("quality", QualityReports(Next1("quality"), now), "quality")
    BY <2>1, <2>3 DEF Posts
  <2>5. Writes("quality")
    BY <2>1, <2>4, Zenon DEF Writes
  <2> QED
    BY <2>5
<1>3. CASE FeedbackHandles
  <2>1. /\ Waiting("feedback") /\ now' = now /\ recs' = recs /\ UNCHANGED alertVars
        /\ Publish(Snapshots(Next1("feedback")), "feedback") /\ docs' = docs
    BY <1>3 DEF FeedbackHandles, worldVars, recVars, deliveryVars
  <2>2. Next1("feedback").at \in Int
    BY <1>0, <2>1, Taken DEF Wants, Timed
  <2>3. AllTell(Snapshots(Next1("feedback")), "feedback")
    BY <2>2, SnapshotTells
  <2>4. Posts("feedback", Snapshots(Next1("feedback")), "feedback")
    BY <2>1, <2>3 DEF Posts
  <2>5. Writes("feedback")
    BY <2>1, <2>4, Zenon DEF Writes
  <2> QED
    BY <2>5
<1>4. CASE DeliveryHandles
  <2>1. /\ Waiting("delivery") /\ Publish(<<>>, "delivery") /\ now' = now
        /\ recs' = recs /\ UNCHANGED alertVars /\ HandleDelivery(Next1("delivery"))
    BY <1>4 DEF DeliveryHandles, worldVars, recVars
  <2>2. Posts("delivery", <<>>, "quality")
    BY <2>1, NoneTell DEF Posts
  <2> QED
    BY <2>1, <2>2
<1> QED
  BY <1>1, <1>2, <1>3, <1>4

(* A step that leaves the recommendations, the alerts and their channel.   *)
LEMMA AlertsAside ==
  ASSUME AlertsInv, recs' = recs, UNCHANGED alertVars,
         \A n \in DOMAIN inbox'["alerts"] :
           \E m \in DOMAIN inbox["alerts"] : inbox'["alerts"][n] = inbox["alerts"][m]
  PROVE  AlertsInv'
<1>1. seenRecs' = seenRecs /\ lastEmitted' = lastEmitted /\ alertHistory' = alertHistory
  BY DEF alertVars
<1>2. UpdatesStem'
  BY DEF AlertsInv, UpdatesStem, Stems
<1>3. AlertsCalled'
  BY <1>1 DEF AlertsInv, AlertsCalled, CalledAt, Stems
<1> QED
  BY <1>1, <1>2, <1>3 DEF AlertsInv, CreatedOnce, EmittedLast, AlertsCooled, MarkOf

(* The state engine: the timelines grow, and its update carries the last   *)
(* entry.                                                                  *)
LEMMA StateAlerts ==
  ASSUME FlowTyped, AlertsInv, StateHandles PROVE AlertsInv'
<1> DEFINE e == Next1("state")
<1>1. ApplyValidated(e) /\ Publish(StateUpdates(e), "state") /\ Waiting("state")
        /\ UNCHANGED alertVars
  BY DEF StateHandles
<1>2. e.at \in Int /\ inbox["state"] # <<>> /\ "alerts" \in Downstream
  BY <1>1, Taken DEF FlowTyped, Downstream, Wants, Timed
<1>3. \/ recs' = recs /\ StateUpdates(e) = <<>>
      \/ \E id, rec : Applies(e, id, rec)
  BY <1>1, StateDoes DEF FlowTyped, RecsFit
<1> HIDE DEF e
<1>4. seenRecs' = seenRecs /\ lastEmitted' = lastEmitted /\ alertHistory' = alertHistory
  BY <1>1 DEF alertVars
<1>5. CASE recs' = recs /\ StateUpdates(e) = <<>>
  <2>1. IsSequence(<<>>) /\ DOMAIN <<>> = {}
    BY DEF IsSequence
  <2>2. \A n \in DOMAIN inbox'["alerts"] :
          \E m \in DOMAIN inbox["alerts"] : inbox'["alerts"][n] = inbox["alerts"][m]
    BY <1>1, <1>2, <1>5, <2>1, FromWhere DEF FlowTyped
  <2> QED
    BY <1>1, <1>5, <2>2, AlertsAside
<1>6. ASSUME NEW id, NEW rec, Applies(e, id, rec) PROVE AlertsInv'
  <2> DEFINE update == StateUpdate(id, rec)
             last == rec.timeline[Len(rec.timeline)]
  <2>1. StateUpdates(e) = <<update>>
    BY <1>6 DEF Applies
  <2>2. /\ \A i, m, status, entry : Stems(i, m, status, entry) => Stems(i, m, status, entry)'
        /\ Stems(id, Len(rec.timeline), rec.status, last)'
    BY <1>6, StemsOn
  <2>3. {"id", "status", "entry"} \subseteq DOMAIN update
          /\ update.id = id /\ update.status = rec.status /\ update.entry = last
    BY DEF StateUpdate
  <2> HIDE DEF update, last
  <2>4. IsSequence(<<update>>) /\ DOMAIN <<update>> = {1} /\ <<update>>[1] = update
    <3>1. <<update>> \in Seq({<<update>>[n] : n \in DOMAIN <<update>>})
      OBVIOUS
    <3> QED
      BY <3>1 DEF IsSequence
  <2>5. \A n \in DOMAIN inbox'["alerts"] :
          \/ \E m \in DOMAIN inbox["alerts"] : inbox'["alerts"][n] = inbox["alerts"][m]
          \/ inbox'["alerts"][n] = With(update, "ts", now)
    BY <1>1, <1>2, <2>1, <2>4, FromWhere DEF FlowTyped
  <2>6. LET w == With(update, "ts", now) IN w.id = id /\ w.status = rec.status /\ w.entry = last
    BY <2>3, StampKeeps
  <2>7. UpdatesStem'
    <3> SUFFICES ASSUME NEW n \in DOMAIN inbox'["alerts"], NEW x, x = inbox'["alerts"][n]
                 PROVE  \E m : Stems(x.id, m, x.status, x.entry)'
      BY DEF UpdatesStem, Stems
    <3>1. CASE \E m \in DOMAIN inbox["alerts"] : x = inbox["alerts"][m]
      BY <2>2, <3>1 DEF AlertsInv, UpdatesStem
    <3>2. CASE x = With(update, "ts", now)
      BY <2>2, <2>6, <3>2
    <3> QED
      BY <2>5, <3>1, <3>2
  <2>8. \A a, m : CalledAt(a, m) => CalledAt(a, m)'
    <3> SUFFICES ASSUME NEW a, NEW m, CalledAt(a, m) PROVE CalledAt(a, m)'
      OBVIOUS
    <3>1. PICK entry : /\ Stems(a.id, m, a.status, entry) /\ EntryAlert(entry) = <<a.alert>>
                       /\ entry.at = a.at /\ entry.reason = a.reason
      BY DEF CalledAt
    <3>2. Stems(a.id, m, a.status, entry)'
      BY <2>2, <3>1
    <3> QED
      BY <3>1, <3>2 DEF CalledAt
  <2>9. AlertsCalled'
    <3> SUFFICES ASSUME NEW n \in DOMAIN alertHistory, NEW a, a = alertHistory[n]
                 PROVE  IF a.alert = Created THEN a.id \in seenRecs ELSE \E m : CalledAt(a, m)'
      BY <1>4 DEF AlertsCalled, CalledAt, Stems
    <3> QED
      BY <2>8 DEF AlertsInv, AlertsCalled
  <2> QED
    BY <1>4, <2>7, <2>9 DEF AlertsInv, CreatedOnce, EmittedLast, AlertsCooled, MarkOf
<1> QED
  BY <1>3, <1>5, <1>6


(* The alert engine: what it emits is called for by the entry of an update *)
(* that is part of a timeline, and has not been emitted within a cooldown. *)
LEMMA AlertsHandled ==
  ASSUME FlowTyped, AlertsInv, AlertsHandle PROVE AlertsInv'
<1>1. PICK u : u = Next1("alerts")
  OBVIOUS
<1>2. PICK out : out = AlertsFor(u)
  OBVIOUS
<1>3. /\ Waiting("alerts") /\ Publish(out, "alerts") /\ recs' = recs
      /\ HandleAlertUpdate(u)
  BY <1>1, <1>2 DEF AlertsHandle, recVars
<1>4. /\ "alerts" \in Downstream /\ inbox["alerts"] # <<>> /\ IsSequence(inbox["alerts"])
      /\ u.entry.at \in Int /\ 1 \in DOMAIN inbox["alerts"] /\ u = inbox["alerts"][1]
  BY <1>1, <1>3, Taken DEF FlowTyped, Downstream, Wants, Timed
<1>5. inbox'["alerts"] = Tail(inbox["alerts"])
  <2>1. AllTell(out, "alert") /\ "alert" \notin Wants["alerts"]
    BY <1>2, <1>4, AlertsTell DEF Wants
  <2>2. inbox'["alerts"] = Queue("alerts", "alerts")
    BY <1>3, <1>4, <2>1, Unwanted DEF FlowTyped
  <2> QED
    BY <2>2 DEF Queue
<1>6. /\ IsSequence(out)
      /\ \A n \in DOMAIN out :
           /\ out[n].type = "alert" /\ out[n].id = u.id /\ out[n].status = u.status
           /\ out[n].reason = u.entry.reason /\ out[n].at = u.entry.at
           /\ ShouldEmit(u, out[n].alert)
           /\ \/ out[n].alert = Created /\ u.id \notin seenRecs
              \/ out[n].alert # Created /\ EntryAlert(u.entry) = <<out[n].alert>>
      /\ \A m, n \in DOMAIN out : out[m].alert = out[n].alert => m = n
  BY <1>2, AlertsAre
<1>7. PICK marks : marks = {MarkOf(out[n]) : n \in DOMAIN out}
  OBVIOUS
<1>8. /\ seenRecs' = seenRecs \union {u.id} /\ alertHistory' = alertHistory \o out
      /\ lastEmitted' = [f \in DOMAIN lastEmitted \union marks |->
                          IF f \in marks THEN u.entry.at ELSE lastEmitted[f]]
  <2>1. \A n \in DOMAIN out : Fingerprint(u, out[n].alert) = MarkOf(out[n])
    BY <1>6 DEF Fingerprint, MarkOf
  <2>2. {Fingerprint(u, out[n].alert) : n \in DOMAIN out} = marks
    BY <1>7, <2>1
  <2> QED
    BY <1>2, <1>3, <2>2 DEF HandleAlertUpdate
<1>9. PICK k : k = Len(alertHistory)
  OBVIOUS
<1>10. /\ k \in Nat /\ Len(out) \in Nat /\ IsSequence(alertHistory')
       /\ DOMAIN alertHistory = 1 .. k /\ DOMAIN out = 1 .. Len(out)
       /\ DOMAIN alertHistory' = 1 .. k + Len(out)
       /\ \A n \in 1 .. k : alertHistory'[n] = alertHistory[n]
       /\ \A n \in 1 .. Len(out) : alertHistory'[k + n] = out[n]
  <2>1. IsSequence(alertHistory) /\ IsSequence(out)
    BY <1>6 DEF AlertsInv
  <2>2. PICK s : s = alertHistory
    OBVIOUS
  <2>3. PICK h : h = s \o out
    OBVIOUS
  <2>4. IsSequence(s)
    BY <2>1, <2>2
  <2>5. /\ IsSequence(h) /\ Len(s) \in Nat /\ Len(out) \in Nat
        /\ DOMAIN s = 1 .. Len(s) /\ DOMAIN out = 1 .. Len(out)
        /\ DOMAIN h = 1 .. Len(s) + Len(out)
    BY <1>6, <2>3, <2>4, Joined
  <2>6. /\ \A n \in 1 .. Len(s) : h[n] = s[n]
        /\ \A n \in 1 .. Len(out) : h[Len(s) + n] = out[n]
    BY <1>6, <2>3, <2>4, Joined
  <2>7. alertHistory' = h
    BY <1>8, <2>2, <2>3
  <2> QED
    BY <1>9, <2>2, <2>5, <2>6, <2>7
<1>11. \A n \in DOMAIN alertHistory' :
         \/ n \in DOMAIN alertHistory /\ alertHistory'[n] = alertHistory[n]
         \/ n > k /\ n - k \in DOMAIN out /\ alertHistory'[n] = out[n - k]
  <2> SUFFICES ASSUME NEW n \in 1 .. k + Len(out), n > k
               PROVE  n - k \in DOMAIN out /\ alertHistory'[n] = out[n - k]
    BY <1>10
  <2>1. n - k \in 1 .. Len(out) /\ k + (n - k) = n
    BY <1>10
  <2> QED
    BY <1>10, <2>1
<1>12. UpdatesStem'
  <2> SUFFICES ASSUME NEW n \in DOMAIN inbox'["alerts"], NEW x, x = inbox'["alerts"][n]
               PROVE  \E m : Stems(x.id, m, x.status, x.entry)
    BY <1>3 DEF UpdatesStem, Stems
  <2>1. n + 1 \in DOMAIN inbox["alerts"] /\ x = inbox["alerts"][n + 1]
    BY <1>4, <1>5, Tailed
  <2> QED
    BY <2>1 DEF AlertsInv, UpdatesStem
<1>13. PICK e : Stems(u.id, e, u.status, u.entry)
  BY <1>4 DEF AlertsInv, UpdatesStem
<1>14. \A n \in DOMAIN out : out[n].alert # Created => CalledAt(out[n], e)
  BY <1>6, <1>13 DEF CalledAt
<1>15. AlertsCalled'
  <2> SUFFICES ASSUME NEW n \in DOMAIN alertHistory', NEW a, a = alertHistory'[n]
               PROVE  IF a.alert = Created THEN a.id \in seenRecs' ELSE \E m : CalledAt(a, m)
    BY <1>3 DEF AlertsCalled, CalledAt, Stems
  <2>1. CASE n \in DOMAIN alertHistory /\ a = alertHistory[n]
    BY <1>8, <2>1 DEF AlertsInv, AlertsCalled
  <2>2. CASE n - k \in DOMAIN out /\ a = out[n - k]
    BY <1>6, <1>8, <1>14, <2>2
  <2> QED
    BY <1>11, <2>1, <2>2
<1>16. CreatedOnce'
  <2> SUFFICES ASSUME NEW m \in DOMAIN alertHistory', NEW n \in DOMAIN alertHistory',
                      alertHistory'[m].alert = Created, alertHistory'[n].alert = Created,
                      alertHistory'[m].id = alertHistory'[n].id
               PROVE  m = n
    BY DEF CreatedOnce
  <2>1. \A i \in DOMAIN alertHistory : alertHistory[i].alert = Created => alertHistory[i].id \in seenRecs
    BY DEF AlertsInv, AlertsCalled
  <2>2. \A i \in DOMAIN out : out[i].alert = Created => out[i].id \notin seenRecs
    BY <1>6
  <2>3. CASE m \in DOMAIN alertHistory /\ alertHistory'[m] = alertHistory[m]
    BY <1>11, <2>1, <2>2, <2>3 DEF AlertsInv, CreatedOnce
  <2>4. CASE m - k \in DOMAIN out /\ alertHistory'[m] = out[m - k] /\ m > k
    <3>1. n - k \in DOMAIN out /\ alertHistory'[n] = out[n - k] /\ n > k
      BY <1>11, <2>1, <2>2, <2>4
    <3>2. m - k = n - k
      BY <1>6, <2>4, <3>1
    <3> QED
      BY <1>10, <3>2
  <2> QED
    BY <1>11, <2>3, <2>4
<1>17. ASSUME NEW i \in DOMAIN out
       PROVE  /\ MarkOf(out[i]) \in marks /\ out[i].at \in Int
              /\ MarkOf(out[i]) \in DOMAIN lastEmitted =>
                   out[i].at - lastEmitted[MarkOf(out[i])] >= Cooldown
  <2>1. Fingerprint(u, out[i].alert) = MarkOf(out[i])
    BY <1>6 DEF Fingerprint, MarkOf
  <2> QED
    BY <1>4, <1>6, <1>7, <2>1 DEF ShouldEmit
<1>18. Cooldown \in Nat \ {0}
  BY AlertConfig
<1>19. EmittedLast'
  <2>1. \A f \in DOMAIN lastEmitted' : lastEmitted'[f] \in Int
    BY <1>4, <1>8 DEF AlertsInv, EmittedLast
  <2>2. ASSUME NEW n \in DOMAIN alertHistory', NEW a, a = alertHistory'[n]
        PROVE  /\ a.type = "alert" /\ a.at \in Int
               /\ MarkOf(a) \in DOMAIN lastEmitted' /\ a.at <= lastEmitted'[MarkOf(a)]
    <3>1. CASE n \in DOMAIN alertHistory /\ a = alertHistory[n]
      <4>1. /\ a.type = "alert" /\ a.at \in Int /\ MarkOf(a) \in DOMAIN lastEmitted
            /\ a.at <= lastEmitted[MarkOf(a)] /\ lastEmitted[MarkOf(a)] \in Int
        BY <3>1 DEF AlertsInv, EmittedLast
      <4>2. CASE MarkOf(a) \in marks
        <5>1. PICK i \in DOMAIN out : MarkOf(a) = MarkOf(out[i])
          BY <1>7, <4>2
        <5>2. u.entry.at - lastEmitted[MarkOf(a)] >= Cooldown
          BY <1>6, <1>17, <4>1, <5>1
        <5>3. u.entry.at >= a.at
          BY <1>4, <1>18, <4>1, <5>2
        <5> QED
          BY <1>8, <4>1, <4>2, <5>3
      <4>3. CASE MarkOf(a) \notin marks
        BY <1>8, <4>1, <4>3
      <4> QED
        BY <4>2, <4>3
    <3>2. CASE n - k \in DOMAIN out /\ a = out[n - k]
      <4>1. a.type = "alert" /\ a.at = u.entry.at /\ MarkOf(a) \in marks
        BY <1>6, <1>17, <3>2
      <4> QED
        BY <1>4, <1>8, <4>1
    <3> QED
      BY <1>11, <2>2, <3>1, <3>2
  <2> QED
    BY <2>1, <2>2 DEF EmittedLast, MarkOf
<1>20. AlertsCooled'
  <2> SUFFICES ASSUME NEW m \in DOMAIN alertHistory', NEW n \in DOMAIN alertHistory', m < n,
                      NEW a, a = alertHistory'[m], NEW b, b = alertHistory'[n],
                      MarkOf(a) = MarkOf(b)
               PROVE  b.at - a.at >= Cooldown
    BY DEF AlertsCooled, MarkOf
  <2>1. CASE m \in DOMAIN alertHistory /\ n \in DOMAIN alertHistory
    BY <1>10, <2>1 DEF AlertsInv, AlertsCooled, MarkOf
  <2>2. CASE m \in DOMAIN alertHistory /\ n - k \in DOMAIN out /\ b = out[n - k]
    <3>1. /\ a = alertHistory[m] /\ a.at \in Int /\ MarkOf(a) \in DOMAIN lastEmitted
          /\ a.at <= lastEmitted[MarkOf(a)] /\ lastEmitted[MarkOf(a)] \in Int
      BY <1>10, <2>2 DEF AlertsInv, EmittedLast
    <3>2. b.at \in Int /\ b.at - lastEmitted[MarkOf(a)] >= Cooldown
      BY <1>17, <2>2, <3>1
    <3> QED
      BY <1>18, <3>1, <3>2
  <2>3. CASE m - k \in DOMAIN out /\ a = out[m - k] /\ n - k \in DOMAIN out /\ b = out[n - k]
    <3>1. a.alert = b.alert
      BY DEF MarkOf
    <3>2. m - k = n - k
      BY <1>6, <2>3, <3>1
    <3> QED
      BY <1>10, <3>2
  <2> QED
    BY <1>10, <1>11, <2>1, <2>2, <2>3
<1> QED
  BY <1>10, <1>12, <1>15, <1>16, <1>19, <1>20 DEF AlertsInv


-----------------------------------------------------------------------------
(***************************************************************************)
(* The count of alerts. While nothing is lost, what has been emitted about *)
(* a recommendation is in its document or on the way to it.                *)
(***************************************************************************)
IsAbout(v, i) == v.type = "alert" /\ v.id = i
About(q, i) == Cardinality({n \in DOMAIN q : IsAbout(q[n], i)})
DocAlerts(i) == IF i \in DOMAIN docs THEN docs[i].alerts ELSE 0

CountsAlerts(doc) == "alerts" \in DOMAIN doc /\ doc.alerts \in Nat
CountInv ==
  /\ \A i \in DOMAIN docs : CountsAlerts(docs[i])
  /\ "delivery" \notin enabled => inbox["delivery"] = <<>> /\ DOMAIN docs = {}
  /\ "delivery" \in enabled /\ ~lost =>
       \A i : DocAlerts(i) + About(inbox["delivery"], i) = About(alertHistory, i)

(* What a sequence counts is what its two parts count.                     *)
Parts(u, s, t, k, l) ==
  /\ k \in Nat /\ l \in Nat
  /\ DOMAIN s = 1 .. k /\ DOMAIN t = 1 .. l /\ DOMAIN u = 1 .. k + l
  /\ \A n \in 1 .. k : u[n] = s[n]
  /\ \A n \in 1 .. l : u[k + n] = t[n]
LEMMA AboutParts ==
  ASSUME NEW k, NEW l, NEW s, NEW t, NEW u, NEW i, Parts(u, s, t, k, l)
  PROVE  About(s, i) \in Nat /\ About(t, i) \in Nat /\ About(u, i) = About(s, i) + About(t, i)
<1> DEFINE S == {n \in 1 .. k : IsAbout(s[n], i)}
           T == {n \in 1 .. l : IsAbout(t[n], i)}
           U == {n \in 1 .. k + l : IsAbout(u[n], i)}
           V == {n \in k + 1 .. k + l : IsAbout(u[n], i)}
<1>0. k \in Nat /\ l \in Nat
  BY DEF Parts
<1>1. About(s, i) = Cardinality(S) /\ About(t, i) = Cardinality(T) /\ About(u, i) = Cardinality(U)
  BY DEF About, Parts
<1>2. IsFiniteSet(S) /\ IsFiniteSet(T) /\ IsFiniteSet(V)
  <2>1. IsFiniteSet(1 .. k) /\ IsFiniteSet(1 .. l) /\ IsFiniteSet(k + 1 .. k + l)
    BY <1>0, FS_Interval
  <2>2. S \in SUBSET (1 .. k) /\ T \in SUBSET (1 .. l) /\ V \in SUBSET (k + 1 .. k + l)
    OBVIOUS
  <2> QED
    BY <2>1, <2>2, FS_Subset
<1>3. Cardinality(V) = Cardinality(T)
  <2> DEFINE f == [n \in T |-> k + n]
  <2>1. f \in Bijection(T, V)
    <3>1. f \in [T -> V]
      BY <1>0 DEF Parts
    <3>2. \A m, n \in T : f[m] = f[n] => m = n
      BY <1>0
    <3>3. ASSUME NEW n \in V PROVE \E m \in T : f[m] = n
      <4>1. n - k \in 1 .. l /\ k + (n - k) = n
        BY <1>0
      <4>2. n - k \in T
        BY <4>1 DEF Parts
      <4> QED
        BY <4>1, <4>2
    <3> QED
      BY <3>1, <3>2, <3>3 DEF Bijection, Injection, Surjection, IsInjective
  <2>2. ExistsBijection(T, V)
    BY <2>1 DEF ExistsBijection
  <2> QED
    BY <1>2, <2>2, FS_Bijection
<1>4. U = S \union V /\ S \intersect V = {}
  BY <1>0 DEF Parts
<1> HIDE DEF S, T, U, V
<1>5. Cardinality(U) = Cardinality(S) + Cardinality(V) - Cardinality({})
  BY <1>2, <1>4, FS_Union
<1>6. Cardinality(S) \in Nat /\ Cardinality(T) \in Nat /\ Cardinality({}) = 0
  BY <1>2, FS_CardinalityType, FS_EmptySet
<1> QED
  BY <1>1, <1>3, <1>5, <1>6

(* Of two sequences in one.                                                *)
LEMMA AboutJoined ==
  ASSUME NEW s, IsSequence(s), NEW t, IsSequence(t), NEW i
  PROVE  About(s, i) \in Nat /\ About(t, i) \in Nat /\ About(s \o t, i) = About(s, i) + About(t, i)
<1>1. PICK u : u = s \o t
  OBVIOUS
<1>2. /\ Len(s) \in Nat /\ Len(t) \in Nat
      /\ DOMAIN s = 1 .. Len(s) /\ DOMAIN t = 1 .. Len(t) /\ DOMAIN u = 1 .. Len(s) + Len(t)
      /\ \A n \in 1 .. Len(s) : u[n] = s[n]
      /\ \A n \in 1 .. Len(t) : u[Len(s) + n] = t[n]
  BY <1>1, Joined
<1>3. About(s, i) \in Nat /\ About(t, i) \in Nat /\ About(u, i) = About(s, i) + About(t, i)
  <2>1. Parts(u, s, t, Len(s), Len(t))
    BY <1>2 DEF Parts
  <2> QED
    BY <2>1, AboutParts
<1> QED
  BY <1>1, <1>3

(* Of the event that an engine took, and of the rest.                      *)
LEMMA AboutTail ==
  ASSUME NEW q, IsSequence(q), q # <<>>, NEW i
  PROVE  /\ About(q, i) \in Nat /\ About(Tail(q), i) \in Nat
         /\ About(q, i) = About(Tail(q), i) + IF IsAbout(q[1], i) THEN 1 ELSE 0
<1> DEFINE one == <<q[1]>>
<1>1. PICK l : l = Len(q) - 1
  OBVIOUS
<1>2. /\ l \in Nat /\ DOMAIN q = 1 .. 1 + l /\ DOMAIN Tail(q) = 1 .. l
      /\ \A n \in 1 .. l : q[1 + n] = Tail(q)[n]
  BY <1>1, Tailed
<1>3. DOMAIN one = 1 .. 1 /\ one[1] = q[1] /\ \A n \in 1 .. 1 : q[n] = one[n]
  OBVIOUS
<1> HIDE DEF one
<1>4. About(one, i) \in Nat /\ About(Tail(q), i) \in Nat
        /\ About(q, i) = About(one, i) + About(Tail(q), i)
  <2>1. Parts(q, one, Tail(q), 1, l)
    BY <1>2, <1>3 DEF Parts
  <2> QED
    BY <2>1, AboutParts
<1>5. About(one, i) = IF IsAbout(q[1], i) THEN 1 ELSE 0
  <2> DEFINE S == {n \in DOMAIN one : IsAbout(one[n], i)}
  <2>1. S = IF IsAbout(q[1], i) THEN {1} ELSE {}
    BY <1>3
  <2>2. Cardinality(S) = IF IsAbout(q[1], i) THEN 1 ELSE 0
    BY <2>1, FS_Singleton, FS_EmptySet
  <2> QED
    BY <2>2 DEF About
<1> QED
  BY <1>4, <1>5

(* A sequence with no alert counts none.                                   *)
LEMMA AboutNone ==
  ASSUME NEW q, NEW i, \A n \in DOMAIN q : q[n].type # "alert" PROVE About(q, i) = 0
<1>1. {n \in DOMAIN q : IsAbout(q[n], i)} = {}
  BY DEF IsAbout
<1> QED
  BY <1>1, FS_EmptySet DEF About

(* While nothing is lost, a channel takes all that is wanted.              *)
LEMMA KeptAll ==
  ASSUME BoxesTyped, NEW events, IsSequence(events), NEW from, Publish(events, from),
         from \in Downstream => inbox[from] # <<>>, NEW d \in Downstream, ~lost'
  PROVE  ~lost /\ inbox'[d] = Queue(d, from) \o Wanted(Stamped(events), Listening[d])
<1> DEFINE q == Queue(d, from)
           w == Wanted(Stamped(events), Listening[d])
<1>1. /\ inbox' = [e \in DOMAIN inbox |->
                    Offer(Queue(e, from), Wanted(Stamped(events), Listening[e]))]
      /\ lost' = (lost \/ \E e \in DOMAIN inbox :
           Len(Queue(e, from)) + Len(Wanted(Stamped(events), Listening[e])) > Buffer)
  BY PublishDoes
<1>2. d \in DOMAIN inbox /\ IsSequence(q)
  BY QueueTyped, DownWants
<1>3. IsSequence(Stamped(events)) /\ IsSequence(<<>>)
  BY Appended, SeqDef DEF Stamped, IsSequence
<1>4. IsSequence(w)
  BY <1>3 DEF Wanted
<1>5. ~lost /\ ~(Len(q) + Len(w) > Buffer) /\ inbox'[d] = Offer(q, w)
  BY <1>1, <1>2, Zenon
<1> HIDE DEF q, w
<1>6. IsSequence(q \o w) /\ Len(q \o w) = Len(q) + Len(w)
  BY <1>2, <1>4, Joined
<1>7. SubSeq(q \o w, 1, Len(q \o w)) = q \o w
  BY <1>6, SubSeqFull DEF IsSequence
<1>8. Offer(q, w) = SubSeq(q \o w, 1, Len(q) + Len(w))
  BY <1>5, Zenon DEF Offer
<1> QED
  BY <1>5, <1>6, <1>7, <1>8 DEF q, w

(* What delivery hears of alerts.                                          *)
LEMMA DeliveryHears ==
  ASSUME BoxesTyped, NEW events, NEW type, AllTell(events, type), NEW from, Publish(events, from),
         from \in Downstream => inbox[from] # <<>>, ~lost', "delivery" \in enabled,
         type = "alert" => \A n \in DOMAIN events : "id" \in DOMAIN events[n], NEW i
  PROVE  /\ ~lost
         /\ About(inbox'["delivery"], i)
              = About(Queue("delivery", from), i) + IF type = "alert" THEN About(events, i) ELSE 0
         /\ About(Queue("delivery", from), i) \in Nat
<1> DEFINE q == Queue("delivery", from)
           w == Wanted(Stamped(events), Listening["delivery"])
<1>1. "delivery" \in Downstream /\ "delivery" \in Engines
  BY DEF Downstream, Engines
<1>2. ~lost /\ inbox'["delivery"] = q \o w
  BY <1>1, KeptAll DEF AllTell
<1>3. IsSequence(q)
  BY <1>1, QueueTyped
<1>4. /\ IsSequence(events) /\ \A n \in DOMAIN events :
           "type" \in DOMAIN events[n] /\ events[n].type = type
  BY DEF AllTell, Tells1
<1>5. /\ DOMAIN Stamped(events) = DOMAIN events /\ IsSequence(Stamped(events))
      /\ \A n \in DOMAIN events : Stamped(events)[n] = With(events[n], "ts", now)
  BY <1>4, Appended, SeqDef DEF Stamped, IsSequence
<1>6. \A n \in DOMAIN events : Stamped(events)[n].type = type
  BY <1>4, <1>5, StampKeeps
<1>7. IsSequence(<<>>) /\ DOMAIN <<>> = {}
  BY DEF IsSequence
<1>8. IsSequence(w) /\ (w = <<>> \/ w = Stamped(events))
  BY <1>5, <1>7 DEF Wanted
<1>9. CASE type # "alert"
  <2>1. \A n \in DOMAIN w : w[n].type # "alert"
    BY <1>5, <1>6, <1>7, <1>8, <1>9
  <2> HIDE DEF w, q
  <2>2. About(w, i) = 0
    BY <2>1, AboutNone
  <2> QED
    BY <1>2, <1>3, <1>8, <1>9, <2>2, AboutJoined DEF q
<1>10. CASE type = "alert"
  <2>1. \A n \in DOMAIN events : Stamped(events)[n].id = events[n].id
    BY <1>5, <1>10, StampKeeps
  <2>2. \A n \in DOMAIN events : IsAbout(Stamped(events)[n], i) <=> IsAbout(events[n], i)
    BY <1>4, <1>6, <2>1 DEF IsAbout
  <2>3. About(Stamped(events), i) = About(events, i)
    <3>1. {n \in DOMAIN Stamped(events) : IsAbout(Stamped(events)[n], i)}
            = {n \in DOMAIN events : IsAbout(events[n], i)}
      BY <1>5, <2>2
    <3> QED
      BY <3>1 DEF About
  <2>4. w = Stamped(events)
    <3>1. "alert" \in Listening["delivery"]
      BY <1>1 DEF Listening, Wants
    <3>2. CASE \E n \in DOMAIN events : TRUE
      BY <1>5, <1>6, <1>10, <3>1, <3>2 DEF Wanted
    <3>3. CASE ~ \E n \in DOMAIN events : TRUE
      <4>1. DOMAIN Stamped(events) = {}
        BY <1>5, <3>3
      <4>2. Stamped(events) = <<>>
        BY <1>5, <4>1, Appended, EmptySeq DEF IsSequence
      <4> QED
        BY <4>1, <4>2 DEF Wanted
    <3> QED
      BY <3>2, <3>3
  <2> HIDE DEF w, q
  <2> QED
    BY <1>2, <1>3, <1>8, <1>10, <2>3, <2>4, AboutJoined DEF q
<1> QED
  BY <1>9, <1>10


(* An alert adds one to its document's count, and nothing else changes it. *)
LEMMA PatchedCounts ==
  ASSUME \A i \in DOMAIN docs : CountsAlerts(docs[i]), NEW e, e.type \in Wants["delivery"], NEW id
  PROVE  /\ CountsAlerts(Patched(id, e)) /\ DocAlerts(id) \in Nat
         /\ Patched(id, e).alerts = DocAlerts(id) + IF e.type = "alert" THEN 1 ELSE 0
<1> DEFINE doc == IF id \in DOMAIN docs THEN docs[id] ELSE NewDoc
           keyed == Keyed(doc, e.key)
           Same(d) == "alerts" \in DOMAIN d /\ d.alerts = doc.alerts
<1>1. "alerts" \in DOMAIN NewDoc /\ NewDoc.alerts = 0
  BY DEF NewDoc
<1>2. CountsAlerts(doc) /\ doc.alerts = DocAlerts(id)
  BY <1>1 DEF CountsAlerts, DocAlerts
<1>3. Patched(id, e) =
        CASE e.type = "state" -> WithState(doc, e)
          [] e.type = "intelligence" -> WithIntelligence(doc, e)
          [] e.type = "quality" -> WithQuality(doc, e)
          [] e.type = "feedback" -> WithFeedback(doc, e)
          [] OTHER -> WithAlert(doc, e)
  BY Zenon DEF Patched
<1>4. e.type \in {"state", "intelligence", "quality", "feedback", "alert"}
  BY DEF Wants
<1> HIDE DEF doc
<1>5. Same(keyed)
  BY <1>2 DEF Keyed, CountsAlerts
<1>6. Same(WithState(doc, e))
  <2>1. WithState(doc, e) =
          [keyed EXCEPT
             !.createdAt = IF @ = NoTime THEN e.entry.at ELSE @,
             !.status = e.status, !.confidence = e.confidence, !.updatedAt = e.entry.at,
             !.closedAt = IF e.status = "CLOSED" THEN e.entry.at ELSE @,
             !.timeline = Merged(@, e.entry)]
    BY Zenon DEF WithState
  <2> HIDE DEF keyed
  <2> QED
    BY <1>5, <2>1
<1>7. Same(WithIntelligence(doc, e))
  <2> HIDE DEF keyed
  <2>1. WithIntelligence(doc, e) =
          [keyed EXCEPT !.level = e.level, !.status = e.status,
                        !.confidence = e.confidence, !.updatedAt = e.at]
    BY Zenon DEF WithIntelligence, keyed
  <2> QED
    BY <1>5, <2>1
<1>8. Same(WithQuality(doc, e))
  <2> DEFINE enters == e.entry > 0 /\ ~doc.hadEntry
             entry == Event("Entry Triggered", e.at, <<"number", e.entry>>)
             entered == IF enters THEN Merged(doc.timeline, entry) ELSE doc.timeline
             told == Event("Quality Evaluated", e.at, <<e.outcome, 0>>)
  <2>1. WithQuality(doc, e) =
          [keyed EXCEPT
             !.level = e.level, !.status = e.status, !.updatedAt = e.at,
             !.confidence = IF e.confidence > 0 THEN e.confidence ELSE @,
             !.hadEntry = @ \/ enters, !.completed = e.completed,
             !.timeline = Merged(entered, told)]
    BY Zenon DEF WithQuality
  <2> HIDE DEF keyed, enters, entry, entered, told
  <2> QED
    BY <1>5, <2>1
<1>9. Same(WithFeedback(doc, e))
  <2> DEFINE told == Event("Feedback Updated", e.at, <<"", 0>>)
  <2>1. WithFeedback(doc, e) =
          [doc EXCEPT !.updatedAt = e.at, !.feedback = TRUE,
             !.timeline = IF doc.feedback THEN @ ELSE Merged(@, told)]
    BY Zenon DEF WithFeedback
  <2> HIDE DEF told
  <2> QED
    BY <1>2, <2>1 DEF CountsAlerts
<1>10. "alerts" \in DOMAIN WithAlert(doc, e) /\ WithAlert(doc, e).alerts = doc.alerts + 1
  <2> DEFINE told == [Event("Alert Generated", e.at, <<e.alert, 0>>) EXCEPT !.reason = e.reason]
  <2>1. WithAlert(doc, e) =
          [doc EXCEPT !.alerts = @ + 1, !.updatedAt = e.at, !.timeline = Merged(@, told)]
    BY Zenon DEF WithAlert
  <2> HIDE DEF told
  <2> QED
    BY <1>2, <2>1 DEF CountsAlerts
<1> HIDE DEF keyed
<1>11. CASE e.type = "alert"
  <2>1. Patched(id, e) = WithAlert(doc, e)
    BY <1>3, <1>11
  <2> QED
    BY <1>2, <1>10, <1>11, <2>1 DEF CountsAlerts
<1>12. CASE e.type # "alert"
  <2>1. Same(Patched(id, e))
    BY <1>3, <1>4, <1>6, <1>7, <1>8, <1>9, <1>12
  <2> QED
    BY <1>2, <1>12, <2>1 DEF CountsAlerts
<1> QED
  BY <1>11, <1>12

(* So it is with all the documents that an event patches.                  *)
LEMMA DocsCounted ==
  ASSUME \A i \in DOMAIN docs : CountsAlerts(docs[i]), NEW e, e.type \in Wants["delivery"],
         docs' = PatchedDocs(e)
  PROVE  /\ \A i \in DOMAIN docs' : CountsAlerts(docs'[i])
         /\ \A i : /\ DocAlerts(i) \in Nat
                   /\ DocAlerts(i)' = DocAlerts(i) + IF IsAbout(e, i) THEN 1 ELSE 0
<1>1. \A i : /\ CountsAlerts(Patched(i, e)) /\ DocAlerts(i) \in Nat
             /\ Patched(i, e).alerts = DocAlerts(i) + IF e.type = "alert" THEN 1 ELSE 0
  BY PatchedCounts
<1>2. /\ DOMAIN docs' = DOMAIN docs \union Touched(e)
      /\ \A i \in DOMAIN docs' : docs'[i] = IF i \in Touched(e) THEN Patched(i, e) ELSE docs[i]
  BY DEF PatchedDocs
<1>3. \A i \in DOMAIN docs' : CountsAlerts(docs'[i])
  BY <1>1, <1>2
<1>4. Touched(e) = IF e.type = "feedback" THEN DOMAIN docs ELSE {e.id}
  BY DEF Touched
<1>5. ASSUME NEW i PROVE DocAlerts(i)' = DocAlerts(i) + IF IsAbout(e, i) THEN 1 ELSE 0
  <2> SUFFICES ASSUME NEW n, n = (IF i \in DOMAIN docs' THEN docs'[i].alerts ELSE 0)
               PROVE  n = DocAlerts(i) + IF IsAbout(e, i) THEN 1 ELSE 0
    BY DEF DocAlerts
  <2>1. CASE i \in Touched(e)
    <3>1. n = DocAlerts(i) + IF e.type = "alert" THEN 1 ELSE 0
      BY <1>1, <1>2, <2>1
    <3>2. IsAbout(e, i) <=> e.type = "alert"
      BY <1>4, <2>1 DEF IsAbout
    <3> QED
      BY <3>1, <3>2
  <2>2. CASE i \notin Touched(e)
    <3>1. ~IsAbout(e, i)
      BY <1>4, <2>2 DEF IsAbout
    <3>2. n = DocAlerts(i)
      BY <1>2, <2>2 DEF DocAlerts
    <3> QED
      BY <1>1, <3>1, <3>2
  <2> QED
    BY <2>1, <2>2
<1> QED
  BY <1>1, <1>3, <1>5

(* What is published that is no alert, by another than delivery.           *)
LEMMA CountAside ==
  ASSUME BoxesTyped, CountInv, docs' = docs, alertHistory' = alertHistory,
         NEW events, NEW type, type # "alert", AllTell(events, type),
         NEW from, from # "delivery", from \in Downstream => inbox[from] # <<>>,
         Publish(events, from)
  PROVE  CountInv'
<1>1. "delivery" \in Downstream /\ "delivery" \in Engines
  BY DEF Downstream, Engines
<1>2. enabled' = enabled
  BY PublishDoes
<1>3. Queue("delivery", from) = inbox["delivery"]
  BY DEF Queue
<1>4. CASE "delivery" \notin enabled
  <2>1. Listening["delivery"] = {}
    BY <1>1, <1>4 DEF Listening
  <2>2. inbox'["delivery"] = inbox["delivery"]
    BY <1>1, <1>3, <2>1, Unheard DEF AllTell, Tells1
  <2> QED
    BY <1>2, <1>4, <2>2 DEF CountInv
<1>5. CASE "delivery" \in enabled
  <2>1. ASSUME ~lost', NEW i
        PROVE  ~lost /\ About(inbox'["delivery"], i) = About(inbox["delivery"], i)
    BY <1>3, <1>5, <2>1, DeliveryHears
  <2>2. ASSUME ~lost', NEW i
        PROVE  DocAlerts(i) + About(inbox'["delivery"], i) = About(alertHistory', i)
    BY <1>5, <2>1, <2>2 DEF CountInv
  <2> QED
    BY <1>2, <1>5, <2>2 DEF CountInv, DocAlerts
<1> QED
  BY <1>4, <1>5

(* The alert engine: what it emits is on the way to delivery.              *)
LEMMA CountAlerts ==
  ASSUME FlowTyped, AlertsInv, CountInv, AlertsHandle PROVE CountInv'
<1>1. PICK u : u = Next1("alerts")
  OBVIOUS
<1>2. PICK out : out = AlertsFor(u)
  OBVIOUS
<1>3. /\ Waiting("alerts") /\ Publish(out, "alerts") /\ docs' = docs
      /\ alertHistory' = alertHistory \o out
  BY <1>1, <1>2 DEF AlertsHandle, HandleAlertUpdate, deliveryVars
<1>4. /\ "alerts" \in Downstream /\ inbox["alerts"] # <<>> /\ u.entry.at \in Int
      /\ "delivery" \in Downstream /\ "delivery" \in Engines
  BY <1>1, <1>3, Taken DEF FlowTyped, Downstream, Engines, Wants, Timed
<1>5. AllTell(out, "alert") /\ IsSequence(out)
  BY <1>2, <1>4, AlertsTell DEF AllTell
<1>6. \A n \in DOMAIN out : "id" \in DOMAIN out[n]
  BY <1>2 DEF AlertsFor
<1>7. enabled' = enabled /\ Queue("delivery", "alerts") = inbox["delivery"]
  BY <1>3, PublishDoes DEF Queue
<1>8. CASE "delivery" \notin enabled
  <2>1. Listening["delivery"] = {}
    BY <1>4, <1>8 DEF Listening
  <2>2. inbox'["delivery"] = inbox["delivery"]
    BY <1>3, <1>4, <1>5, <1>7, <2>1, Unheard DEF AllTell, Tells1, FlowTyped
  <2> QED
    BY <1>3, <1>7, <1>8, <2>2 DEF CountInv
<1>9. CASE "delivery" \in enabled
  <2>1. ASSUME ~lost', NEW i
        PROVE  /\ ~lost /\ About(inbox["delivery"], i) \in Nat
               /\ About(inbox'["delivery"], i) = About(inbox["delivery"], i) + About(out, i)
    BY <1>3, <1>4, <1>5, <1>6, <1>7, <1>9, <2>1, DeliveryHears DEF FlowTyped
  <2>2. ASSUME NEW i
        PROVE  /\ About(alertHistory, i) \in Nat /\ About(out, i) \in Nat
               /\ About(alertHistory', i) = About(alertHistory, i) + About(out, i)
    BY <1>3, <1>5, AboutJoined DEF AlertsInv
  <2>3. \A i : DocAlerts(i) \in Nat
    BY DEF CountInv, CountsAlerts, DocAlerts
  <2>4. ASSUME ~lost', NEW i
        PROVE  DocAlerts(i) + About(inbox'["delivery"], i) = About(alertHistory', i)
    BY <1>9, <2>1, <2>2, <2>3, <2>4 DEF CountInv
  <2> QED
    BY <1>3, <1>7, <1>9, <2>4 DEF CountInv, DocAlerts
<1> QED
  BY <1>8, <1>9

(* Delivery: the alert that it takes is in the document.                   *)
LEMMA CountDelivered ==
  ASSUME BoxesTyped, CountInv, alertHistory' = alertHistory,
         Posts("delivery", <<>>, "quality"), HandleDelivery(Next1("delivery"))
  PROVE  CountInv'
<1>1. PICK e : e = Next1("delivery")
  OBVIOUS
<1>2. /\ Waiting("delivery") /\ Publish(<<>>, "delivery") /\ docs' = PatchedDocs(e)
      /\ AllTell(<<>>, "quality") /\ "delivery" \in Downstream
  BY <1>1 DEF Posts, HandleDelivery, Downstream
<1>3. /\ inbox["delivery"] # <<>> /\ IsSequence(inbox["delivery"])
      /\ e = inbox["delivery"][1] /\ e.type \in Wants["delivery"]
  BY <1>1, <1>2, Taken
<1>4. "delivery" \in enabled
  BY <1>3 DEF CountInv
<1>5. enabled' = enabled /\ Queue("delivery", "delivery") = Tail(inbox["delivery"])
  BY <1>2, PublishDoes DEF Queue
<1>6. /\ \A i \in DOMAIN docs' : CountsAlerts(docs'[i])
      /\ \A i : /\ DocAlerts(i) \in Nat
                /\ DocAlerts(i)' = DocAlerts(i) + IF IsAbout(e, i) THEN 1 ELSE 0
  BY <1>2, <1>3, DocsCounted DEF CountInv
<1>7. ASSUME NEW i
      PROVE  /\ About(inbox["delivery"], i) \in Nat /\ About(Tail(inbox["delivery"]), i) \in Nat
             /\ About(inbox["delivery"], i)
                  = About(Tail(inbox["delivery"]), i) + IF IsAbout(e, i) THEN 1 ELSE 0
  BY <1>3, AboutTail
<1>8. ASSUME ~lost', NEW i
      PROVE  ~lost /\ About(inbox'["delivery"], i) = About(Tail(inbox["delivery"]), i)
  <2>1. ~lost /\ About(inbox'["delivery"], i)
          = About(Queue("delivery", "delivery"), i)
              + IF "quality" = "alert" THEN About(<<>>, i) ELSE 0
    BY <1>2, <1>3, <1>4, <1>8, DeliveryHears
  <2>2. "quality" # "alert"
    OBVIOUS
  <2>3. About(Tail(inbox["delivery"]), i) \in Nat
    BY <1>7
  <2>4. About(inbox'["delivery"], i) = About(Queue("delivery", "delivery"), i) + 0
    BY <2>1, <2>2
  <2>5. About(inbox'["delivery"], i) = About(Tail(inbox["delivery"]), i) + 0
    BY <1>5, <2>4, Zenon
  <2> QED
    BY <2>1, <2>3, <2>5
<1>9. ASSUME ~lost', NEW i
      PROVE  DocAlerts(i)' + About(inbox'["delivery"], i) = About(alertHistory', i)
  <2>1. DocAlerts(i) + About(inbox["delivery"], i) = About(alertHistory, i)
    BY <1>4, <1>8, <1>9 DEF CountInv
  <2> QED
    BY <1>6, <1>7, <1>8, <1>9, <2>1
<1> QED
  BY <1>4, <1>5, <1>6, <1>9 DEF CountInv


-----------------------------------------------------------------------------
(* Two alerts of the same entry would be alike, and of the same time: the  *)
(* cooldown keeps them apart.                                              *)
LEMMA OneChangeThen == AlertsInv /\ FlowTyped => OneAlertPerChange
<1> SUFFICES ASSUME AlertsInv, FlowTyped, NEW n \in DOMAIN alertHistory,
                    NEW a, a = alertHistory[n]
             PROVE  Cardinality({m \in DOMAIN alertHistory :
                                   alertHistory[m].id = a.id /\ alertHistory[m].alert = a.alert})
                      <= CalledFor(a.id, a.alert)
  BY DEF OneAlertPerChange
<1> DEFINE S == {m \in DOMAIN alertHistory :
                   alertHistory[m].id = a.id /\ alertHistory[m].alert = a.alert}
           t == recs[a.id].timeline
           T == {m \in DOMAIN t : EntryAlert(t[m]) = <<a.alert>>}
<1>1. DOMAIN alertHistory = 1 .. Len(alertHistory) /\ Len(alertHistory) \in Nat
  BY Appended DEF AlertsInv
<1>2. IsFiniteSet(S) /\ Cardinality(S) \in Nat
  <2>1. IsFiniteSet(1 .. Len(alertHistory)) /\ S \in SUBSET (1 .. Len(alertHistory))
    BY <1>1, FS_Interval
  <2> QED
    BY <2>1, FS_Subset, FS_CardinalityType
<1>3. CASE a.alert = Created
  <2>1. S \in SUBSET {n}
    BY <1>3 DEF AlertsInv, CreatedOnce
  <2>2. Cardinality(S) <= 1
    <3>1. IsFiniteSet({n}) /\ Cardinality({n}) = 1
      BY FS_Singleton
    <3> HIDE DEF S
    <3> QED
      BY <2>1, <3>1, FS_Subset
  <2> HIDE DEF S
  <2> QED
    BY <1>3, <2>2 DEF CalledFor, Created, S
<1>4. CASE a.alert # Created
  <2>1. \A m \in S : \E e : CalledAt(alertHistory[m], e)
    BY <1>4 DEF AlertsInv, AlertsCalled
  <2> DEFINE at == [m \in S |-> CHOOSE e : CalledAt(alertHistory[m], e)]
  <2>2. \A m \in S : CalledAt(alertHistory[m], at[m])
    BY <2>1
  <2>3. /\ a.id \in DOMAIN recs /\ \A m \in S : at[m] \in T
    <3>1. n \in S
      OBVIOUS
    <3>2. ASSUME NEW m \in S PROVE a.id \in DOMAIN recs /\ at[m] \in T
      BY <2>2 DEF CalledAt, Stems
    <3> QED
      BY <3>1, <3>2
  <2>4. IsFiniteSet(T) /\ Cardinality(T) \in Nat /\ DOMAIN t \subseteq Nat
    <3>1. Len(t) \in Nat /\ DOMAIN t = 1 .. Len(t)
      <4>1. IsSequence(t)
        BY <2>3 DEF FlowTyped, StateInv, SoundRec
      <4> QED
        BY <4>1, Appended
    <3>2. IsFiniteSet(1 .. Len(t)) /\ T \in SUBSET (1 .. Len(t))
      BY <3>1, FS_Interval
    <3> QED
      BY <3>1, <3>2, FS_Subset, FS_CardinalityType
  <2>5. \A x, y \in S : at[x] = at[y] => x = y
    <3>0. S \subseteq Nat
      BY <1>1
    <3> HIDE DEF at
    <3> SUFFICES ASSUME NEW x \in S, NEW y \in S, at[x] = at[y], x < y PROVE FALSE
      BY <3>0
    <3> DEFINE b == alertHistory[x]
               c == alertHistory[y]
    <3>1. PICK entry : /\ Stems(b.id, at[x], b.status, entry)
                       /\ entry.at = b.at /\ entry.reason = b.reason
      BY <2>2 DEF CalledAt
    <3>2. PICK other : /\ Stems(c.id, at[x], c.status, other)
                       /\ other.at = c.at /\ other.reason = c.reason
      BY <2>2 DEF CalledAt
    <3>3. b.id = c.id /\ b.alert = c.alert
      OBVIOUS
    <3>4. entry = other /\ b.status = c.status
      <4>1. at[x] \in Int
        BY <2>3, <2>4
      <4>2. Shows(recs[b.id].timeline, at[x], b.status) /\ Shows(recs[b.id].timeline, at[x], c.status)
              /\ entry = other
        BY <3>1, <3>2, <3>3 DEF Stems
      <4> HIDE DEF at, b, c
      <4> QED
        BY <4>1, <4>2, ShowsOne
    <3>5. b.reason = c.reason /\ b.at = c.at /\ b.at \in Int
      BY <3>1, <3>2, <3>4 DEF AlertsInv, EmittedLast
    <3>6. c.at - b.at >= Cooldown
      BY <3>3, <3>4, <3>5 DEF AlertsInv, AlertsCooled
    <3> HIDE DEF b, c
    <3> QED
      BY <3>5, <3>6, AlertConfig
  <2> HIDE DEF S, T
  <2>6. at \in Injection(S, T)
    BY <2>3, <2>5 DEF Injection, IsInjective
  <2> HIDE DEF at
  <2>7. Cardinality(S) <= Cardinality(T)
    BY <2>4, <2>6, FS_Injection
  <2> QED
    BY <1>4, <2>7 DEF CalledFor, Created, S, T
<1> QED
  BY <1>3, <1>4

(* With nothing under way, the documents count every alert.                *)
LEMMA DeliveredThen == CountInv /\ AlertsInv => AlertsDelivered
<1> SUFFICES ASSUME CountInv, AlertsInv, Quiet, "alerts" \in enabled, NEW i \in DOMAIN docs
             PROVE  docs[i].alerts = Cardinality({n \in DOMAIN alertHistory : alertHistory[n].id = i})
  BY DEF AlertsDelivered
<1>1. inbox["delivery"] = <<>> /\ ~lost /\ DOMAIN <<>> = {}
  BY DEF Quiet, Engines, Downstream
<1>2. About(inbox["delivery"], i) = 0
  BY <1>1, AboutNone
<1>3. CountsAlerts(docs[i]) /\ DocAlerts(i) = docs[i].alerts
  BY DEF CountInv, DocAlerts
<1>4. "delivery" \in enabled
  BY DEF CountInv
<1>5. docs[i].alerts = About(alertHistory, i)
  BY <1>1, <1>2, <1>3, <1>4 DEF CountInv, CountsAlerts
<1>6. {n \in DOMAIN alertHistory : IsAbout(alertHistory[n], i)}
        = {n \in DOMAIN alertHistory : alertHistory[n].id = i}
  BY DEF AlertsInv, EmittedLast, IsAbout
<1> QED
  BY <1>5, <1>6 DEF About

(* So it is at the start.                                                  *)
LEMMA AlertsInit == FlowInit => AlertsInv /\ CountInv
<1> SUFFICES ASSUME FlowInit PROVE AlertsInv /\ CountInv
  OBVIOUS
<1>1. /\ recs = <<>> /\ docs = <<>> /\ alertHistory = <<>> /\ lastEmitted = <<>>
      /\ inbox = [e \in Engines |-> <<>>]
  BY DEF FlowInit, RecInit, DeliveryInit, AlertInit
<1>2. DOMAIN <<>> = {} /\ IsSequence(<<>>)
  BY DEF IsSequence
<1>3. inbox["alerts"] = <<>> /\ inbox["delivery"] = <<>>
  BY <1>1 DEF Engines, Downstream
<1>4. AlertsInv
  BY <1>1, <1>2, <1>3
     DEF AlertsInv, UpdatesStem, AlertsCalled, CreatedOnce, EmittedLast, AlertsCooled
<1>5. \A i : About(<<>>, i) = 0
  BY <1>2, AboutNone
<1>6. \A i : DocAlerts(i) = 0
  BY <1>1, <1>2 DEF DocAlerts
<1>7. CountInv
  BY <1>1, <1>2, <1>3, <1>5, <1>6 DEF CountInv
<1> QED
  BY <1>4, <1>7

(* A step of the flow, as the alerts see it, keeps both.                   *)
LEMMA AlertsStep ==
  ASSUME FlowTyped, AlertsInv, CountInv, [FlowNext]_flowVars
  PROVE  AlertsInv' /\ CountInv'
<1>0. /\ BoxesTyped /\ {"state", "alerts", "delivery"} \subseteq Downstream
      /\ {"intelligence", "quality", "feedback"} \subseteq Downstream
  BY DEF FlowTyped, Downstream
<1>1. CASE UNCHANGED <<downVars, inbox, lost, enabled>>
  <2>1. /\ recs' = recs /\ UNCHANGED alertVars /\ docs' = docs
        /\ inbox' = inbox /\ lost' = lost /\ enabled' = enabled
    BY <1>1 DEF downVars, recVars, deliveryVars
  <2>2. alertHistory' = alertHistory
    BY <2>1 DEF alertVars
  <2>3. AlertsInv'
    BY <2>1, AlertsAside
  <2>4. CountInv'
    BY <2>1, <2>2 DEF CountInv, DocAlerts
  <2> QED
    BY <2>3, <2>4
<1>2. CASE Elsewhere
  <2>1. /\ recs' = recs /\ UNCHANGED alertVars /\ docs' = docs
    BY <1>2 DEF Elsewhere, downVars, recVars, deliveryVars
  <2>2. /\ alertHistory' = alertHistory /\ enabled' = enabled /\ (lost => lost')
        /\ inbox'["alerts"] = inbox["alerts"] /\ inbox'["delivery"] = inbox["delivery"]
    BY <1>0, <1>2, <2>1, ElsewhereTyped DEF alertVars
  <2>3. AlertsInv'
    BY <2>1, <2>2, AlertsAside
  <2>4. CountInv'
    BY <2>1, <2>2 DEF CountInv, DocAlerts
  <2> QED
    BY <2>3, <2>4
<1>3. ASSUME recs' = recs, UNCHANGED alertVars, NEW events, NEW type, AllTell(events, type),
             type \notin Wants["alerts"], NEW from, from # "alerts",
             from \in Downstream => inbox[from] # <<>>, Publish(events, from)
      PROVE  AlertsInv'
  <2>1. inbox'["alerts"] = Queue("alerts", from)
    BY <1>0, <1>3, Unwanted
  <2>2. inbox'["alerts"] = inbox["alerts"]
    BY <1>3, <2>1 DEF Queue
  <2> QED
    BY <1>3, <2>2, AlertsAside
<1>4. CASE FromUpstream
  <2>1. PICK v, from : /\ from \notin Downstream /\ (from \in Engines => inbox[from] # <<>>)
                       /\ Publish(<<v>>, from) /\ Comes(v)
    BY <1>4 DEF FromUpstream
  <2>2. recs' = recs /\ UNCHANGED alertVars /\ docs' = docs
    BY <1>4 DEF FromUpstream, downVars, recVars, deliveryVars
  <2>3. AllTell(<<v>>, v.type) /\ v.type \in {"validated", "candle"}
    BY <2>1, ComesTells, OneTells DEF Comes
  <2>4. v.type \notin Wants["alerts"] /\ v.type # "alert" /\ from # "alerts" /\ from # "delivery"
    BY <1>0, <2>1, <2>3 DEF Wants
  <2>5. alertHistory' = alertHistory
    BY <2>2 DEF alertVars
  <2>6. AlertsInv'
    BY <1>3, <2>1, <2>2, <2>3, <2>4
  <2>7. CountInv'
    BY <1>0, <2>1, <2>2, <2>3, <2>4, <2>5, CountAside
  <2> QED
    BY <2>6, <2>7
<1>5. CASE StateHandles
  <2>1. AlertsInv'
    BY <1>5, StateAlerts
  <2>2. PICK e : e = Next1("state")
    OBVIOUS
  <2>3. /\ Waiting("state") /\ ApplyValidated(e) /\ Publish(StateUpdates(e), "state")
        /\ docs' = docs /\ alertHistory' = alertHistory
    BY <1>5, <2>2 DEF StateHandles, alertVars, deliveryVars
  <2>4. e.at \in Int /\ inbox["state"] # <<>>
    BY <1>0, <2>2, <2>3, Taken DEF Wants, Timed
  <2>5. AllTell(StateUpdates(e), "state")
    <3>1. \/ recs' = recs /\ StateUpdates(e) = <<>>
          \/ \E id, rec : Applies(e, id, rec)
      BY <2>3, StateDoes DEF FlowTyped, RecsFit
    <3>2. ASSUME NEW id, NEW rec, Applies(e, id, rec) PROVE AllTell(StateUpdates(e), "state")
      BY <2>4, <3>2, UpdateTells DEF FlowTyped
    <3> QED
      BY <3>1, <3>2, NoneTell
  <2>6. CountInv'
    BY <1>0, <2>3, <2>4, <2>5, CountAside
  <2> QED
    BY <2>1, <2>6
<1>6. CASE AlertsHandle
  BY <1>6, AlertsHandled, CountAlerts
<1>7. CASE IntelligenceHandles \/ QualityHandles \/ FeedbackHandles \/ DeliveryHandles
  <2>1. CASE \E d \in {"intelligence", "quality", "feedback"} : Writes(d)
    <3>0. PICK d \in {"intelligence", "quality", "feedback"} : Writes(d)
      BY <2>1
    <3>1. PICK events : Posts(d, events, d) /\ docs' = docs
      BY <3>0 DEF Writes
    <3>2. /\ recs' = recs /\ UNCHANGED alertVars /\ alertHistory' = alertHistory
          /\ Publish(events, d) /\ AllTell(events, d) /\ inbox[d] # <<>>
      BY <3>1 DEF Posts, alertVars, Waiting
    <3>3. d \notin Wants["alerts"] /\ d # "alert" /\ d # "alerts" /\ d # "delivery"
      BY DEF Wants
    <3>4. AlertsInv'
      BY <1>3, <3>2, <3>3
    <3>5. CountInv'
      BY <1>0, <3>1, <3>2, <3>3, CountAside
    <3> QED
      BY <3>4, <3>5
  <2>2. CASE Posts("delivery", <<>>, "quality") /\ HandleDelivery(Next1("delivery"))
    <3>1. /\ recs' = recs /\ UNCHANGED alertVars /\ alertHistory' = alertHistory
          /\ Publish(<<>>, "delivery") /\ AllTell(<<>>, "quality") /\ inbox["delivery"] # <<>>
      BY <2>2 DEF Posts, alertVars, Waiting
    <3>2. "quality" \notin Wants["alerts"]
      BY DEF Wants
    <3>3. AlertsInv'
      BY <1>3, <3>1, <3>2
    <3>4. CountInv'
      BY <1>0, <2>2, <3>1, CountDelivered
    <3> QED
      BY <3>3, <3>4
  <2> QED
    BY <1>7, <2>1, <2>2, OthersPublish
<1> QED
  BY <1>1, <1>2, <1>4, <1>5, <1>6, <1>7, FlowSteps DEF FlowTyped

(* Whatever the bus loses, and in replay too: a change of a                *)
(* recommendation's timeline alerts at most once however often the state   *)
(* engine publishes its entry again, and alerts that are alike are a       *)
(* cooldown apart. Where nothing is under way and nothing was lost, every  *)
(* alert is counted in the document of its recommendation.                 *)
THEOREM AlertsSoundHolds == FlowSpec => []AlertsSound
<1> DEFINE Inv == FlowTyped /\ AlertsInv /\ CountInv
<1>1. FlowInit => Inv
  BY DocumentsInit, AlertsInit DEF DocumentsInv
<1>2. Inv /\ [FlowNext]_flowVars => Inv'
  BY FlowTypes, AlertsStep
<1>3. Inv => AlertsSound
  BY OneChangeThen, DeliveredThen DEF AlertsSound, AlertsInv
<1> QED
  BY <1>1, <1>2, <1>3, PTL DEF FlowSpec

-----------------------------------------------------------------------------
(***************************************************************************)
(* What SumFunctionOnSet(f, S) of the community modules computes over a    *)
(* finite set S. It is a recursive function over the subsets of S that     *)
(* takes out an element of its choice. That there is one such function,    *)
(* and that the choice does not matter, is shown on a smallest set for     *)
(* which it would not be so.                                               *)
(***************************************************************************)
Chosen(s) == CHOOSE x \in s : TRUE

(* g is the function that adds up f over the subsets of S.                 *)
AddsUp(g, f, S) ==
  g = [s \in SUBSET S |-> IF s = {} THEN 0
                          ELSE f[Chosen(s)] + g[s \ {Chosen(s)}]]

LEMMA ChosenIn == ASSUME NEW s, s # {} PROVE Chosen(s) \in s
BY DEF Chosen

(* A family of subsets of a finite set has a smallest member.              *)
LEMMA Smallest ==
  ASSUME NEW S, IsFiniteSet(S), NEW T, T \subseteq SUBSET S, T # {}
  PROVE  \E t \in T : \A u \in T : ~ (u \subseteq t /\ u # t)
<1>1. IsWellFoundedOn(StrictSubsetOrdering(S), FiniteSubsetsOf(S))
  BY FS_StrictSubsetOrderingWellFounded
<1>2. T \subseteq FiniteSubsetsOf(S)
  BY FS_Subset DEF FiniteSubsetsOf
<1>3. PICK t \in T : \A u \in T : <<u, t>> \notin StrictSubsetOrdering(S)
  BY <1>1, <1>2, WFMin
<1> QED
  BY <1>3 DEF StrictSubsetOrdering

(* The functions that add up f over the subsets of S are the same.         *)
LEMMA OneSum ==
  ASSUME NEW f, NEW S, IsFiniteSet(S), NEW g, NEW h, AddsUp(g, f, S), AddsUp(h, f, S)
  PROVE  g = h
<1> DEFINE T == {t \in SUBSET S : g[t] # h[t]}
<1>1. SUFFICES ASSUME T # {} PROVE FALSE
  BY DEF AddsUp
<1>2. PICK t \in T : \A u \in T : ~ (u \subseteq t /\ u # t)
  <2>1. T \subseteq SUBSET S
    OBVIOUS
  <2> HIDE DEF T
  <2> QED
    BY <1>1, <2>1, Smallest
<1>3. t # {}
  BY DEF AddsUp
<1>4. /\ t \ {Chosen(t)} \subseteq t /\ t \ {Chosen(t)} # t
      /\ t \ {Chosen(t)} \in SUBSET S
  BY <1>3, ChosenIn
<1>5. g[t \ {Chosen(t)}] = h[t \ {Chosen(t)}]
  BY <1>2, <1>4
<1>6. g[t] = f[Chosen(t)] + g[t \ {Chosen(t)}]
  BY <1>3 DEF AddsUp
<1>7. h[t] = f[Chosen(t)] + h[t \ {Chosen(t)}]
  BY <1>3 DEF AddsUp
<1> QED
  BY <1>5, <1>6, <1>7

(* SumFunctionOnSet is such a function's value at S.                       *)
LEMMA SumIsValue ==
  ASSUME NEW f, NEW S
  PROVE  SumFunctionOnSet(f, S) = (CHOOSE g : AddsUp(g, f, S))[S]
BY DEF SumFunctionOnSet, FoldFunctionOnSet, MapThenFoldSet, AddsUp, Chosen

(* The sums over the subsets of a finite set are such a function.          *)
LEMMA SumsAddUp ==
  ASSUME NEW f, NEW S, IsFiniteSet(S)
  PROVE  AddsUp([s \in SUBSET S |-> SumFunctionOnSet(f, s)], f, S)
<1> DEFINE Sums(s) == [t \in SUBSET s |-> SumFunctionOnSet(f, t)]
           T == {s \in SUBSET S : ~ AddsUp(Sums(s), f, s)}
<1>1. SUFFICES ASSUME T # {} PROVE FALSE
  OBVIOUS
<1>2. PICK s \in T : \A u \in T : ~ (u \subseteq s /\ u # s)
  <2>1. T \subseteq SUBSET S
    OBVIOUS
  <2> HIDE DEF T
  <2> QED
    BY <1>1, <2>1, Smallest
<1>3. s \in SUBSET S /\ IsFiniteSet(s) /\ ~ AddsUp(Sums(s), f, s)
  BY FS_Subset
<1>4. ASSUME NEW t \in SUBSET s, t # s
      PROVE  SumFunctionOnSet(f, t) =
               IF t = {} THEN 0
               ELSE f[Chosen(t)] + SumFunctionOnSet(f, t \ {Chosen(t)})
  <2>1. t \in SUBSET S /\ t \notin T
    BY <1>2, <1>3, <1>4
  <2>2. AddsUp(Sums(t), f, t)
    BY <2>1
  <2>3. t \in SUBSET t /\ t \ {Chosen(t)} \in SUBSET t
    OBVIOUS
  <2>4. Sums(t)[t] = IF t = {} THEN 0
                     ELSE f[Chosen(t)] + Sums(t)[t \ {Chosen(t)}]
    BY <2>2, <2>3 DEF AddsUp
  <2> QED
    BY <2>3, <2>4
<1> DEFINE g == [t \in SUBSET s |->
                   IF t = {} THEN 0
                   ELSE f[Chosen(t)] + SumFunctionOnSet(f, t \ {Chosen(t)})]
<1>5. ASSUME NEW t \in SUBSET s, t # {}
      PROVE  g[t \ {Chosen(t)}] = SumFunctionOnSet(f, t \ {Chosen(t)})
  <2>1. t \ {Chosen(t)} \in SUBSET s /\ t \ {Chosen(t)} # s
    BY <1>5, ChosenIn
  <2> QED
    BY <1>4, <2>1
<1>6. AddsUp(g, f, s)
  BY <1>5 DEF AddsUp
<1>7. (CHOOSE h : AddsUp(h, f, s)) = g
  BY <1>3, <1>6, OneSum
<1>8. SumFunctionOnSet(f, s) = g[s]
  BY <1>7, SumIsValue
<1>9. \A t \in SUBSET s : SumFunctionOnSet(f, t) = g[t]
  BY <1>4, <1>8
<1>10. Sums(s) = g
  BY <1>9
<1> QED
  BY <1>3, <1>6, <1>10

LEMMA SumEmpty == \A f : SumFunctionOnSet(f, {}) = 0
<1> TAKE f
<1>1. AddsUp([s \in SUBSET {} |-> SumFunctionOnSet(f, s)], f, {})
  BY SumsAddUp, FS_EmptySet
<1> QED
  BY <1>1 DEF AddsUp

(* The recursion: an element, and the sum over the others.                 *)
LEMMA SumChosen ==
  ASSUME NEW f, NEW S, IsFiniteSet(S), S # {}
  PROVE  /\ Chosen(S) \in S
         /\ SumFunctionOnSet(f, S) =
              f[Chosen(S)] + SumFunctionOnSet(f, S \ {Chosen(S)})
<1> DEFINE g == [s \in SUBSET S |-> SumFunctionOnSet(f, s)]
<1>1. AddsUp(g, f, S)
  BY SumsAddUp
<1>2. S \in SUBSET S /\ S \ {Chosen(S)} \in SUBSET S
  OBVIOUS
<1>3. g[S] = f[Chosen(S)] + g[S \ {Chosen(S)}]
  BY <1>1, <1>2 DEF AddsUp
<1> QED
  BY <1>2, <1>3, ChosenIn

(* Sums of integers are integers.                                          *)
LEMMA SumInt ==
  ASSUME NEW f, NEW S, IsFiniteSet(S), \A x \in S : f[x] \in Int
  PROVE  SumFunctionOnSet(f, S) \in Int
<1> DEFINE T == {s \in SUBSET S : SumFunctionOnSet(f, s) \notin Int}
<1>1. SUFFICES ASSUME T # {} PROVE FALSE
  OBVIOUS
<1>2. PICK s \in T : \A u \in T : ~ (u \subseteq s /\ u # s)
  <2>1. T \subseteq SUBSET S
    OBVIOUS
  <2> HIDE DEF T
  <2> QED
    BY <1>1, <2>1, Smallest
<1>3. s \in SUBSET S /\ IsFiniteSet(s) /\ s # {}
  <2>1. SumFunctionOnSet(f, {}) = 0
    BY SumEmpty
  <2>2. s # {}
    BY <2>1
  <2> QED
    BY <2>2, FS_Subset
<1>4. /\ Chosen(s) \in s
      /\ SumFunctionOnSet(f, s) = f[Chosen(s)] + SumFunctionOnSet(f, s \ {Chosen(s)})
  BY <1>3, SumChosen
<1>5. SumFunctionOnSet(f, s \ {Chosen(s)}) \in Int
  <2>1. /\ s \ {Chosen(s)} \subseteq s /\ s \ {Chosen(s)} # s
        /\ s \ {Chosen(s)} \in SUBSET S
    BY <1>3, <1>4
  <2> QED
    BY <1>2, <2>1
<1> QED
  BY <1>2, <1>3, <1>4, <1>5

(* The sum with any element taken out first, whichever one is chosen.      *)
LEMMA SumRemove ==
  ASSUME NEW f, NEW S, IsFiniteSet(S), \A x \in S : f[x] \in Int, NEW e \in S
  PROVE  SumFunctionOnSet(f, S) = f[e] + SumFunctionOnSet(f, S \ {e})
<1> DEFINE Off(s, x) == SumFunctionOnSet(f, s) # f[x] + SumFunctionOnSet(f, s \ {x})
           T == {s \in SUBSET S : \E x \in s : Off(s, x)}
<1>1. SUFFICES ASSUME T # {} PROVE FALSE
  OBVIOUS
<1>2. PICK s \in T : \A u \in T : ~ (u \subseteq s /\ u # s)
  <2>1. T \subseteq SUBSET S
    OBVIOUS
  <2> HIDE DEF T
  <2> QED
    BY <1>1, <2>1, Smallest
<1>3. s \in SUBSET S /\ IsFiniteSet(s)
  BY FS_Subset
<1>4. PICK x \in s : Off(s, x)
  OBVIOUS
<1> DEFINE c == Chosen(s)
           both == s \ {c, x}
<1>5. c \in s /\ SumFunctionOnSet(f, s) = f[c] + SumFunctionOnSet(f, s \ {c})
  BY <1>3, <1>4, SumChosen
<1>6. c # x
  BY <1>4, <1>5
<1>7. SumFunctionOnSet(f, s \ {c}) = f[x] + SumFunctionOnSet(f, both)
  <2>1. /\ s \ {c} \subseteq s /\ s \ {c} # s /\ s \ {c} \in SUBSET S
        /\ x \in s \ {c} /\ (s \ {c}) \ {x} = both
    BY <1>3, <1>5, <1>6
  <2>2. ~ Off(s \ {c}, x)
    BY <1>2, <2>1
  <2> QED
    BY <2>1, <2>2
<1>8. SumFunctionOnSet(f, s \ {x}) = f[c] + SumFunctionOnSet(f, both)
  <2>1. /\ s \ {x} \subseteq s /\ s \ {x} # s /\ s \ {x} \in SUBSET S
        /\ c \in s \ {x} /\ (s \ {x}) \ {c} = both
    BY <1>3, <1>5, <1>6
  <2>2. ~ Off(s \ {x}, c)
    BY <1>2, <2>1
  <2> QED
    BY <2>1, <2>2
<1>9. f[c] \in Int /\ f[x] \in Int /\ SumFunctionOnSet(f, both) \in Int
  <2>1. both \subseteq S /\ IsFiniteSet(both)
    BY <1>3, FS_Subset
  <2> HIDE DEF both
  <2> QED
    BY <1>3, <1>5, <2>1, SumInt
<1> QED
  BY <1>4, <1>5, <1>7, <1>8, <1>9

(* Only the values on the set count.                                       *)
LEMMA SumSame ==
  ASSUME NEW f, NEW g, NEW S, IsFiniteSet(S), \A x \in S : f[x] = g[x]
  PROVE  SumFunctionOnSet(f, S) = SumFunctionOnSet(g, S)
<1> DEFINE T == {s \in SUBSET S : SumFunctionOnSet(f, s) # SumFunctionOnSet(g, s)}
<1>1. SUFFICES ASSUME T # {} PROVE FALSE
  OBVIOUS
<1>2. PICK s \in T : \A u \in T : ~ (u \subseteq s /\ u # s)
  <2>1. T \subseteq SUBSET S
    OBVIOUS
  <2> HIDE DEF T
  <2> QED
    BY <1>1, <2>1, Smallest
<1>3. s \in SUBSET S /\ IsFiniteSet(s) /\ s # {}
  BY FS_Subset, SumEmpty
<1>4. /\ Chosen(s) \in s
      /\ SumFunctionOnSet(f, s) = f[Chosen(s)] + SumFunctionOnSet(f, s \ {Chosen(s)})
      /\ SumFunctionOnSet(g, s) = g[Chosen(s)] + SumFunctionOnSet(g, s \ {Chosen(s)})
  BY <1>3, SumChosen
<1>5. SumFunctionOnSet(f, s \ {Chosen(s)}) = SumFunctionOnSet(g, s \ {Chosen(s)})
  <2>1. /\ s \ {Chosen(s)} \subseteq s /\ s \ {Chosen(s)} # s
        /\ s \ {Chosen(s)} \in SUBSET S
    BY <1>3, <1>4
  <2> QED
    BY <1>2, <2>1
<1>6. f[Chosen(s)] = g[Chosen(s)]
  BY <1>3, <1>4
<1> QED
  BY <1>2, <1>4, <1>5, <1>6

(* ... and with an element added.                                          *)
LEMMA SumAdd ==
  ASSUME NEW f, NEW S, IsFiniteSet(S), NEW e, e \notin S,
         \A x \in S \union {e} : f[x] \in Int
  PROVE  SumFunctionOnSet(f, S \union {e}) = f[e] + SumFunctionOnSet(f, S)
<1>1. IsFiniteSet(S \union {e}) /\ e \in S \union {e} /\ (S \union {e}) \ {e} = S
  BY FS_AddElement
<1> QED
  BY <1>1, SumRemove

-----------------------------------------------------------------------------
(***************************************************************************)
(* Trades. Performance has seen the portfolio's book as it was before the  *)
(* updates that still wait for it: from what it has, those updates lead,   *)
(* one position opened or closed at a time, to the book as it is. The      *)
(* totals it publishes never count fewer trades than the ones before, and  *)
(* tell another profit only with another trade; so that an evaluation,     *)
(* which sees some of them, misses no profit.                              *)
(***************************************************************************)
PnL(t) == SumFunctionOnSet([n \in DOMAIN t |-> t[n].pnl], DOMAIN t)

BookAfter(x, u) ==
  [held |-> IF u.open THEN x.held \union {u.symbol} ELSE x.held \ {u.symbol},
   realized |-> u.realized, closed |-> x.closed + IF u.open THEN 0 ELSE 1]
Moves(x, u, y) ==
  /\ u.open \in BOOLEAN /\ u.realized \in Int
  /\ u.open <=> u.symbol \notin x.held
  /\ u.open => u.realized = x.realized
  /\ y = BookAfter(x, u)
Booked == [held |-> perf.open, realized |-> perf.realized, closed |-> Len(perf.trades)]
Untold == inbox["performance"]
EndsAt(x, bk, count) ==
  /\ x.held = bk.held /\ x.realized = bk.realized /\ x.closed \in Nat
  /\ count = 2 * x.closed + Cardinality(bk.held)
BookTold ==
  \E b : /\ b[0] = Booked
         /\ \A n \in DOMAIN Untold : Moves(b[n - 1], Untold[n], b[n])
         /\ "performance" \in enabled => EndsAt(b[Len(Untold)], book, trades)

Leads(x, y) ==
  /\ x.trades \in Nat /\ y.trades \in Nat /\ x.realized \in Int /\ y.realized \in Int
  /\ x.trades <= y.trades /\ (x.trades = y.trades => x.realized = y.realized)
Totals(p) == [trades |-> Len(p.trades), realized |-> p.realized]
Reports == inbox["optimization"]
TotalsTold ==
  /\ Leads(NewEvaluation, Totals(perf))
  /\ \A n \in DOMAIN Reports :
       /\ Leads(NewEvaluation, Reports[n]) /\ Leads(Reports[n], Totals(perf))
       /\ \A m \in DOMAIN Reports : m <= n => Leads(Reports[m], Reports[n])
  /\ \A s \in DOMAIN evaluations :
       /\ Leads(evaluations[s], Totals(perf))
       /\ \A n \in DOMAIN Reports : Leads(evaluations[s], Reports[n])

SoundEvaluation(v) ==
  /\ DOMAIN v = {"trades", "realized", "profit", "loss", "wins", "avgWin", "avgLoss",
                 "drawdown", "score"}
  /\ v.trades \in Nat /\ v.realized \in Int /\ v.profit \in Int /\ v.loss \in Int
  /\ v.profit - v.loss = v.realized

BookTyped == IsFiniteSet(book.held) /\ book.realized \in Int /\ trades \in Nat
PerfSound ==
  /\ IsSequence(perf.trades) /\ \A n \in DOMAIN perf.trades : perf.trades[n].pnl \in Int
  /\ PnL(perf.trades) = perf.realized
TradesInv ==
  /\ BookTyped
  /\ \/ lost
     \/ /\ PerfSound /\ BookTold /\ TotalsTold
        /\ \A s \in DOMAIN evaluations : SoundEvaluation(evaluations[s])

(* A trade more adds what it earned.                                       *)
LEMMA TradeAdds ==
  ASSUME NEW t, IsSequence(t), \A n \in DOMAIN t : t[n].pnl \in Int, NEW e, e.pnl \in Int
  PROVE  PnL(Append(t, e)) = PnL(t) + e.pnl /\ PnL(t) \in Int
<1> DEFINE u == Append(t, e)
           k == Len(t) + 1
           f == [n \in DOMAIN u |-> u[n].pnl]
           g == [n \in DOMAIN t |-> t[n].pnl]
<1>1. /\ Len(t) \in Nat /\ DOMAIN t = 1 .. Len(t) /\ DOMAIN u = 1 .. Len(t) + 1
      /\ (\A n \in 1 .. Len(t) : u[n] = t[n]) /\ u[k] = e
  BY Appended
<1> HIDE DEF u
<1>2. DOMAIN u = DOMAIN t \union {k} /\ k \notin DOMAIN t
  BY <1>1
<1>3. IsFiniteSet(DOMAIN t) /\ IsFiniteSet(DOMAIN t \union {k})
  <2>1. IsFiniteSet(DOMAIN t)
    BY <1>1, FS_Interval
  <2> QED
    BY <2>1, FS_AddElement
<1>4. /\ \A n \in DOMAIN t \union {k} : f[n] = u[n].pnl
      /\ \A n \in DOMAIN t : g[n] = t[n].pnl
  BY <1>2
<1> HIDE DEF f, g, k
<1>5. \A n \in DOMAIN t \union {k} : f[n] \in Int
  BY <1>1, <1>4 DEF k
<1>6. SumFunctionOnSet(f, DOMAIN t \union {k}) = f[k] + SumFunctionOnSet(f, DOMAIN t)
  BY <1>2, <1>3, <1>5, SumAdd
<1>7. SumFunctionOnSet(f, DOMAIN t) = SumFunctionOnSet(g, DOMAIN t)
  BY <1>1, <1>3, <1>4, SumSame
<1>8. SumFunctionOnSet(g, DOMAIN t) \in Int
  BY <1>3, <1>4, SumInt
<1>9. PnL(u) = SumFunctionOnSet(f, DOMAIN u) /\ PnL(t) = SumFunctionOnSet(g, DOMAIN t)
  BY DEF PnL, f, g
<1>10. f[k] = e.pnl
  BY <1>1, <1>4
<1>11. PnL(u) = PnL(t) + e.pnl /\ PnL(t) \in Int
  BY <1>2, <1>6, <1>7, <1>8, <1>9, <1>10
<1> QED
  BY <1>11 DEF u

(* Only the portfolio, performance and optimization move trades.           *)
LEMMA TradersAlone ==
  ASSUME [FlowNext]_flowVars
  PROVE  TradesMove \/ UNCHANGED <<perf, evaluations, book, trades>>
<1>1. CASE UNCHANGED flowVars
  BY <1>1 DEF flowVars, upVars, performanceVars, worldVars
<1>2. CASE Validate \/ Observe \/ CandleCloses \/ TimePasses
  BY <1>2 DEF Validate, Observe, CandleCloses, TimePasses, upVars, performanceVars
<1>3. CASE \/ ScannerHandles \/ OpportunityHandles \/ RecommendationHandles \/ ValidationHandles
  BY <1>3 DEF ScannerHandles, OpportunityHandles, RecommendationHandles, ValidationHandles,
              performanceVars, worldVars
<1>4. CASE \/ StateHandles \/ AlertsHandle \/ IntelligenceHandles \/ QualityHandles
           \/ FeedbackHandles \/ DeliveryHandles
  BY <1>4 DEF StateHandles, AlertsHandle, IntelligenceHandles, QualityHandles, FeedbackHandles,
              DeliveryHandles, upVars, performanceVars, worldVars
<1> QED
  BY <1>1, <1>2, <1>3, <1>4 DEF FlowNext, EngineHandles, TradesMove

(* What the two engines hear; the portfolio is none of the engines.        *)
Outside == ""
LEMMA TradersHear ==
  /\ "performance" \in Engines /\ "optimization" \in Engines
  /\ "performance" \notin Downstream /\ "optimization" \notin Downstream /\ Outside \notin Engines
  /\ Listening["performance"] \subseteq {"portfolio"}
  /\ Listening["optimization"] \subseteq {"performance"}
  /\ "performance" \in enabled => "portfolio" \in Listening["performance"]
<1>1. "performance" \in Engines /\ "optimization" \in Engines
  BY DEF Engines, Upstream
<1>2. "performance" \notin Downstream /\ "optimization" \notin Downstream
  BY DEF Downstream
<1>3. Outside \notin Engines
  BY DEF Outside, Engines, Upstream, Downstream
<1>4. Wants["performance"] = {"portfolio"} /\ Wants["optimization"] = {"performance"}
  BY DEF Wants
<1> QED
  BY <1>1, <1>2, <1>3, <1>4 DEF Listening

(* What others publish leaves their channels alone.                        *)
LEMMA OffTheirChannels ==
  ASSUME BoxesTyped, NEW events, NEW type, AllTell(events, type), NEW from,
         Publish(events, from), OffTrades(from, type)
  PROVE  /\ Untold' = Untold /\ Reports' = Reports /\ enabled' = enabled /\ (lost => lost')
<1>1. \A n \in DOMAIN events : "type" \in DOMAIN events[n]
        /\ events[n].type \notin Listening["performance"]
        /\ events[n].type \notin Listening["optimization"]
  BY TradersHear DEF AllTell, Tells1, OffTrades
<1>2. from # "performance" /\ from # "optimization"
  BY DEF OffTrades
<1>3. inbox'["performance"] = Queue("performance", from)
  BY <1>1, <1>2, TradersHear, UnheardBy
<1>4. inbox'["optimization"] = Queue("optimization", from)
  BY <1>1, <1>2, TradersHear, UnheardBy
<1> QED
  BY <1>2, <1>3, <1>4, PublishDoes DEF Queue, Untold, Reports

(* So does every other step.                                               *)
LEMMA OthersAside ==
  ASSUME FlowTyped, [FlowNext]_flowVars, ~TradesMove
  PROVE  /\ Untold' = Untold /\ Reports' = Reports /\ enabled' = enabled /\ (lost => lost')
         /\ UNCHANGED <<perf, evaluations, book, trades>>
<1>0. BoxesTyped /\ {"state", "alerts", "intelligence", "quality", "feedback", "delivery"}
        = Downstream
  BY DEF FlowTyped, Downstream
<1>1. UNCHANGED <<perf, evaluations, book, trades>>
  BY TradersAlone
<1> DEFINE Aside1 == Untold' = Untold /\ Reports' = Reports /\ enabled' = enabled /\ (lost => lost')
<1>2. ASSUME NEW d \in Downstream, NEW events, NEW type \in DownTypes, AllTell(events, type),
             Publish(events, d)
      PROVE  Aside1
  <2>1. OffTrades(d, type)
    BY <1>2, TradersHear DEF OffTrades, DownTypes
  <2> QED
    BY <1>0, <1>2, <2>1, OffTheirChannels
<1>3. CASE UNCHANGED <<downVars, inbox, lost, enabled>>
  BY <1>1, <1>3 DEF Untold, Reports
<1>4. CASE Elsewhere
  <2>1. PICK events, from, type : Publish(events, from) /\ AllTell(events, type)
                                  /\ OffTrades(from, type)
    BY <1>4 DEF Elsewhere
  <2> QED
    BY <1>0, <1>1, <2>1, OffTheirChannels
<1>5. CASE FromUpstream
  <2>1. PICK v, from : Publish(<<v>>, from) /\ Comes(v) /\ OffTrades(from, v.type)
    BY <1>5 DEF FromUpstream
  <2>2. AllTell(<<v>>, v.type)
    BY <2>1, ComesTells, OneTells
  <2> QED
    BY <1>0, <1>1, <2>1, <2>2, OffTheirChannels
<1>6. CASE StateHandles
  <2>1. PICK e : e = Next1("state")
    OBVIOUS
  <2>2. Waiting("state") /\ ApplyValidated(e) /\ Publish(StateUpdates(e), "state")
    BY <1>6, <2>1 DEF StateHandles
  <2>3. e.at \in Int
    BY <1>0, <2>1, <2>2, Taken DEF Wants, Timed
  <2>4. \/ StateUpdates(e) = <<>>
        \/ \E id, rec : Applies(e, id, rec)
    BY <2>2, StateDoes DEF FlowTyped, RecsFit
  <2>5. ASSUME NEW id, NEW rec, Applies(e, id, rec) PROVE AllTell(StateUpdates(e), "state")
    BY <2>3, <2>5, UpdateTells DEF FlowTyped
  <2>6. AllTell(StateUpdates(e), "state") /\ "state" \in DownTypes
    BY <2>4, <2>5, NoneTell DEF DownTypes
  <2> QED
    BY <1>0, <1>1, <1>2, <2>2, <2>6
<1>7. CASE AlertsHandle
  <2>1. Waiting("alerts") /\ Publish(AlertsFor(Next1("alerts")), "alerts")
    BY <1>7 DEF AlertsHandle
  <2>2. Next1("alerts").entry.at \in Int
    BY <1>0, <2>1, Taken DEF Wants, Timed
  <2>3. AllTell(AlertsFor(Next1("alerts")), "alert") /\ "alert" \in DownTypes
    BY <2>2, AlertsTell DEF DownTypes
  <2> QED
    BY <1>0, <1>1, <1>2, <2>1, <2>3
<1>8. CASE IntelligenceHandles \/ QualityHandles \/ FeedbackHandles \/ DeliveryHandles
  <2>1. PICK d, events, type :
          /\ d \in {"intelligence", "quality", "feedback", "delivery"}
          /\ type \in {"intelligence", "quality", "feedback"} /\ Posts(d, events, type)
    BY <1>8, OthersPublish DEF Writes
  <2>2. type \in DownTypes /\ d \in Downstream /\ AllTell(events, type) /\ Publish(events, d)
    BY <1>0, <2>1 DEF DownTypes, Posts
  <2> QED
    BY <1>1, <1>2, <2>2
<1>9. Aside1
  BY <1>3, <1>4, <1>5, <1>6, <1>7, <1>8, FlowSteps DEF FlowTyped
<1> QED
  BY <1>1, <1>9

(* Leading is in order.                                                    *)
LEMMA LeadsOn ==
  ASSUME NEW x, NEW y, NEW z, Leads(x, y), Leads(y, z) PROVE Leads(x, z)
BY DEF Leads

(* The portfolio's book is finite, whatever it trades.                     *)
LEMMA BookKeeps ==
  ASSUME BookTyped, PortfolioTrades
  PROVE  \E symbol, profit :
           /\ BookTyped' /\ trades' = trades + 1 /\ profit \in Int
           /\ book' = [held |-> IF symbol \in book.held THEN book.held \ {symbol}
                                ELSE book.held \union {symbol},
                       realized |-> book.realized + IF symbol \in book.held THEN profit ELSE 0]
           /\ Cardinality(book.held) \in Nat
           /\ Cardinality(book'.held) = Cardinality(book.held)
                                          + IF symbol \in book.held THEN 0 - 1 ELSE 1
           /\ Publish(<< [type |-> "portfolio", symbol |-> symbol, open |-> symbol \notin book.held,
                          realized |-> book'.realized, unrealized |-> 0, at |-> now] >>, Outside)
<1>1. PICK symbol \in {k.symbol : k \in Watched[enabled]}, profit \in Profits :
        LET closes == symbol \in book.held
        IN /\ book' = [held |-> IF closes THEN book.held \ {symbol}
                                ELSE book.held \union {symbol},
                       realized |-> book.realized + IF closes THEN profit ELSE 0]
           /\ Publish(<< [type |-> "portfolio", symbol |-> symbol, open |-> ~closes,
                          realized |-> book.realized + IF closes THEN profit ELSE 0,
                          unrealized |-> 0, at |-> now] >>, Outside)
  BY Zenon DEF PortfolioTrades, Outside
<1>2. profit \in Int /\ trades' = trades + 1 /\ trades \in Nat /\ IsFiniteSet(book.held)
        /\ book.realized \in Int
  BY ProfitsAreNumbers DEF PortfolioTrades, BookTyped
<1>3. /\ IsFiniteSet(book.held \ {symbol}) /\ IsFiniteSet(book.held \union {symbol})
      /\ Cardinality(book.held) \in Nat
      /\ symbol \in book.held => Cardinality(book.held \ {symbol}) = Cardinality(book.held) - 1
      /\ symbol \notin book.held => Cardinality(book.held \union {symbol}) = Cardinality(book.held) + 1
  BY <1>2, FS_AddElement, FS_RemoveElement, FS_CardinalityType
<1>4. CASE symbol \in book.held
  <2>1. book'.held = book.held \ {symbol} /\ book'.realized = book.realized + profit
    BY <1>1, <1>4
  <2>2. BookTyped'
    BY <1>2, <1>3, <2>1 DEF BookTyped
  <2>3. Cardinality(book'.held) = Cardinality(book.held) + (0 - 1)
    BY <1>3, <1>4, <2>1
  <2> QED
    BY <1>1, <1>2, <1>3, <1>4, <2>1, <2>2, <2>3
<1>5. CASE symbol \notin book.held
  <2>1. book'.held = book.held \union {symbol} /\ book'.realized = book.realized + 0
    BY <1>1, <1>5
  <2>2. BookTyped'
    BY <1>2, <1>3, <2>1 DEF BookTyped
  <2>3. Cardinality(book'.held) = Cardinality(book.held) + 1
    BY <1>3, <1>5, <2>1
  <2> QED
    BY <1>1, <1>2, <1>3, <1>5, <2>1, <2>2, <2>3
<1> QED
  BY <1>4, <1>5

(* What performance has not been told of yet grows by the trade.           *)
LEMMA PortfolioKeeps ==
  ASSUME FlowTyped, TradesInv, PortfolioTrades PROVE TradesInv'
<1>1. PICK symbol, profit :
        /\ BookTyped' /\ trades' = trades + 1 /\ profit \in Int
        /\ book' = [held |-> IF symbol \in book.held THEN book.held \ {symbol}
                             ELSE book.held \union {symbol},
                    realized |-> book.realized + IF symbol \in book.held THEN profit ELSE 0]
        /\ Cardinality(book.held) \in Nat
        /\ Cardinality(book'.held) = Cardinality(book.held)
                                       + IF symbol \in book.held THEN 0 - 1 ELSE 1
        /\ Publish(<< [type |-> "portfolio", symbol |-> symbol, open |-> symbol \notin book.held,
                       realized |-> book'.realized, unrealized |-> 0, at |-> now] >>, Outside)
  BY BookKeeps DEF TradesInv
<1> DEFINE v == [type |-> "portfolio", symbol |-> symbol, open |-> symbol \notin book.held,
                 realized |-> book'.realized, unrealized |-> 0, at |-> now]
           w == With(v, "ts", now)
<1>2. SUFFICES ASSUME ~lost'
               PROVE  /\ PerfSound' /\ BookTold' /\ TotalsTold'
                      /\ \A s \in DOMAIN evaluations' : SoundEvaluation(evaluations'[s])
  BY <1>1 DEF TradesInv
<1>3. BoxesTyped /\ Publish(<<v>>, Outside) /\ "type" \in DOMAIN v /\ v.type = "portfolio"
  BY <1>1 DEF FlowTyped
<1>4. w.symbol = symbol /\ w.open = (symbol \notin book.held) /\ w.realized = book'.realized
  BY StampKeeps
<1> HIDE DEF v, w
<1>5. enabled' = enabled /\ ~lost
  BY <1>2, <1>3, PublishDoes
<1>6. /\ PerfSound /\ BookTold /\ TotalsTold /\ BookTyped
      /\ \A s \in DOMAIN evaluations : SoundEvaluation(evaluations[s])
  BY <1>5 DEF TradesInv
<1>7. perf' = perf /\ evaluations' = evaluations
  BY DEF PortfolioTrades, upVars, performanceVars
<1>8. Reports' = Reports
  <2>1. \A n \in DOMAIN <<v>> : "type" \in DOMAIN <<v>>[n] /\ <<v>>[n].type \notin Listening["optimization"]
    BY <1>3, TradersHear
  <2>2. inbox'["optimization"] = Queue("optimization", Outside)
    BY <1>3, <2>1, TradersHear, UnheardBy
  <2> QED
    BY <2>2, TradersHear DEF Queue, Reports
<1>9. BookTold'
  <2>1. PICK b : /\ b[0] = Booked
                 /\ \A n \in DOMAIN Untold : Moves(b[n - 1], Untold[n], b[n])
                 /\ "performance" \in enabled => EndsAt(b[Len(Untold)], book, trades)
    BY <1>6 DEF BookTold
  <2>2. CASE "performance" \notin enabled
    <3>1. Listening["performance"] = {}
      BY <2>2, TradersHear DEF Listening
    <3>2. \A n \in DOMAIN <<v>> : "type" \in DOMAIN <<v>>[n] /\ <<v>>[n].type \notin Listening["performance"]
      BY <1>3, <3>1
    <3>3. inbox'["performance"] = Queue("performance", Outside)
      BY <1>3, <3>2, TradersHear, UnheardBy
    <3>4. Untold' = Untold
      BY <3>3, TradersHear DEF Queue, Untold
    <3> QED
      BY <1>5, <1>7, <2>1, <2>2, <3>4 DEF BookTold, Booked
  <2>3. CASE "performance" \in enabled
    <3>1. v.type \in Listening["performance"]
      BY <1>3, <2>3, TradersHear
    <3>2. Queue("performance", Outside) = Untold
      BY TradersHear DEF Queue, Untold
    <3>3. Untold' = Append(Untold, w)
      BY <1>2, <1>3, <3>1, <3>2, TradersHear, HeardBy DEF Untold, w
    <3>4. IsSequence(Untold)
      BY <1>3, TradersHear DEF BoxesTyped, Untold
    <3>5. /\ Len(Untold) \in Nat /\ DOMAIN Untold = 1 .. Len(Untold)
          /\ DOMAIN Untold' = 1 .. Len(Untold) + 1 /\ Len(Untold') = Len(Untold) + 1
          /\ \A n \in 1 .. Len(Untold) : Untold'[n] = Untold[n]
          /\ Untold'[Len(Untold) + 1] = w
      BY <3>3, <3>4, Appended
    <3>6. PICK last : last = b[Len(Untold)]
      OBVIOUS
    <3>7. EndsAt(last, book, trades)
      BY <2>1, <2>3, <3>6
    <3>12. PICK c : c = [n \in 0 .. Len(Untold) + 1 |->
                         IF n = Len(Untold) + 1 THEN BookAfter(last, w) ELSE b[n]]
      OBVIOUS
    <3>8. /\ \A n \in 0 .. Len(Untold) : c[n] = b[n]
          /\ c[Len(Untold) + 1] = BookAfter(last, w)
      BY <3>5, <3>12
    <3>9. Moves(last, w, BookAfter(last, w)) /\ EndsAt(BookAfter(last, w), book', trades')
      <4>1. last.held = book.held /\ last.realized = book.realized /\ last.closed \in Nat
              /\ trades = 2 * last.closed + Cardinality(book.held)
        BY <3>7 DEF EndsAt
      <4>2. book'.realized \in Int
        BY <1>1 DEF BookTyped
      <4>3. CASE symbol \in book.held
        <5>1. w.open = FALSE /\ book'.held = book.held \ {symbol}
          BY <1>1, <1>4, <4>3
        <5>2. BookAfter(last, w) = [held |-> book'.held, realized |-> book'.realized,
                                    closed |-> last.closed + 1]
          BY <1>4, <4>1, <5>1 DEF BookAfter
        <5>3. trades' = 2 * (last.closed + 1) + Cardinality(book'.held)
          BY <1>1, <4>1, <4>3
        <5> QED
          BY <1>4, <4>1, <4>2, <4>3, <5>1, <5>2, <5>3 DEF Moves, EndsAt
      <4>4. CASE symbol \notin book.held
        <5>4. book.realized \in Int
          BY <1>6 DEF BookTyped
        <5>5. book'.held = book.held \union {symbol} /\ book'.realized = book.realized + 0
          BY <1>1, <4>4
        <5>6. w.open = TRUE
          BY <1>4, <4>4
        <5>1. w.open = TRUE /\ book'.held = book.held \union {symbol}
                /\ book'.realized = book.realized
          BY <5>4, <5>5, <5>6
        <5>2. BookAfter(last, w) = [held |-> book'.held, realized |-> book'.realized,
                                    closed |-> last.closed]
          BY <1>4, <4>1, <5>1 DEF BookAfter
        <5>3. trades' = 2 * last.closed + Cardinality(book'.held)
          BY <1>1, <4>1, <4>4
        <5> QED
          BY <1>4, <4>1, <4>2, <4>4, <5>1, <5>2, <5>3 DEF Moves, EndsAt
      <4> QED
        BY <4>3, <4>4
    <3>10. ASSUME NEW n \in DOMAIN Untold' PROVE Moves(c[n - 1], Untold'[n], c[n])
      <4>1. CASE n = Len(Untold) + 1
        <5>1. c[n - 1] = last /\ c[n] = BookAfter(last, w) /\ Untold'[n] = w
          BY <3>5, <3>6, <3>8, <4>1
        <5> QED
          BY <3>9, <5>1
      <4>2. CASE n # Len(Untold) + 1
        <5>1. n \in DOMAIN Untold /\ c[n - 1] = b[n - 1] /\ c[n] = b[n] /\ Untold'[n] = Untold[n]
          BY <3>5, <3>8, <3>10, <4>2
        <5> QED
          BY <2>1, <5>1
      <4> QED
        BY <4>1, <4>2
    <3>11. c[0] = Booked' /\ EndsAt(c[Len(Untold')], book', trades')
      <4>1. c[0] = Booked /\ c[Len(Untold')] = BookAfter(last, w)
        BY <2>1, <3>5, <3>8
      <4> QED
        BY <1>7, <3>9, <4>1 DEF Booked
    <3> QED
      BY <1>5, <3>10, <3>11 DEF BookTold
  <2> QED
    BY <2>2, <2>3
<1>10. PerfSound' /\ TotalsTold'
  BY <1>6, <1>7, <1>8 DEF PerfSound, TotalsTold
<1> QED
  BY <1>6, <1>7, <1>9, <1>10

(* What one report of performance tells.                                   *)
Report1(u) == PerformanceUpdates(u)[1]

(* Performance takes an update: its totals are then what the update says,  *)
(* with a trade more if a position closed, and the same profit if not.     *)
LEMMA PerfMoves ==
  ASSUME PerfSound, NEW u, NEW y, Moves(Booked, u, y), perf' = AppliedPerf(perf, u)
  PROVE  /\ PerfSound' /\ Booked' = y /\ Leads(Totals(perf), Totals(perf)')
         /\ perf'.realized = u.realized
<1> DEFINE t == perf.trades
           e == [symbol |-> u.symbol, pnl |-> u.realized - perf.realized]
<1>1. /\ IsSequence(t) /\ (\A n \in DOMAIN t : t[n].pnl \in Int) /\ PnL(t) = perf.realized
  BY DEF PerfSound
<1>2. /\ u.open \in BOOLEAN /\ u.realized \in Int /\ (u.open <=> u.symbol \notin perf.open)
      /\ (u.open => u.realized = perf.realized) /\ y = BookAfter(Booked, u)
  BY DEF Moves, Booked
<1>3. /\ perf'.open = IF u.open THEN perf.open \union {u.symbol} ELSE perf.open \ {u.symbol}
      /\ perf'.realized = u.realized /\ perf'.trades = TradesAfter(perf, u)
  BY DEF AppliedPerf
<1>4. y = [held |-> perf'.open, realized |-> perf'.realized,
           closed |-> Len(t) + IF u.open THEN 0 ELSE 1]
  BY <1>2, <1>3 DEF BookAfter, Booked
<1>5. perf.realized \in Int /\ Len(t) \in Nat
  <2>2. PICK x : x = [symbol |-> 0, pnl |-> 0]
    OBVIOUS
  <2>3. x.pnl \in Int
    BY <2>2
  <2> QED
    BY <1>1, <2>3, TradeAdds, Appended
<1>6. Totals(perf)' = [trades |-> Len(perf'.trades), realized |-> perf'.realized]
        /\ Totals(perf) = [trades |-> Len(t), realized |-> perf.realized]
  BY DEF Totals
<1>7. CASE u.open
  <2>1. perf'.trades = t
    BY <1>3, <1>7 DEF TradesAfter
  <2>2. PerfSound' /\ perf'.realized = perf.realized
    BY <1>1, <1>2, <1>3, <1>7, <2>1 DEF PerfSound
  <2>3. Booked' = y
    BY <1>4, <1>5, <1>7, <2>1 DEF Booked
  <2>4. Leads(Totals(perf), Totals(perf)')
    BY <1>5, <1>6, <2>1, <2>2 DEF Leads
  <2> QED
    BY <1>3, <2>2, <2>3, <2>4
<1>8. CASE ~u.open
  <2>1. perf'.trades = Append(t, e)
    BY <1>2, <1>3, <1>8 DEF TradesAfter
  <2>2. e.pnl = u.realized - perf.realized /\ e.pnl \in Int
    BY <1>2, <1>5
  <2> HIDE DEF e
  <2>3. PnL(Append(t, e)) = u.realized
    <3>1. PnL(Append(t, e)) = PnL(t) + e.pnl
      BY <1>1, <2>2, TradeAdds
    <3> QED
      BY <1>1, <1>2, <1>5, <2>2, <3>1
  <2>4. /\ IsSequence(Append(t, e)) /\ Len(Append(t, e)) = Len(t) + 1
        /\ DOMAIN t = 1 .. Len(t) /\ DOMAIN Append(t, e) = 1 .. Len(t) + 1
        /\ (\A n \in 1 .. Len(t) : Append(t, e)[n] = t[n]) /\ Append(t, e)[Len(t) + 1] = e
    BY <1>1, Appended
  <2>5. \A n \in DOMAIN Append(t, e) : Append(t, e)[n].pnl \in Int
    <3> TAKE n \in DOMAIN Append(t, e)
    <3>1. CASE n = Len(t) + 1
      BY <2>2, <2>4, <3>1
    <3>2. CASE n # Len(t) + 1
      BY <1>1, <1>5, <2>4, <3>2
    <3> QED
      BY <3>1, <3>2
  <2>6. PerfSound'
    BY <1>3, <2>1, <2>3, <2>4, <2>5 DEF PerfSound
  <2>7. Booked' = y
    BY <1>4, <1>8, <2>1, <2>4 DEF Booked
  <2>8. Leads(Totals(perf), Totals(perf)')
    BY <1>2, <1>3, <1>5, <1>6, <2>1, <2>4 DEF Leads
  <2> QED
    BY <1>3, <2>6, <2>7, <2>8
<1> QED
  BY <1>2, <1>7, <1>8

(* Performance takes the next update, and reports its totals.              *)
LEMMA PerformanceKeeps ==
  ASSUME FlowTyped, TradesInv, PerformanceHandles PROVE TradesInv'
<1>1. PICK u : u = Next1("performance")
  OBVIOUS
<1>2. /\ Waiting("performance") /\ perf' = AppliedPerf(perf, u)
      /\ Publish(PerformanceUpdates(u), "performance")
      /\ evaluations' = evaluations /\ book' = book /\ trades' = trades /\ BoxesTyped
  BY <1>1 DEF PerformanceHandles, HandlePortfolio, worldVars, FlowTyped
<1>3. SUFFICES ASSUME ~lost'
               PROVE  /\ PerfSound' /\ BookTold' /\ TotalsTold'
                      /\ \A s \in DOMAIN evaluations' : SoundEvaluation(evaluations'[s])
  BY <1>2 DEF TradesInv, BookTyped
<1>4. enabled' = enabled /\ ~lost
  BY <1>2, <1>3, PublishDoes
<1>5. /\ PerfSound /\ BookTold /\ TotalsTold
      /\ \A s \in DOMAIN evaluations : SoundEvaluation(evaluations[s])
  BY <1>4 DEF TradesInv
<1>6. /\ u = Untold[1] /\ Untold # <<>> /\ IsSequence(Untold) /\ inbox["performance"] # <<>>
  BY <1>1, <1>2, TakenBy, TradersHear DEF Untold
<1>7. PICK v : v = Report1(u)
  OBVIOUS
<1>8. /\ PerformanceUpdates(u) = <<v>> /\ "type" \in DOMAIN v /\ v.type = "performance"
      /\ {"trades", "realized"} \subseteq DOMAIN v
      /\ v.trades = Len(AppliedPerf(perf, u).trades) /\ v.realized = AppliedPerf(perf, u).realized
  BY <1>7 DEF Report1, PerformanceUpdates
<1>9. Untold' = Tail(Untold)
  <2>1. \A n \in DOMAIN <<v>> : "type" \in DOMAIN <<v>>[n] /\ <<v>>[n].type \notin Listening["performance"]
    BY <1>8, TradersHear
  <2>2. inbox'["performance"] = Queue("performance", "performance")
    BY <1>2, <1>6, <1>8, <2>1, TradersHear, UnheardBy
  <2> QED
    BY <2>2 DEF Queue, Untold
<1>10. /\ Len(Untold') = Len(Untold) - 1 /\ Len(Untold) \in Nat \ {0}
       /\ DOMAIN Untold = 1 .. Len(Untold) /\ DOMAIN Untold' = 1 .. Len(Untold) - 1
       /\ \A n \in 1 .. Len(Untold) - 1 : Untold'[n] = Untold[n + 1]
  BY <1>6, <1>9, Tailed
<1>11. PICK b : /\ b[0] = Booked
                /\ \A n \in DOMAIN Untold : Moves(b[n - 1], Untold[n], b[n])
                /\ "performance" \in enabled => EndsAt(b[Len(Untold)], book, trades)
  BY <1>5 DEF BookTold
<1>12. Moves(Booked, u, b[1])
  <2>1. 1 \in DOMAIN Untold /\ 1 - 1 = 0
    BY <1>10
  <2> QED
    BY <1>6, <1>11, <2>1
<1>13. /\ PerfSound' /\ Booked' = b[1] /\ Leads(Totals(perf), Totals(perf)')
       /\ perf'.realized = u.realized
  BY <1>2, <1>5, <1>12, PerfMoves
<1>14. BookTold'
  <2>1. PICK c : c = [n \in 0 .. Len(Untold) - 1 |-> b[n + 1]]
    OBVIOUS
  <2>2. \A n \in 0 .. Len(Untold) - 1 : c[n] = b[n + 1]
    BY <2>1
  <2>3. c[0] = Booked'
    BY <1>10, <1>13, <2>2
  <2>4. ASSUME NEW n \in DOMAIN Untold' PROVE Moves(c[n - 1], Untold'[n], c[n])
    <3>1. /\ c[n - 1] = b[n] /\ c[n] = b[n + 1] /\ Untold'[n] = Untold[n + 1]
          /\ n + 1 \in DOMAIN Untold /\ (n + 1) - 1 = n
      <4>1. n \in Nat \ {0} /\ n <= Len(Untold) - 1
        BY <1>10, <2>4
      <4>2. n - 1 \in 0 .. Len(Untold) - 1 /\ n \in 0 .. Len(Untold) - 1 /\ (n - 1) + 1 = n
        BY <1>10, <4>1
      <4>3. c[n - 1] = b[n]
        <5>1. c[n - 1] = b[(n - 1) + 1]
          BY <2>2, <4>2
        <5> QED
          BY <4>2, <5>1
      <4>4. c[n] = b[n + 1]
        BY <2>2, <4>2
      <4>5. n + 1 \in DOMAIN Untold /\ (n + 1) - 1 = n
        BY <1>10, <4>1
      <4>6. Untold'[n] = Untold[n + 1]
        BY <1>10, <2>4
      <4> QED
        BY <4>3, <4>4, <4>5, <4>6
    <3>2. Moves(b[(n + 1) - 1], Untold[n + 1], b[n + 1])
      BY <1>11, <3>1
    <3> QED
      BY <3>1, <3>2
  <2>5. "performance" \in enabled' => EndsAt(c[Len(Untold')], book', trades')
    <3>1. c[Len(Untold')] = b[Len(Untold)]
      BY <1>10, <2>2
    <3> QED
      BY <1>2, <1>4, <1>11, <3>1
  <2> QED
    BY <2>3, <2>4, <2>5 DEF BookTold
<1> DEFINE w == With(v, "ts", now)
<1>16. w.trades = Totals(perf)'.trades /\ w.realized = Totals(perf)'.realized
  <2>1. w.trades = v.trades /\ w.realized = v.realized
    BY <1>8, StampKeeps
  <2> QED
    BY <1>2, <1>8, <2>1 DEF Totals
<1>17. Reports' = Reports \/ Reports' = Append(Reports, w)
  <2>1. Queue("optimization", "performance") = Reports
    BY DEF Queue, Reports
  <2>2. CASE v.type \in Listening["optimization"]
    BY <1>2, <1>8, <2>1, <2>2, TradersHear, HeardBy DEF Reports
  <2>3. CASE v.type \notin Listening["optimization"]
    <3>1. \A n \in DOMAIN <<v>> : "type" \in DOMAIN <<v>>[n] /\ <<v>>[n].type \notin Listening["optimization"]
      BY <1>8, <2>3
    <3> QED
      BY <1>2, <1>8, <2>1, <3>1, TradersHear, UnheardBy DEF Reports
  <2> QED
    BY <2>2, <2>3
<1> HIDE DEF w
<1>18. TotalsTold'
  <2>1. /\ Leads(NewEvaluation, Totals(perf)) /\ Leads(Totals(perf), Totals(perf)')
        /\ \A n \in DOMAIN Reports :
             /\ Leads(NewEvaluation, Reports[n]) /\ Leads(Reports[n], Totals(perf))
             /\ \A m \in DOMAIN Reports : m <= n => Leads(Reports[m], Reports[n])
        /\ \A s \in DOMAIN evaluations :
             /\ Leads(evaluations[s], Totals(perf))
             /\ \A n \in DOMAIN Reports : Leads(evaluations[s], Reports[n])
    BY <1>5, <1>13 DEF TotalsTold
  <2>2. ASSUME NEW x, Leads(x, Totals(perf)) PROVE Leads(x, Totals(perf)') /\ Leads(x, w)
    <3>1. Leads(x, Totals(perf)')
      BY <2>1, <2>2, LeadsOn
    <3> QED
      BY <1>16, <3>1 DEF Leads
  <2>3. Leads(w, Totals(perf)') /\ Leads(w, w)
    BY <1>16, <2>1 DEF Leads
  <2>4. CASE Reports' = Reports
    BY <1>2, <2>1, <2>2, <2>4 DEF TotalsTold
  <2>5. CASE Reports' = Append(Reports, w)
    <3>1. IsSequence(Reports)
      BY <1>2, TradersHear DEF BoxesTyped, Reports
    <3>2. /\ Len(Reports) \in Nat /\ DOMAIN Reports = 1 .. Len(Reports)
          /\ DOMAIN Reports' = 1 .. Len(Reports) + 1
          /\ \A n \in 1 .. Len(Reports) : Reports'[n] = Reports[n]
          /\ Reports'[Len(Reports) + 1] = w
      BY <2>5, <3>1, Appended
    <3>3. ASSUME NEW n \in DOMAIN Reports'
          PROVE  \/ n \in DOMAIN Reports /\ Reports'[n] = Reports[n] /\ n # Len(Reports) + 1
                 \/ n = Len(Reports) + 1 /\ Reports'[n] = w
      BY <3>2
    <3>4. ASSUME NEW n \in DOMAIN Reports'
          PROVE  /\ Leads(NewEvaluation, Reports'[n]) /\ Leads(Reports'[n], Totals(perf)')
                 /\ \A s \in DOMAIN evaluations : Leads(evaluations[s], Reports'[n])
      BY <2>1, <2>2, <2>3, <3>3
    <3>5. ASSUME NEW n \in DOMAIN Reports', NEW m \in DOMAIN Reports', m <= n
          PROVE  Leads(Reports'[m], Reports'[n])
      <4>1. CASE n = Len(Reports) + 1
        BY <2>1, <2>2, <2>3, <3>3, <4>1
      <4>2. CASE n # Len(Reports) + 1
        <5>1. m \in DOMAIN Reports /\ n \in DOMAIN Reports
          BY <3>2, <3>5, <4>2
        <5> QED
          BY <2>1, <3>2, <3>5, <5>1
      <4> QED
        BY <4>1, <4>2
    <3> QED
      BY <1>2, <2>1, <2>2, <3>4, <3>5 DEF TotalsTold
  <2> QED
    BY <1>17, <2>4, <2>5
<1> QED
  BY <1>2, <1>5, <1>13, <1>14, <1>18

(* The profit of a trade more is a win or a loss; without one there is     *)
(* none.                                                                   *)
LEMMA GrossAdds ==
  ASSUME NEW v, SoundEvaluation(v), NEW e, Leads(v, e)
  PROVE  /\ DOMAIN Gross(v, e) = DOMAIN v
         /\ Gross(v, e).profit \in Int /\ Gross(v, e).loss \in Int
         /\ Gross(v, e).profit - Gross(v, e).loss = e.realized
<1> DEFINE delta == e.realized - v.realized
<1>1. /\ DOMAIN v = {"trades", "realized", "profit", "loss", "wins", "avgWin", "avgLoss",
                     "drawdown", "score"}
      /\ v.trades \in Nat /\ v.realized \in Int /\ v.profit \in Int /\ v.loss \in Int
      /\ v.profit - v.loss = v.realized
      /\ e.trades \in Nat /\ e.realized \in Int
      /\ v.trades <= e.trades /\ (v.trades = e.trades => v.realized = e.realized)
  BY DEF SoundEvaluation, Leads
<1>2. delta \in Int
  BY <1>1
<1>3. CASE e.trades <= v.trades \/ delta = 0
  <2>1. Gross(v, e) = v
    BY <1>3 DEF Gross
  <2>2. e.realized = v.realized
    BY <1>1, <1>3
  <2> QED
    BY <1>1, <2>1, <2>2
<1>4. CASE ~(e.trades <= v.trades \/ delta = 0) /\ delta > 0
  <2>1. PICK wins, avg : Gross(v, e) = [v EXCEPT !.profit = @ + delta, !.wins = wins, !.avgWin = avg]
    BY <1>4, Zenon DEF Gross
  <2> HIDE DEF delta
  <2>2. DOMAIN Gross(v, e) = DOMAIN v /\ Gross(v, e).profit = v.profit + delta /\ Gross(v, e).loss = v.loss
    BY <1>1, <2>1
  <2> QED
    BY <1>1, <1>2, <2>2 DEF delta
<1>5. CASE ~(e.trades <= v.trades \/ delta = 0) /\ ~(delta > 0)
  <2>1. PICK avg : Gross(v, e) = [v EXCEPT !.loss = @ - delta, !.avgLoss = avg]
    BY <1>5, Zenon DEF Gross
  <2> HIDE DEF delta
  <2>2. DOMAIN Gross(v, e) = DOMAIN v /\ Gross(v, e).profit = v.profit /\ Gross(v, e).loss = v.loss - delta
    BY <1>1, <2>1
  <2> QED
    BY <1>1, <1>2, <2>2 DEF delta
<1> QED
  BY <1>3, <1>4, <1>5

(* An evaluation has then heard of what the report tells.                  *)
LEMMA EvaluationMoves ==
  ASSUME NEW e, SoundEvaluation(Evaluation(e.symbol)), Leads(Evaluation(e.symbol), e)
  PROVE  /\ SoundEvaluation(Evaluated(e))
         /\ Evaluated(e).trades = e.trades /\ Evaluated(e).realized = e.realized
<1>1. PICK v : v = Evaluation(e.symbol)
  OBVIOUS
<1>2. PICK g : g = Gross(v, e)
  OBVIOUS
<1>3. /\ DOMAIN g = {"trades", "realized", "profit", "loss", "wins", "avgWin", "avgLoss",
                     "drawdown", "score"}
      /\ g.profit \in Int /\ g.loss \in Int /\ g.profit - g.loss = e.realized
  BY <1>1, <1>2, GrossAdds DEF SoundEvaluation
<1>4. PICK drawdown, score :
        Evaluated(e) = [[g EXCEPT !.trades = e.trades, !.realized = e.realized,
                                  !.drawdown = drawdown] EXCEPT !.score = score]
  BY <1>1, <1>2, Zenon DEF Evaluated
<1>5. e.trades \in Nat /\ e.realized \in Int
  BY DEF Leads
<1>6. /\ DOMAIN Evaluated(e) = DOMAIN g
      /\ Evaluated(e).trades = e.trades /\ Evaluated(e).realized = e.realized
      /\ Evaluated(e).profit = g.profit /\ Evaluated(e).loss = g.loss
  BY <1>3, <1>4
<1> QED
  BY <1>3, <1>5, <1>6 DEF SoundEvaluation

(* A symbol first heard of has an evaluation of nothing.                   *)
LEMMA NothingIsSound == SoundEvaluation(NewEvaluation)
BY DEF SoundEvaluation, NewEvaluation

(* Optimization takes the next report.                                     *)
LEMMA OptimizationKeeps ==
  ASSUME FlowTyped, TradesInv, OptimizationHandles PROVE TradesInv'
<1>1. PICK e : e = Next1("optimization")
  OBVIOUS
<1>2. /\ Waiting("optimization") /\ HandlePerformance(e)
      /\ Publish(OptimizationUpdates(e), "optimization")
      /\ perf' = perf /\ book' = book /\ trades' = trades /\ BoxesTyped
  BY <1>1 DEF OptimizationHandles, worldVars, FlowTyped
<1>3. SUFFICES ASSUME ~lost'
               PROVE  /\ PerfSound' /\ BookTold' /\ TotalsTold'
                      /\ \A s \in DOMAIN evaluations' : SoundEvaluation(evaluations'[s])
  BY <1>2 DEF TradesInv, BookTyped
<1>4. enabled' = enabled /\ ~lost
  BY <1>2, <1>3, PublishDoes
<1>5. /\ PerfSound /\ BookTold /\ TotalsTold
      /\ \A s \in DOMAIN evaluations : SoundEvaluation(evaluations[s])
  BY <1>4 DEF TradesInv
<1>6. /\ e = Reports[1] /\ Reports # <<>> /\ IsSequence(Reports) /\ inbox["optimization"] # <<>>
  BY <1>1, <1>2, TakenBy, TradersHear DEF Reports
<1>7. PICK v : v = OptimizationUpdates(e)[1]
  OBVIOUS
<1>8. OptimizationUpdates(e) = <<v>> /\ "type" \in DOMAIN v /\ v.type = "optimization"
  BY <1>7 DEF OptimizationUpdates
<1>9. Untold' = Untold /\ Reports' = Tail(Reports)
  <2>1. \A n \in DOMAIN <<v>> : /\ "type" \in DOMAIN <<v>>[n]
                                /\ <<v>>[n].type \notin Listening["performance"]
                                /\ <<v>>[n].type \notin Listening["optimization"]
    BY <1>8, TradersHear
  <2>2. inbox'["performance"] = Queue("performance", "optimization")
    BY <1>2, <1>6, <1>8, <2>1, TradersHear, UnheardBy
  <2>3. inbox'["optimization"] = Queue("optimization", "optimization")
    BY <1>2, <1>6, <1>8, <2>1, TradersHear, UnheardBy
  <2> QED
    BY <2>2, <2>3 DEF Queue, Untold, Reports
<1>10. BookTold' /\ PerfSound'
  BY <1>2, <1>4, <1>5, <1>9 DEF BookTold, PerfSound, Booked
<1>11. /\ Len(Reports) \in Nat \ {0} /\ DOMAIN Reports = 1 .. Len(Reports)
       /\ DOMAIN Reports' = 1 .. Len(Reports) - 1
       /\ \A n \in 1 .. Len(Reports) - 1 : Reports'[n] = Reports[n + 1]
  BY <1>6, <1>9, Tailed
<1>12. /\ Leads(NewEvaluation, Totals(perf))
       /\ \A n \in DOMAIN Reports :
            /\ Leads(NewEvaluation, Reports[n]) /\ Leads(Reports[n], Totals(perf))
            /\ \A m \in DOMAIN Reports : m <= n => Leads(Reports[m], Reports[n])
       /\ \A s \in DOMAIN evaluations :
            /\ Leads(evaluations[s], Totals(perf))
            /\ \A n \in DOMAIN Reports : Leads(evaluations[s], Reports[n])
  BY <1>5 DEF TotalsTold
<1>13. 1 \in DOMAIN Reports
  BY <1>11
<1>14. SoundEvaluation(Evaluation(e.symbol)) /\ Leads(Evaluation(e.symbol), e)
  BY <1>5, <1>6, <1>12, <1>13, NothingIsSound DEF Evaluation
<1>15. PICK x : x = Evaluated(e)
  OBVIOUS
<1>16. SoundEvaluation(x) /\ x.trades = e.trades /\ x.realized = e.realized
  BY <1>14, <1>15, EvaluationMoves
<1>17. /\ DOMAIN evaluations' = DOMAIN evaluations \union {e.symbol}
       /\ \A s \in DOMAIN evaluations' :
            evaluations'[s] = x \/ (s \in DOMAIN evaluations /\ evaluations'[s] = evaluations[s])
  BY <1>2, <1>15 DEF HandlePerformance
<1>18. \A s \in DOMAIN evaluations' : SoundEvaluation(evaluations'[s])
  BY <1>5, <1>16, <1>17
<1>19. \A n \in DOMAIN Reports' : n + 1 \in DOMAIN Reports /\ Reports'[n] = Reports[n + 1]
  BY <1>11
<1>20. Leads(x, Totals(perf)) /\ \A n \in DOMAIN Reports' : Leads(x, Reports'[n])
  <2>1. Leads(e, Totals(perf)) /\ \A n \in DOMAIN Reports : Leads(e, Reports[n])
    <3>1. \A n \in DOMAIN Reports : 1 <= n
      BY <1>11
    <3> QED
      BY <1>6, <1>12, <1>13, <3>1
  <2>2. \A z : Leads(e, z) => Leads(x, z)
    BY <1>16 DEF Leads
  <2> QED
    BY <1>19, <2>1, <2>2
<1>21. TotalsTold'
  <2>1. \A s \in DOMAIN evaluations' :
          /\ Leads(evaluations'[s], Totals(perf))
          /\ \A n \in DOMAIN Reports' : Leads(evaluations'[s], Reports'[n])
    BY <1>12, <1>17, <1>19, <1>20
  <2>2. \A n \in DOMAIN Reports' :
          Leads(NewEvaluation, Reports'[n]) /\ Leads(Reports'[n], Totals(perf))
    BY <1>12, <1>19
  <2>3. ASSUME NEW n \in DOMAIN Reports', NEW m \in DOMAIN Reports', m <= n
        PROVE  Leads(Reports'[m], Reports'[n])
    <3>1. m + 1 <= n + 1
      BY <1>11, <2>3
    <3> QED
      BY <1>12, <1>19, <3>1
  <2> QED
    BY <1>2, <1>12, <2>1, <2>2, <2>3 DEF TotalsTold
<1> QED
  BY <1>10, <1>18, <1>21

(* Every step keeps it, whatever the bus loses, as a loss is never undone. *)
LEMMA TradesStep ==
  ASSUME FlowTyped, TradesInv, [FlowNext]_flowVars PROVE TradesInv'
<1>1. CASE PortfolioTrades
  BY <1>1, PortfolioKeeps
<1>2. CASE PerformanceHandles
  BY <1>2, PerformanceKeeps
<1>3. CASE OptimizationHandles
  BY <1>3, OptimizationKeeps
<1>4. CASE ~TradesMove
  <2>1. /\ Untold' = Untold /\ Reports' = Reports /\ enabled' = enabled /\ (lost => lost')
        /\ perf' = perf /\ evaluations' = evaluations /\ book' = book /\ trades' = trades
    BY <1>4, OthersAside
  <2>2. PerfSound => PerfSound'
    BY <2>1 DEF PerfSound
  <2>3. BookTold => BookTold'
    BY <2>1 DEF BookTold, Booked
  <2>4. TotalsTold => TotalsTold'
    BY <2>1 DEF TotalsTold
  <2> QED
    BY <2>1, <2>2, <2>3, <2>4 DEF TradesInv, BookTyped
<1> QED
  BY <1>1, <1>2, <1>3, <1>4 DEF TradesMove

(* At first there is no trade.                                             *)
LEMMA TradesInit == FlowInit => TradesInv
<1> SUFFICES ASSUME FlowInit PROVE TradesInv
  OBVIOUS
<1>1. /\ perf.open = {} /\ perf.realized = 0 /\ perf.trades = <<>> /\ evaluations = <<>>
      /\ book.held = {} /\ book.realized = 0 /\ trades = 0 /\ inbox = [e \in Engines |-> <<>>]
  BY DEF FlowInit, PerformanceInit
<1>2. DOMAIN <<>> = {} /\ IsSequence(<<>>) /\ Len(<<>>) = 0
  BY DEF IsSequence
<1>3. Untold = <<>> /\ Reports = <<>>
  BY <1>1, TradersHear DEF Untold, Reports
<1>4. BookTyped /\ Cardinality(book.held) = 0
  BY <1>1, FS_EmptySet DEF BookTyped
<1>5. PerfSound
  <2>1. PnL(<<>>) = 0
    BY <1>2, SumEmpty DEF PnL
  <2> QED
    BY <1>1, <1>2, <2>1 DEF PerfSound
<1>6. BookTold
  <2>1. PICK b : b = [n \in {0} |-> Booked]
    OBVIOUS
  <2>2. b[0] = Booked
    BY <2>1
  <2>3. EndsAt(Booked, book, trades)
    BY <1>1, <1>2, <1>4 DEF EndsAt, Booked
  <2> QED
    BY <1>2, <1>3, <2>2, <2>3 DEF BookTold
<1>7. TotalsTold
  BY <1>1, <1>2, <1>3 DEF TotalsTold, Leads, Totals, NewEvaluation
<1> QED
  BY <1>1, <1>2, <1>4, <1>5, <1>6, <1>7 DEF TradesInv

(* What it says of the trades, and of those counted when all is handled.   *)
LEMMA TradesThen == TradesInv => TradesTold
<1> SUFFICES ASSUME TradesInv PROVE TradesTold
  OBVIOUS
<1>1. ~lost => TradesAddUp /\ GrossTelescopes
  BY DEF TradesInv, PerfSound, PnL, TradesAddUp, GrossTelescopes, SoundEvaluation
<1>2. ASSUME Quiet, "performance" \in enabled
      PROVE  /\ Len(perf.trades) = (trades - Cardinality(book.held)) \div 2
             /\ perf.realized = book.realized
  <2>1. Untold = <<>> /\ BookTold
    BY <1>2, TradersHear DEF Quiet, Untold, TradesInv
  <2>2. Len(<<>>) = 0
    OBVIOUS
  <2>3. EndsAt(Booked, book, trades)
    BY <1>2, <2>1, <2>2 DEF BookTold
  <2>4. PICK k, c : k = Len(perf.trades) /\ c = Cardinality(book.held)
    OBVIOUS
  <2>5. k \in Nat /\ trades = 2 * k + c /\ perf.realized = book.realized
    BY <2>3, <2>4 DEF EndsAt, Booked
  <2>6. c \in Nat
    BY <2>4, FS_CardinalityType DEF TradesInv, BookTyped
  <2>7. (2 * k) \div 2 = k
    BY <2>5
  <2>8. trades - c = 2 * k
    BY <2>5, <2>6
  <2> QED
    BY <2>4, <2>5, <2>7, <2>8
<1> QED
  BY <1>1, <1>2 DEF TradesTold, TradesCounted

(* Whatever the engines do and in whatever order: as long as the bus has   *)
(* dropped nothing, the trades performance recorded add up to the profit   *)
(* it was told of, and the wins and losses of every evaluation to what it  *)
(* last heard. When all is handled, every trade the portfolio closed is    *)
(* counted and the profit is the portfolio's.                              *)
THEOREM TradesToldHolds == FlowSpec => []TradesTold
<1> DEFINE Inv == FlowTyped /\ TradesInv
<1>1. FlowInit => Inv
  BY DocumentsInit, TradesInit DEF DocumentsInv
<1>2. Inv /\ [FlowNext]_flowVars => Inv'
  BY FlowTypes, TradesStep
<1>3. Inv => TradesTold
  BY TradesThen
<1> QED
  BY <1>1, <1>2, <1>3, PTL DEF FlowSpec

===============================================================================
