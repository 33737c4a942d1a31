--------------------------- MODULE EventBusProofs ---------------------------
(***************************************************************************)
(* Safety of the event bus for any number of publishers and readers, any   *)
(* filters and buffer sizes, and any bound on the calls to Publish.        *)
(***************************************************************************)
EXTENDS EventBus, FiniteSetTheorems, TLAPS

(* Outside Publish a publisher has no subscriber left to visit.            *)
Idle == \A p \in Publishers : event[p] = None => todo[p] = {}

Typed == TypeOK /\ Idle

LEMMA NoneIsNoEvent == None \notin Event
  BY DEF None, Event

(* Well-typed states: the base of every other argument in this module.     *)
THEOREM Typing == Spec => []Typed
<1>1. Init => Typed
  <2> SUFFICES ASSUME Init PROVE Typed
    OBVIOUS
  <2>1. sent \in [Publishers -> 0 .. Quota]
    BY QuotaNat DEF Init
  <2>2. /\ ch \in [Readers -> Seq(Event)]
        /\ got \in [Readers -> Seq(Event)]
    BY DEF Init
  <2>3. /\ cap \in [Readers -> Nat \ {0}]
        /\ dropped \in [Readers -> Nat]
        /\ offered \in [Readers -> Nat]
    BY DEF Init
  <2>4. /\ closed \in BOOLEAN /\ subs \subseteq Readers
        /\ filter \in [Readers -> SUBSET Kinds]
        /\ chClosed \in [Readers -> BOOLEAN]
        /\ reader \in [Readers -> {"idle", "reading", "ended"}]
        /\ todo \in [Publishers -> SUBSET Readers]
        /\ event \in [Publishers -> Event \union {None}]
        /\ Idle
    BY DEF Init, Idle
  <2>5. QED BY <2>1, <2>2, <2>3, <2>4 DEF TypeOK, Typed
<1>2. Typed /\ [Next]_vars => Typed'
  <2> SUFFICES ASSUME Typed, [Next]_vars PROVE Typed'
    OBVIOUS
  <2> USE DEF Typed, TypeOK, Idle, busVars, chanVars, readerVars, pubVars
  <2>1. ASSUME NEW p \in Publishers, NEW k \in Kinds, PublishBegin(p, k)
        PROVE  Typed'
    <3> DEFINE e == [from |-> p, n |-> sent[p] + 1, kind |-> k]
    <3>1. e \in Event
      BY <2>1, QuotaNat DEF PublishBegin, Event
    <3>2. e # None
      BY <3>1, NoneIsNoEvent
    <3>3. sent' \in [Publishers -> 0 .. Quota]
      BY <2>1, QuotaNat DEF PublishBegin
    <3>4. CASE closed
      BY <2>1, <3>3, <3>4 DEF PublishBegin
    <3>5. CASE ~closed
      <4> HIDE DEF e
      <4>1. /\ event' = [event EXCEPT ![p] = e]
            /\ todo' = [todo EXCEPT ![p] = subs]
            /\ offered' = [r \in Readers |->
                 IF r \in subs /\ Matches(r, e) THEN offered[r] + 1
                                                ELSE offered[r]]
        BY <2>1, <3>5 DEF PublishBegin, e
      <4>2. offered' \in [Readers -> Nat]
        BY <4>1
      <4>3. event' \in [Publishers -> Event \union {None}]
        BY <4>1, <3>1
      <4>4. todo' \in [Publishers -> SUBSET Readers] /\ Idle'
        BY <4>1, <3>2
      <4>5. QED BY <2>1, <3>3, <4>2, <4>3, <4>4 DEF PublishBegin
    <3>6. QED BY <3>4, <3>5
  <2>2. ASSUME NEW p \in Publishers, NEW r \in Readers, Visit(p, r)
        PROVE  Typed'
    <3>1. event[p] \in Event
      BY <2>2 DEF Visit
    <3>2. Append(ch[r], event[p]) \in Seq(Event)
      BY <3>1
    <3>3. ch' \in [Readers -> Seq(Event)]
      BY <2>2, <3>2 DEF Visit
    <3>4. QED BY <2>2, <3>3 DEF Visit
  <2>3. ASSUME NEW p \in Publishers, PublishEnd(p)
        PROVE  Typed'
    BY <2>3 DEF PublishEnd
  <2>4. ASSUME NEW r \in Readers, Receive(r)
        PROVE  Typed'
    <3>1. /\ Tail(ch[r]) \in Seq(Event)
          /\ Append(got[r], Head(ch[r])) \in Seq(Event)
      BY <2>4 DEF Receive
    <3>2. QED BY <2>4, <3>1 DEF Receive
  <2>5. ASSUME NEW r \in Readers, ReceiveClosed(r)
        PROVE  Typed'
    BY <2>5 DEF ReceiveClosed
  <2>6. ASSUME NEW r \in Readers, NEW b \in Buffers, NEW f \in SUBSET Kinds,
               Subscribe(r, b, f)
        PROVE  Typed'
    <3>1. cap' \in [Readers -> Nat \ {0}]
      BY <2>6, BuffersNat DEF Subscribe
    <3>2. /\ chClosed' \in [Readers -> BOOLEAN]
          /\ subs' \subseteq Readers
      BY <2>6 DEF Subscribe
    <3>3. QED BY <2>6, <3>1, <3>2 DEF Subscribe
  <2>7. ASSUME NEW r \in Readers, Remove(r)
        PROVE  Typed'
    BY <2>7 DEF Remove
  <2>8. CASE Close
    <3>1. chClosed' \in [Readers -> BOOLEAN]
      BY <2>8 DEF Close
    <3>2. QED BY <2>8, <3>1 DEF Close
  <2>9. CASE UNCHANGED vars
    BY <2>9 DEF vars
  <2>10. QED
    BY <2>1, <2>2, <2>3, <2>4, <2>5, <2>6, <2>7, <2>8, <2>9
       DEF Next, PublishStep, ReaderStep
<1>3. QED BY <1>1, <1>2, PTL DEF Spec

-----------------------------------------------------------------------------
(* A reader that has not subscribed has a channel nobody wrote to.         *)
Fresh == \A r \in Readers :
           reader[r] = "idle" => r \notin subs /\ ~chClosed[r] /\ ch[r] = <<>>

(* Registered subscribers are open, bounded and the only ones visited.     *)
Open == NoSendOnClosed /\ Fresh /\ Bounded

LEMMA OpenInductive == ASSUME Typed, Open, [Next]_vars PROVE Open'
<1> USE DEF Typed, TypeOK, Idle, Open, NoSendOnClosed, Fresh, Bounded,
            busVars, chanVars, readerVars, pubVars
<1>1. ASSUME NEW p \in Publishers, NEW k \in Kinds, PublishBegin(p, k)
      PROVE  Open'
  BY <1>1 DEF PublishBegin
<1>2. ASSUME NEW p \in Publishers, NEW r \in Readers, Visit(p, r)
      PROVE  Open'
  <2>1. r \in subs /\ reader[r] # "idle"
    BY <1>2 DEF Visit
  <2>2. NoSendOnClosed'
    BY <1>2 DEF Visit
  <2>3. event[p] \in Event
    BY <1>2 DEF Visit
  <2>4. ASSUME NEW q \in Readers PROVE Len(ch'[q]) <= cap[q]
    <3>1. CASE q = r
      BY <1>2, <2>3, <3>1 DEF Visit, Room
    <3>2. CASE q # r
      BY <1>2, <3>2 DEF Visit
    <3>3. QED BY <3>1, <3>2
  <2>5. Fresh'
    BY <1>2, <2>1 DEF Visit
  <2>6. QED BY <1>2, <2>2, <2>4, <2>5 DEF Visit
<1>3. ASSUME NEW p \in Publishers, PublishEnd(p)
      PROVE  Open'
  BY <1>3 DEF PublishEnd
<1>4. ASSUME NEW r \in Readers, Receive(r)
      PROVE  Open'
  BY <1>4 DEF Receive
<1>5. ASSUME NEW r \in Readers, ReceiveClosed(r)
      PROVE  Open'
  BY <1>5 DEF ReceiveClosed
<1>6. ASSUME NEW r \in Readers, NEW b \in Buffers, NEW f \in SUBSET Kinds,
             Subscribe(r, b, f)
      PROVE  Open'
  BY <1>6, BuffersNat DEF Subscribe
<1>7. ASSUME NEW r \in Readers, Remove(r)
      PROVE  Open'
  BY <1>7 DEF Remove, Unlocked
<1>8. CASE Close
  BY <1>8 DEF Close, Unlocked
<1>9. CASE UNCHANGED vars
  BY <1>9 DEF vars
<1>10. QED
  BY <1>1, <1>2, <1>3, <1>4, <1>5, <1>6, <1>7, <1>8, <1>9
     DEF Next, PublishStep, ReaderStep

(* No Publish ever sends on a closed channel, and a closed bus keeps no    *)
(* subscriber: the lock discipline of eventbus.go, for any number of       *)
(* goroutines.                                                             *)
THEOREM NeverSendsOnClosed == Spec => []NoSendOnClosed
<1>1. Init => Open
  BY DEF Init, Open, NoSendOnClosed, Fresh, Bounded
<1>2. Spec => []Typed
  BY Typing
<1>3. QED BY <1>1, <1>2, OpenInductive, PTL DEF Spec, Open

(* No channel ever holds more than its capacity, and none has capacity 0.  *)
THEOREM ChannelsBounded == Spec => []Bounded
<1>1. Init => Open
  BY DEF Init, Open, NoSendOnClosed, Fresh, Bounded
<1>2. Spec => []Typed
  BY Typing
<1>3. QED BY <1>1, <1>2, OpenInductive, PTL DEF Spec, Open

-----------------------------------------------------------------------------
(* A publisher that has visited r is no longer awaited there, one that     *)
(* starts is awaited exactly when its event matches, and no other step     *)
(* changes who is awaited.                                                 *)
LEMMA AwaitedCard ==
  ASSUME NEW r \in Readers
  PROVE  IsFiniteSet(Awaited(r)) /\ Cardinality(Awaited(r)) \in Nat
<1>1. Awaited(r) \subseteq Publishers
  BY DEF Awaited
<1>2. QED BY <1>1, PublishersFinite, FS_Subset, FS_CardinalityType

LEMMA ConservationInductive ==
  ASSUME Typed, Open, Conservation, [Next]_vars PROVE Conservation'
<1> USE DEF Typed, TypeOK, Idle, Open, NoSendOnClosed, Fresh,
            busVars, chanVars, readerVars, pubVars
<1> DEFINE Same(q) == Awaited(q)' = Awaited(q)
<1>0. ASSUME NEW q \in Readers
      PROVE  /\ IsFiniteSet(Awaited(q)) /\ Cardinality(Awaited(q)) \in Nat
             /\ offered[q] = Len(got[q]) + Len(ch[q]) + dropped[q]
                             + Cardinality(Awaited(q))
  BY AwaitedCard DEF Conservation
<1>1. ASSUME NEW p \in Publishers, NEW k \in Kinds, PublishBegin(p, k)
      PROVE  Conservation'
  <2> DEFINE e == [from |-> p, n |-> sent[p] + 1, kind |-> k]
  <2>1. CASE closed
    <3>1. \A q \in Readers : Same(q)
      BY <1>1, <2>1 DEF PublishBegin, Awaited, Matches
    <3>2. QED BY <1>1, <2>1, <3>1, <1>0 DEF PublishBegin, Conservation
  <2>2. CASE ~closed
    <3>1. /\ event' = [event EXCEPT ![p] = e]
          /\ todo' = [todo EXCEPT ![p] = subs]
          /\ todo[p] = {}
          /\ UNCHANGED <<filter, ch, got, dropped>>
          /\ \A q \in Readers :
               offered'[q] = IF q \in subs /\ Matches(q, e)
                               THEN offered[q] + 1 ELSE offered[q]
      BY <1>1, <2>2 DEF PublishBegin
    <3> HIDE DEF e
    <3>2. ASSUME NEW q \in Readers
          PROVE  offered'[q] = Len(got'[q]) + Len(ch'[q]) + dropped'[q]
                               + Cardinality(Awaited(q)')
      <4>1. CASE q \in subs /\ Matches(q, e)
        <5>1. Awaited(q)' = Awaited(q) \union {p} /\ p \notin Awaited(q)
          BY <3>1, <4>1 DEF Awaited, Matches
        <5>2. Cardinality(Awaited(q)') = Cardinality(Awaited(q)) + 1
          BY <5>1, <1>0, FS_AddElement
        <5>3. QED BY <5>2, <3>1, <4>1, <1>0
      <4>2. CASE ~(q \in subs /\ Matches(q, e))
        <5>1. Same(q)
          BY <3>1, <4>2 DEF Awaited, Matches
        <5>2. QED BY <5>1, <3>1, <4>2, <1>0
      <4>3. QED BY <4>1, <4>2
    <3>3. QED BY <3>2 DEF Conservation
  <2>3. QED BY <2>1, <2>2
<1>2. ASSUME NEW p \in Publishers, NEW r \in Readers, Visit(p, r)
      PROVE  Conservation'
  <2>1. event[p] \in Event
    BY <1>2 DEF Visit
  <2>2. ASSUME NEW q \in Readers, q # r
        PROVE  Same(q) /\ ch'[q] = ch[q] /\ dropped'[q] = dropped[q]
    BY <1>2, <2>2 DEF Visit, Awaited, Matches
  <2>3. /\ offered' = offered /\ got' = got
        /\ todo' = [todo EXCEPT ![p] = @ \ {r}]
        /\ event' = event /\ filter' = filter /\ r \in todo[p]
    BY <1>2 DEF Visit
  <2>4. CASE Matches(r, event[p])
    <3>1. Awaited(r)' = Awaited(r) \ {p} /\ p \in Awaited(r)
      BY <2>3, <2>4 DEF Awaited, Matches
    <3>2. Cardinality(Awaited(r)') = Cardinality(Awaited(r)) - 1
      BY <3>1, <1>0, FS_RemoveElement
    <3>3. Len(ch'[r]) + dropped'[r] = Len(ch[r]) + dropped[r] + 1
      <4>1. CASE Room(r)
        BY <1>2, <2>1, <2>4, <4>1 DEF Visit
      <4>2. CASE ~Room(r)
        BY <1>2, <2>1, <2>4, <4>2 DEF Visit
      <4>3. QED BY <4>1, <4>2
    <3>4. Len(ch'[r]) \in Nat /\ dropped'[r] \in Nat
      <4>1. CASE Room(r)
        BY <1>2, <2>1, <2>4, <4>1 DEF Visit
      <4>2. CASE ~Room(r)
        BY <1>2, <2>1, <2>4, <4>2 DEF Visit
      <4>3. QED BY <4>1, <4>2
    <3>5. offered'[r] = Len(got'[r]) + Len(ch'[r]) + dropped'[r]
                        + Cardinality(Awaited(r)')
      <4> DEFINE o == offered[r]
                 g == Len(got[r])
                 c == Len(ch[r])
                 d == dropped[r]
                 k == Cardinality(Awaited(r))
                 c1 == Len(ch'[r])
                 d1 == dropped'[r]
      <4>1. /\ o \in Nat /\ g \in Nat /\ c \in Nat /\ d \in Nat /\ k \in Nat
            /\ c1 \in Nat /\ d1 \in Nat
            /\ o = g + c + d + k
            /\ c1 + d1 = c + d + 1
        BY <1>0, <3>3, <3>4
      <4>2. /\ offered'[r] = o
            /\ Len(got'[r]) = g
            /\ Cardinality(Awaited(r)') = k - 1
        BY <2>3, <3>2
      <4> HIDE DEF o, g, c, d, k, c1, d1
      <4>3. o = g + c1 + d1 + (k - 1)
        BY <4>1
      <4>4. QED BY <4>2, <4>3 DEF c1, d1
    <3>6. QED BY <3>5, <2>2, <2>3, <1>0 DEF Conservation
  <2>5. CASE ~Matches(r, event[p])
    <3>1. Same(r) /\ ch' = ch /\ dropped' = dropped
      BY <1>2, <2>3, <2>5 DEF Visit, Awaited, Matches
    <3>2. ASSUME NEW q \in Readers
          PROVE  /\ Same(q) /\ ch'[q] = ch[q] /\ dropped'[q] = dropped[q]
                 /\ got'[q] = got[q] /\ offered'[q] = offered[q]
      BY <3>1, <2>2, <2>3
    <3> HIDE DEF Same
    <3>3. ASSUME NEW q \in Readers
          PROVE  offered'[q] = Len(got'[q]) + Len(ch'[q]) + dropped'[q]
                               + Cardinality(Awaited(q)')
      BY <3>2, <1>0 DEF Same
    <3>4. QED BY <3>3 DEF Conservation
  <2>6. QED BY <2>4, <2>5
<1>3. ASSUME NEW p \in Publishers, PublishEnd(p)
      PROVE  Conservation'
  <2>1. \A q \in Readers : Same(q)
    BY <1>3 DEF PublishEnd, Awaited, Matches
  <2>2. QED BY <1>3, <2>1, <1>0 DEF PublishEnd, Conservation
<1>4. ASSUME NEW r \in Readers, Receive(r)
      PROVE  Conservation'
  <2>1. \A q \in Readers : Same(q)
    BY <1>4 DEF Receive, Awaited, Matches
  <2>2. /\ Len(Tail(ch[r])) = Len(ch[r]) - 1
        /\ Len(Append(got[r], Head(ch[r]))) = Len(got[r]) + 1
        /\ Len(got[r]) \in Nat /\ Len(ch[r]) \in Nat \ {0}
    BY <1>4 DEF Receive
  <2>3. ASSUME NEW q \in Readers
        PROVE  /\ Len(got'[q]) + Len(ch'[q]) = Len(got[q]) + Len(ch[q])
               /\ Len(got'[q]) \in Nat /\ Len(ch'[q]) \in Nat
    <3>1. CASE q = r
      BY <1>4, <2>2, <3>1 DEF Receive
    <3>2. CASE q # r
      BY <1>4, <3>2 DEF Receive
    <3>3. QED BY <3>1, <3>2
  <2>4. QED BY <1>4, <2>1, <2>3, <1>0 DEF Receive, Conservation
<1>5. ASSUME NEW r \in Readers, ReceiveClosed(r)
      PROVE  Conservation'
  <2>1. \A q \in Readers : Same(q)
    BY <1>5 DEF ReceiveClosed, Awaited, Matches
  <2>2. QED BY <1>5, <2>1, <1>0 DEF ReceiveClosed, Conservation
<1>6. ASSUME NEW r \in Readers, NEW b \in Buffers, NEW f \in SUBSET Kinds,
             Subscribe(r, b, f)
      PROVE  Conservation'
  <2>1. \A q \in Readers : Same(q)
    BY <1>6 DEF Subscribe, Unlocked, Awaited, Matches
  <2>2. QED BY <1>6, <2>1, <1>0 DEF Subscribe, Conservation
<1>7. ASSUME NEW r \in Readers, Remove(r)
      PROVE  Conservation'
  <2>1. \A q \in Readers : Same(q)
    BY <1>7 DEF Remove, Awaited, Matches
  <2>2. QED BY <1>7, <2>1, <1>0 DEF Remove, Conservation
<1>8. CASE Close
  <2>1. \A q \in Readers : Same(q)
    BY <1>8 DEF Close, Awaited, Matches
  <2>2. QED BY <1>8, <2>1, <1>0 DEF Close, Conservation
<1>9. CASE UNCHANGED vars
  <2>1. \A q \in Readers : Same(q)
    BY <1>9 DEF vars, Awaited, Matches
  <2>2. QED BY <1>9, <2>1, <1>0 DEF vars, Conservation
<1>10. QED
  BY <1>1, <1>2, <1>3, <1>4, <1>5, <1>6, <1>7, <1>8, <1>9
     DEF Next, PublishStep, ReaderStep

(* Every published event that matches a subscriber is received, buffered,  *)
(* counted as dropped, or still on its way: Subscription.Dropped never     *)
(* misses one.                                                             *)
THEOREM NothingLostUncounted == Spec => []Conservation
<1>1. Init => Open
  BY DEF Init, Open, NoSendOnClosed, Fresh, Bounded
<1>2. Init => Conservation
  <2> SUFFICES ASSUME Init, NEW r \in Readers
               PROVE  offered[r] = Len(got[r]) + Len(ch[r]) + dropped[r]
                                   + Cardinality(Awaited(r))
    BY DEF Conservation
  <2>1. Awaited(r) = {}
    BY DEF Init, Awaited
  <2>2. QED BY <2>1, FS_EmptySet DEF Init
<1>3. Spec => []Typed
  BY Typing
<1>4. QED BY <1>1, <1>2, <1>3, OpenInductive, ConservationInductive, PTL DEF Spec

-----------------------------------------------------------------------------
(* What a reader has taken or can take from its channel, oldest first.     *)
Seen(r) == got[r] \o ch[r]

(* A publisher's current event carries its latest number; nothing seen is  *)
(* numbered later, and nothing seen by a reader it has still to visit is   *)
(* numbered as late.                                                       *)
Numbered ==
  /\ \A p \in Publishers :
       event[p] # None => event[p].from = p /\ event[p].n = sent[p]
  /\ \A r \in Readers : \A i \in 1 .. Len(Seen(r)) :
       /\ Seen(r)[i].n <= sent[Seen(r)[i].from]
       /\ r \in todo[Seen(r)[i].from] =>
            Seen(r)[i].n < sent[Seen(r)[i].from]

Ordered == Numbered /\ PublisherOrder

LEMMA SeenType == ASSUME Typed, NEW r \in Readers
                  PROVE  /\ Seen(r) \in Seq(Event)
                         /\ \A i \in 1 .. Len(Seen(r)) : Seen(r)[i] \in Event
  BY DEF Typed, TypeOK, Seen

LEMMA SeenReceive == ASSUME Typed, NEW r \in Readers, Receive(r)
                     PROVE  \A q \in Readers : Seen(q)' = Seen(q)
<1> USE DEF Typed, TypeOK
<1>1. Append(got[r], Head(ch[r])) \o Tail(ch[r]) = got[r] \o ch[r]
  BY DEF Receive
<1>2. ASSUME NEW q \in Readers PROVE Seen(q)' = Seen(q)
  <2>1. CASE q = r
    BY <1>1, <2>1 DEF Receive, Seen
  <2>2. CASE q # r
    BY <2>2 DEF Receive, Seen
  <2>3. QED BY <2>1, <2>2
<1>3. QED BY <1>2

LEMMA SeenVisit ==
  ASSUME Typed, NEW p \in Publishers, NEW r \in Readers, Visit(p, r)
  PROVE  /\ \A q \in Readers : q # r => Seen(q)' = Seen(q)
         /\ \/ Seen(r)' = Seen(r)
            \/ Seen(r)' = Append(Seen(r), event[p])
<1> USE DEF Typed, TypeOK, Idle
<1>1. event[p] \in Event
  BY DEF Visit
<1>2. got[r] \o Append(ch[r], event[p]) = Append(got[r] \o ch[r], event[p])
  BY <1>1
<1>3. got' = got /\ (ch' = ch \/ ch' = [ch EXCEPT ![r] = Append(@, event[p])])
  BY DEF Visit, readerVars
<1>4. QED BY <1>2, <1>3 DEF Seen

LEMMA OrderedInductive == ASSUME Typed, Ordered, [Next]_vars PROVE Ordered'
<1> USE DEF busVars, chanVars, readerVars, pubVars
<1>0. /\ event \in [Publishers -> Event \union {None}]
      /\ todo \in [Publishers -> SUBSET Readers]
      /\ sent \in [Publishers -> 0 .. Quota] /\ sent \in [Publishers -> Nat]
      /\ Idle
      /\ \A e \in Event : e.from \in Publishers /\ e.n \in Nat
  BY QuotaNat DEF Typed, TypeOK, Event
<1>S. \A r \in Readers : /\ Seen(r) \in Seq(Event)
                         /\ \A i \in 1 .. Len(Seen(r)) : Seen(r)[i] \in Event
  BY SeenType
<1>1. ASSUME NEW p \in Publishers, NEW k \in Kinds, PublishBegin(p, k)
      PROVE  Ordered'
  <2>1. \A r \in Readers : Seen(r)' = Seen(r)
    BY <1>1 DEF PublishBegin, Seen
  <2>2. /\ sent' = [sent EXCEPT ![p] = @ + 1]
        /\ todo[p] = {} /\ event[p] = None
        /\ \A q \in Publishers \ {p} : event'[q] = event[q] /\ todo'[q] = todo[q]
        /\ event'[p] # None => /\ event'[p].from = p
                               /\ event'[p].n = sent[p] + 1
    BY <1>1, <1>0 DEF PublishBegin, Idle
  <2>3. \A q \in Publishers : event'[q] # None =>
           event'[q].from = q /\ event'[q].n = sent'[q]
    BY <2>2, <1>0 DEF Ordered, Numbered
  <2>4. ASSUME NEW r \in Readers, NEW i \in 1 .. Len(Seen(r))
        PROVE  /\ Seen(r)[i].n <= sent'[Seen(r)[i].from]
               /\ r \in todo'[Seen(r)[i].from] =>
                    Seen(r)[i].n < sent'[Seen(r)[i].from]
    <3> DEFINE e == Seen(r)[i]
    <3>1. e \in Event /\ e.n <= sent[e.from]
          /\ (r \in todo[e.from] => e.n < sent[e.from])
      BY <1>S DEF Ordered, Numbered
    <3> HIDE DEF e
    <3>2. CASE e.from = p
      BY <3>1, <3>2, <2>2, <1>0 DEF e
    <3>3. CASE e.from # p
      BY <3>1, <3>3, <2>2, <1>0 DEF e
    <3>4. QED BY <3>2, <3>3
  <2>5. QED BY <2>1, <2>3, <2>4 DEF Ordered, Numbered, PublisherOrder, Seen
<1>2. ASSUME NEW p \in Publishers, NEW r \in Readers, Visit(p, r)
      PROVE  Ordered'
  <2>1. /\ sent' = sent /\ event' = event
        /\ todo' = [todo EXCEPT ![p] = @ \ {r}]
        /\ r \in todo[p] /\ event[p] \in Event
        /\ event[p].from = p /\ event[p].n = sent[p]
    BY <1>2, <1>0, NoneIsNoEvent DEF Visit, Idle, Ordered, Numbered
  <2>2. ASSUME NEW q \in Readers, Seen(q)' = Seen(q)
        PROVE  \A i \in 1 .. Len(Seen(q)') :
                 /\ Seen(q)'[i].n <= sent'[Seen(q)'[i].from]
                 /\ q \in todo'[Seen(q)'[i].from] =>
                      Seen(q)'[i].n < sent'[Seen(q)'[i].from]
    BY <2>1, <2>2, <1>0, <1>S DEF Ordered, Numbered
  <2>3. ASSUME Seen(r)' = Append(Seen(r), event[p])
        PROVE  /\ \A i \in 1 .. Len(Seen(r)') :
                   /\ Seen(r)'[i].n <= sent'[Seen(r)'[i].from]
                   /\ r \in todo'[Seen(r)'[i].from] =>
                        Seen(r)'[i].n < sent'[Seen(r)'[i].from]
               /\ \A i, j \in 1 .. Len(Seen(r)') :
                    i < j /\ Seen(r)'[i].from = Seen(r)'[j].from
                      => Seen(r)'[i].n < Seen(r)'[j].n
    <3> DEFINE s == Seen(r)
               t == Seen(r)'
    <3>1. /\ s \in Seq(Event) /\ Len(t) = Len(s) + 1
          /\ t[Len(s) + 1] = event[p]
          /\ \A i \in 1 .. Len(s) : t[i] = s[i] /\ s[i] \in Event
          /\ Len(s) \in Nat
      BY <2>1, <2>3, <1>S
    <3>2. \A i \in 1 .. Len(s) :
            /\ s[i].n <= sent[s[i].from]
            /\ r \in todo[s[i].from] => s[i].n < sent[s[i].from]
      BY DEF Ordered, Numbered
    <3>3. \A i, j \in 1 .. Len(s) :
            i < j /\ s[i].from = s[j].from => s[i].n < s[j].n
      BY DEF Ordered, PublisherOrder, Seen
    <3> HIDE DEF s, t
    <3>4. ASSUME NEW i \in 1 .. Len(t)
          PROVE  /\ t[i].n <= sent'[t[i].from]
                 /\ r \in todo'[t[i].from] => t[i].n < sent'[t[i].from]
      <4>1. CASE i = Len(s) + 1
        BY <4>1, <3>1, <2>1, <1>0
      <4>2. CASE i \in 1 .. Len(s)
        BY <4>2, <3>1, <3>2, <2>1, <1>0
      <4>3. QED BY <4>1, <4>2, <3>1
    <3>5. ASSUME NEW i \in 1 .. Len(t), NEW j \in 1 .. Len(t),
                 i < j, t[i].from = t[j].from
          PROVE  t[i].n < t[j].n
      <4>1. i \in 1 .. Len(s)
        BY <3>1, <3>5
      <4>2. CASE j = Len(s) + 1
        BY <4>1, <4>2, <3>1, <3>2, <3>5, <2>1, <1>0
      <4>3. CASE j \in 1 .. Len(s)
        BY <4>1, <4>3, <3>1, <3>3, <3>5
      <4>4. QED BY <4>2, <4>3, <3>1
    <3>6. QED BY <3>4, <3>5 DEF t
  <2>4. \A q \in Readers : q # r => Seen(q)' = Seen(q)
    BY <1>2, SeenVisit
  <2>5. Seen(r)' = Seen(r) \/ Seen(r)' = Append(Seen(r), event[p])
    BY <1>2, SeenVisit
  <2>6. Numbered'
    BY <2>1, <2>2, <2>3, <2>4, <2>5 DEF Ordered, Numbered
  <2>7. ASSUME NEW q \in Readers
        PROVE  \A i, j \in 1 .. Len(Seen(q)') :
                 i < j /\ Seen(q)'[i].from = Seen(q)'[j].from
                   => Seen(q)'[i].n < Seen(q)'[j].n
    <3>1. CASE Seen(q)' = Seen(q)
      BY <3>1 DEF Ordered, PublisherOrder, Seen
    <3>2. CASE Seen(q)' # Seen(q)
      BY <3>2, <2>3, <2>4, <2>5
    <3>3. QED BY <3>1, <3>2
  <2>8. QED BY <2>6, <2>7 DEF Ordered, PublisherOrder, Seen
<1>3. ASSUME NEW p \in Publishers, PublishEnd(p)
      PROVE  Ordered'
  <2>1. \A r \in Readers : Seen(r)' = Seen(r)
    BY <1>3 DEF PublishEnd, Seen
  <2>2. /\ sent' = sent /\ todo' = todo
        /\ \A q \in Publishers : event'[q] # None => event'[q] = event[q]
    BY <1>3, <1>0 DEF PublishEnd
  <2>3. QED BY <2>1, <2>2 DEF Ordered, Numbered, PublisherOrder, Seen
<1>4. ASSUME NEW r \in Readers, Receive(r)
      PROVE  Ordered'
  <2>1. \A q \in Readers : Seen(q)' = Seen(q)
    BY <1>4, SeenReceive
  <2>2. sent' = sent /\ todo' = todo /\ event' = event
    BY <1>4 DEF Receive
  <2>3. QED BY <2>1, <2>2 DEF Ordered, Numbered, PublisherOrder, Seen
<1>5. ASSUME UNCHANGED <<ch, got, pubVars>>
      PROVE  Ordered'
  <2>1. /\ \A r \in Readers : Seen(r)' = Seen(r)
        /\ sent' = sent /\ todo' = todo /\ event' = event
    BY <1>5 DEF Seen
  <2>2. QED BY <2>1 DEF Ordered, Numbered, PublisherOrder, Seen
<1>6. QED
  BY <1>1, <1>2, <1>3, <1>4, <1>5
     DEF Next, PublishStep, ReaderStep, ReceiveClosed, Subscribe, Remove, Close, vars

(* However publishers interleave and whatever is dropped, a reader sees    *)
(* the events of each publisher in the order it published them.            *)
THEOREM OrderKept == Spec => []PublisherOrder
<1>1. Init => Ordered
  BY DEF Init, Ordered, Numbered, PublisherOrder, Seen
<1>2. Spec => []Typed
  BY Typing
<1>3. QED BY <1>1, <1>2, OrderedInductive, PTL DEF Spec, Ordered

-----------------------------------------------------------------------------
LEMMA StatusInit == Init => Promise!Init
<1> SUFFICES ASSUME Init PROVE Promise!Init
  OBVIOUS
<1>1. cap \in [Readers -> Nat \ {0}]
  BY DEF Init
<1>2. [r \in Readers |-> Status(r)] = [r \in Readers |-> "unopened"]
  BY DEF Init, Status
<1>3. QED BY <1>1, <1>2 DEF Init, Promise!Init

(* Every step of the bus is a step of the lossy FIFO to one reader, or to  *)
(* all it closes, or changes nothing a reader can tell.                    *)
LEMMA StepPromised ==
  ASSUME Typed, Open, [Next]_vars PROVE [Promise!Next]_(Promise!vars)
<1> USE DEF Typed, TypeOK, Idle, Open, NoSendOnClosed, Fresh, Bounded,
            busVars, chanVars, readerVars, pubVars
<1> DEFINE status == [r \in Readers |-> Status(r)]
<1>0. ASSUME UNCHANGED <<reader, chClosed>> PROVE status' = status
  BY <1>0 DEF Status
<1>1. ASSUME NEW p \in Publishers, NEW k \in Kinds, PublishBegin(p, k)
      PROVE  UNCHANGED Promise!vars
  BY <1>1, <1>0 DEF PublishBegin, Promise!vars
<1>2. ASSUME NEW p \in Publishers, NEW r \in Readers, Visit(p, r)
      PROVE  [Promise!Next]_(Promise!vars)
  <2>1. status' = status
    BY <1>2, <1>0 DEF Visit
  <2>2. status[r] = "open"
    BY <1>2 DEF Visit, Status
  <2>3. event[p] \in Event /\ UNCHANGED <<cap, got>>
    BY <1>2 DEF Visit
  <2>4. CASE ~Matches(r, event[p])
    BY <1>2, <2>1, <2>3, <2>4 DEF Visit, Promise!vars
  <2>5. CASE Matches(r, event[p]) /\ Room(r)
    <3>1. Promise!Send(r, event[p])
      BY <1>2, <2>1, <2>2, <2>3, <2>5 DEF Visit, Room, Promise!Send
    <3>2. QED BY <3>1, <2>3 DEF Promise!Next
  <2>6. CASE Matches(r, event[p]) /\ ~Room(r)
    <3>1. Len(ch[r]) = cap[r]
      BY <2>6 DEF Room
    <3>2. Promise!Lose(r)
      BY <1>2, <2>1, <2>2, <2>3, <2>6, <3>1 DEF Visit, Promise!Lose
    <3>3. QED BY <3>2 DEF Promise!Next
  <2>7. QED BY <2>4, <2>5, <2>6
<1>3. ASSUME NEW p \in Publishers, PublishEnd(p)
      PROVE  UNCHANGED Promise!vars
  BY <1>3, <1>0 DEF PublishEnd, Promise!vars
<1>4. ASSUME NEW r \in Readers, Receive(r)
      PROVE  Promise!Take(r)
  BY <1>4, <1>0 DEF Receive, Promise!Take
<1>5. ASSUME NEW r \in Readers, ReceiveClosed(r)
      PROVE  UNCHANGED Promise!vars
  <2>1. status' = status
    BY <1>5 DEF ReceiveClosed, Status
  <2>2. QED BY <1>5, <2>1 DEF ReceiveClosed, Promise!vars
<1>6. ASSUME NEW r \in Readers, NEW b \in Buffers, NEW f \in SUBSET Kinds,
             Subscribe(r, b, f)
      PROVE  Promise!Open(r)
  <2>1. status[r] = "unopened"
    BY <1>6 DEF Subscribe, Status
  <2>2. \/ status' = [status EXCEPT ![r] = "open"]
        \/ status' = [status EXCEPT ![r] = "closed"]
    <3>1. \A q \in Readers \ {r} : Status(q)' = Status(q)
      BY <1>6 DEF Subscribe, Status
    <3>2. Status(r)' = "open" \/ Status(r)' = "closed"
      BY <1>6 DEF Subscribe, Status
    <3>3. QED BY <3>1, <3>2
  <2>3. /\ cap' \in [Readers -> Nat \ {0}]
        /\ \A q \in Readers \ {r} : cap'[q] = cap[q]
    BY <1>6, BuffersNat DEF Subscribe
  <2>4. UNCHANGED <<ch, got, dropped>>
    BY <1>6 DEF Subscribe
  <2>5. QED BY <2>1, <2>2, <2>3, <2>4 DEF Promise!Open
<1>7. ASSUME NEW r \in Readers, Remove(r)
      PROVE  Promise!Close({r})
  <2>1. status[r] = "open"
    BY <1>7 DEF Remove, Status
  <2>2. status' = [q \in Readers |-> IF q \in {r} THEN "closed" ELSE status[q]]
    BY <1>7 DEF Remove, Status
  <2>3. QED BY <1>7, <2>1, <2>2 DEF Remove, Promise!Close
<1>8. ASSUME Close
      PROVE  Promise!Close(subs)
  <2>1. \A r \in subs : status[r] = "open"
    BY DEF Status
  <2>2. status' = [q \in Readers |-> IF q \in subs THEN "closed" ELSE status[q]]
    BY <1>8 DEF Close, Status
  <2>3. QED BY <1>8, <2>1, <2>2 DEF Close, Promise!Close
<1>9. ASSUME UNCHANGED vars
      PROVE  UNCHANGED Promise!vars
  BY <1>9, <1>0 DEF vars, Promise!vars
<1> HIDE DEF status
<1>10. QED
  BY <1>1, <1>2, <1>3, <1>4, <1>5, <1>6, <1>7, <1>8, <1>9
     DEF Next, PublishStep, ReaderStep, Promise!Next

(* For any numbers of publishers and readers, the bus is to each reader a  *)
(* lossy FIFO that loses only what does not fit and never reopens.         *)
THEOREM BusIsLossyFifo == Spec => IsLossyFifo
<1>1. Init => Open
  BY DEF Init, Open, NoSendOnClosed, Fresh, Bounded
<1>2. Spec => []Typed
  BY Typing
<1>3. QED
  BY <1>1, <1>2, OpenInductive, StatusInit, StepPromised, PTL
     DEF Spec, IsLossyFifo, Promise!Spec
=============================================================================
