------------------------------ MODULE EventBus ------------------------------
(***************************************************************************)
(* The in-process publish/subscribe bus of src/internal/market/eventbus.   *)
(*                                                                         *)
(* Publish holds the read lock while it walks over the subscribers, so two *)
(* publishers interleave subscriber by subscriber, whereas Subscribe,      *)
(* remove and Close hold the write lock and see no publisher half way.     *)
(* A send never blocks: a subscriber whose buffer is full loses the event  *)
(* and its dropped counter is incremented.                                 *)
(*                                                                         *)
(* A reader is the goroutine that owns one Subscription: it subscribes     *)
(* once, receives until its channel is closed and drained, and ends.       *)
(***************************************************************************)
EXTENDS Naturals, Sequences, FiniteSets

CONSTANTS
  Publishers,   \* goroutines that call Publish
  Readers,      \* goroutines that own a Subscription
  Kinds,        \* what a Filter can tell apart of an event
  Buffers,      \* buffer sizes asked for at Subscribe
  Quota         \* bound: calls to Publish by one publisher

ASSUME PublishersFinite == IsFiniteSet(Publishers)
ASSUME BuffersNat == Buffers \subseteq Nat
ASSUME QuotaNat == Quota \in Nat

VARIABLES
  closed,    \* Bus.closed
  subs,      \* the readers whose subscriber is in Bus.subs
  cap,       \* capacity of a reader's channel
  filter,    \* the kinds a reader's Filter lets through
  ch,        \* the events buffered in a reader's channel
  chClosed,  \* whether that channel is closed
  dropped,   \* subscriber.dropped
  reader,    \* where a reader is: "idle", "reading" or "ended"
  got,       \* history: the events a reader received
  offered,   \* history: how many matching events were published to a reader
  sent,      \* how often a publisher called Publish
  todo,      \* the subscribers its Publish has still to visit
  event      \* the event it is publishing, None when it is not in Publish

busVars == <<closed, subs, cap, filter>>
chanVars == <<ch, chClosed, dropped>>
readerVars == <<reader, got>>
pubVars == <<sent, todo, event>>
vars == <<closed, subs, cap, filter, ch, chClosed, dropped, reader, got,
          offered, sent, todo, event>>

Event == [from : Publishers, n : 1 .. Quota, kind : Kinds]
None == [from |-> "none"]

Matches(r, e) == e.kind \in filter[r]

(* The read lock is held by every publisher inside Publish. *)
Unlocked == \A p \in Publishers : event[p] = None

Init ==
  /\ closed = FALSE
  /\ subs = {}
  /\ cap = [r \in Readers |-> 1]
  /\ filter = [r \in Readers |-> {}]
  /\ ch = [r \in Readers |-> <<>>]
  /\ chClosed = [r \in Readers |-> FALSE]
  /\ dropped = [r \in Readers |-> 0]
  /\ reader = [r \in Readers |-> "idle"]
  /\ got = [r \in Readers |-> <<>>]
  /\ offered = [r \in Readers |-> 0]
  /\ sent = [p \in Publishers |-> 0]
  /\ todo = [p \in Publishers |-> {}]
  /\ event = [p \in Publishers |-> None]

-----------------------------------------------------------------------------
(* Subscribe(buffer, f): on a closed bus the caller gets a closed channel. *)
Subscribe(r, b, f) ==
  /\ reader[r] = "idle"
  /\ Unlocked
  /\ cap' = [cap EXCEPT ![r] = IF b < 1 THEN 1 ELSE b]
  /\ filter' = [filter EXCEPT ![r] = f]
  /\ IF closed
       THEN chClosed' = [chClosed EXCEPT ![r] = TRUE] /\ UNCHANGED subs
       ELSE subs' = subs \union {r} /\ UNCHANGED chClosed
  /\ reader' = [reader EXCEPT ![r] = "reading"]
  /\ UNCHANGED <<closed, ch, dropped, got, offered, pubVars>>

RemoveWithoutLock(r) ==
  /\ r \in subs
  /\ subs' = subs \ {r}
  /\ chClosed' = [chClosed EXCEPT ![r] = TRUE]
  /\ UNCHANGED <<closed, cap, filter, ch, dropped, readerVars, offered, pubVars>>

(* Subscription.Close: a second call, or one after Bus.Close, finds no     *)
(* subscriber and changes nothing.                                         *)
Remove(r) ==
  /\ r \in subs
  /\ Unlocked
  /\ subs' = subs \ {r}
  /\ chClosed' = [chClosed EXCEPT ![r] = TRUE]
  /\ UNCHANGED <<closed, cap, filter, ch, dropped, readerVars, offered, pubVars>>

Close ==
  /\ ~closed
  /\ Unlocked
  /\ closed' = TRUE
  /\ subs' = {}
  /\ chClosed' = [r \in Readers |-> chClosed[r] \/ r \in subs]
  /\ UNCHANGED <<cap, filter, ch, dropped, readerVars, offered, pubVars>>

-----------------------------------------------------------------------------
(* Publish takes the read lock; on a closed bus it returns at once.        *)
PublishBegin(p, k) ==
  LET e == [from |-> p, n |-> sent[p] + 1, kind |-> k]
  IN /\ event[p] = None
     /\ sent[p] < Quota
     /\ sent' = [sent EXCEPT ![p] = @ + 1]
     /\ IF closed
          THEN UNCHANGED <<event, todo, offered>>
          ELSE /\ event' = [event EXCEPT ![p] = e]
               /\ todo' = [todo EXCEPT ![p] = subs]
               /\ offered' = [r \in Readers |->
                    IF r \in subs /\ Matches(r, e) THEN offered[r] + 1
                                                   ELSE offered[r]]
     /\ UNCHANGED <<busVars, chanVars, readerVars>>

Room(r) == Len(ch[r]) < cap[r]

VisitBlocking(p, r) ==
  /\ r \in todo[p]
  /\ Matches(r, event[p]) => Room(r)
  /\ ch' = IF Matches(r, event[p])
             THEN [ch EXCEPT ![r] = Append(@, event[p])] ELSE ch
  /\ todo' = [todo EXCEPT ![p] = @ \ {r}]
  /\ UNCHANGED <<busVars, chClosed, dropped, readerVars, offered, sent, event>>

VisitLosingSilently(p, r) ==
  /\ r \in todo[p]
  /\ ch' = IF Matches(r, event[p]) /\ Room(r)
             THEN [ch EXCEPT ![r] = Append(@, event[p])] ELSE ch
  /\ todo' = [todo EXCEPT ![p] = @ \ {r}]
  /\ UNCHANGED <<busVars, chClosed, dropped, readerVars, offered, sent, event>>

VisitInFront(p, r) ==
  LET mine == Matches(r, event[p])
  IN /\ r \in todo[p]
     /\ ch' = IF mine /\ Room(r)
                THEN [ch EXCEPT ![r] = <<event[p]>> \o @] ELSE ch
     /\ dropped' = IF mine /\ ~Room(r)
                     THEN [dropped EXCEPT ![r] = @ + 1] ELSE dropped
     /\ todo' = [todo EXCEPT ![p] = @ \ {r}]
     /\ UNCHANGED <<busVars, chClosed, readerVars, offered, sent, event>>

VisitLosingOldest(p, r) ==
  LET mine == Matches(r, event[p])
  IN /\ r \in todo[p]
     /\ ch' = IF mine THEN [ch EXCEPT ![r] = Append(IF Room(r) THEN @ ELSE Tail(@), event[p])]
                      ELSE ch
     /\ dropped' = IF mine /\ ~Room(r)
                     THEN [dropped EXCEPT ![r] = @ + 1] ELSE dropped
     /\ todo' = [todo EXCEPT ![p] = @ \ {r}]
     /\ UNCHANGED <<busVars, chClosed, readerVars, offered, sent, event>>

(* One iteration of the loop in Publish: filter, then a non-blocking send. *)
Visit(p, r) ==
  LET mine == Matches(r, event[p])
  IN /\ r \in todo[p]
     /\ ch' = IF mine /\ Room(r)
                THEN [ch EXCEPT ![r] = Append(@, event[p])] ELSE ch
     /\ dropped' = IF mine /\ ~Room(r)
                     THEN [dropped EXCEPT ![r] = @ + 1] ELSE dropped
     /\ todo' = [todo EXCEPT ![p] = @ \ {r}]
     /\ UNCHANGED <<busVars, chClosed, readerVars, offered, sent, event>>

PublishEnd(p) ==
  /\ event[p] # None
  /\ todo[p] = {}
  /\ event' = [event EXCEPT ![p] = None]
  /\ UNCHANGED <<busVars, chanVars, readerVars, offered, sent, todo>>

-----------------------------------------------------------------------------
Receive(r) ==
  /\ reader[r] = "reading"
  /\ ch[r] # <<>>
  /\ got' = [got EXCEPT ![r] = Append(@, Head(ch[r]))]
  /\ ch' = [ch EXCEPT ![r] = Tail(@)]
  /\ UNCHANGED <<busVars, chClosed, dropped, reader, offered, pubVars>>

(* evt, ok := <-C with ok = FALSE: the channel is closed and drained.      *)
ReceiveClosed(r) ==
  /\ reader[r] = "reading"
  /\ ch[r] = <<>>
  /\ chClosed[r]
  /\ reader' = [reader EXCEPT ![r] = "ended"]
  /\ UNCHANGED <<busVars, chanVars, got, offered, pubVars>>

PublishStep(p) == \/ \E k \in Kinds : PublishBegin(p, k)
                  \/ \E r \in Readers : Visit(p, r)
                  \/ PublishEnd(p)

ReaderStep(r) == Receive(r) \/ ReceiveClosed(r)

Next ==
  \/ \E p \in Publishers : PublishStep(p)
  \/ \E r \in Readers : ReaderStep(r)
  \/ \E r \in Readers, b \in Buffers, f \in SUBSET Kinds : Subscribe(r, b, f)
  \/ \E r \in Readers : Remove(r)
  \/ Close

Spec == Init /\ [][Next]_vars

(* A goroutine inside Publish holds no blocking operation, so the Go       *)
(* scheduler finishes it. A reader may be busy with an event for as long   *)
(* as it likes: that it comes back for the rest of a closed channel is all *)
(* that is assumed. Nothing forces a Publish, a Subscribe or a Close.      *)
Fairness ==
  /\ \A p \in Publishers :
       WF_vars((\E r \in Readers : Visit(p, r)) \/ PublishEnd(p))
  /\ \A r \in Readers : WF_vars(closed /\ ReaderStep(r))

FairSpec == Spec /\ Fairness

-----------------------------------------------------------------------------
TypeOK ==
  /\ closed \in BOOLEAN
  /\ subs \subseteq Readers
  /\ cap \in [Readers -> Nat \ {0}]
  /\ filter \in [Readers -> SUBSET Kinds]
  /\ ch \in [Readers -> Seq(Event)]
  /\ chClosed \in [Readers -> BOOLEAN]
  /\ dropped \in [Readers -> Nat]
  /\ reader \in [Readers -> {"idle", "reading", "ended"}]
  /\ got \in [Readers -> Seq(Event)]
  /\ offered \in [Readers -> Nat]
  /\ sent \in [Publishers -> 0 .. Quota]
  /\ todo \in [Publishers -> SUBSET Readers]
  /\ event \in [Publishers -> Event \union {None}]

(* Sending on a closed channel panics in Go. Every subscriber a Publish    *)
(* in progress has still to visit is registered and its channel open:      *)
(* remove and Close wait for the publishers, and a closed bus has none.    *)
NoSendOnClosed ==
  /\ \A p \in Publishers : todo[p] \subseteq subs
  /\ \A r \in subs : ~chClosed[r]
  /\ closed => subs = {}

(* The visits of publishers in progress that will reach r.                 *)
Awaited(r) == {p \in Publishers : r \in todo[p] /\ Matches(r, event[p])}

(* No event is lost without being counted: what was published to a reader  *)
(* is what it received, what its channel buffers, what it lost, and what   *)
(* publishers in progress have yet to send (Subscription.Dropped is exact).*)
Conservation ==
  \A r \in Readers :
    offered[r] = Len(got[r]) + Len(ch[r]) + dropped[r] + Cardinality(Awaited(r))

(* The channel of a reader is never over its capacity, which is at least 1 *)
(* whatever buffer was asked for.                                          *)
Bounded == \A r \in Readers : cap[r] >= 1 /\ Len(ch[r]) <= cap[r]

(* A reader sees the events of one publisher in the order it published     *)
(* them, whatever was dropped in between and however publishers interleave *)
PublisherOrder ==
  \A r \in Readers :
    LET seen == got[r] \o ch[r]
    IN \A i, j \in 1 .. Len(seen) :
         i < j /\ seen[i].from = seen[j].from => seen[i].n < seen[j].n

(* Publish never waits for a slow or dead reader: it always returns.       *)
PublishReturns ==
  \A p \in Publishers : event[p] # None ~> event[p] = None

(* Closing the bus ends every reader that has subscribed, so the engines   *)
(* that wait for their consumer goroutine in Close do not wait for ever.   *)
CloseEndsReaders ==
  \A r \in Readers : closed /\ reader[r] = "reading" ~> reader[r] = "ended"

(* What a reader knows of its Subscription.                                *)
Status(r) == IF reader[r] = "idle" THEN "unopened"
             ELSE IF chClosed[r] THEN "closed" ELSE "open"

Promise == INSTANCE LossyFifo
             WITH Items <- Event, room <- cap, queue <- ch, received <- got,
                  lost <- dropped, status <- [r \in Readers |-> Status(r)]

(* To a reader the bus is a lossy FIFO: however publishers interleave with *)
(* each other, with remove and with Close, every visit of a Publish is to  *)
(* it one event added at the end, one lost because there was no room, or   *)
(* nothing; a closed Subscription stays closed and can be drained.         *)
IsLossyFifo == Promise!Spec

(* Nobody waits for ever on the bus: Publish returns however slow its      *)
(* readers are, and closing the bus ends the readers, for whom the engines *)
(* wait in their Close.                                                    *)
NobodyWaits == PublishReturns /\ CloseEndsReaders
=============================================================================
