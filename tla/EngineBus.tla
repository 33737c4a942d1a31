------------------------------ MODULE EngineBus ------------------------------
(***************************************************************************)
(* The bus as the engines see it: one bounded channel per subscription,    *)
(* which drops what finds it full. EventBus has the details of how one     *)
(* publication visits the subscribers; here it is one step.                *)
(***************************************************************************)
EXTENDS Integers, Sequences

CONSTANT Buffer   \* Config.SubscriberBuffer of every engine

ASSUME BufferPositive == Buffer \in Nat \ {0}

VARIABLES
  inbox,        \* engine -> its Subscription.C
  lost          \* whether a Subscription.Dropped counts anything

busVars == <<inbox, lost>>

Offer(queue, wanted) ==
  SubSeq(queue \o wanted, 1,
         IF Len(queue) + Len(wanted) > Buffer THEN Buffer ELSE Len(queue) + Len(wanted))

(* An engine takes an event before it publishes what comes of it.          *)
Queue(engine, from) == IF engine = from THEN Tail(inbox[engine]) ELSE inbox[engine]

(* Bus.Publish of a sequence of events by the engine `from`, where `wants` *)
(* has the event types every subscription's filter accepts. What an engine *)
(* publishes in one step is of one type.                                   *)
Wanted(out, types) == IF \E n \in DOMAIN out : out[n].type \in types THEN out ELSE <<>>
PublishTo(out, from, wants) ==
  /\ inbox' = [e \in DOMAIN inbox |-> Offer(Queue(e, from), Wanted(out, wants[e]))]
  /\ lost' = (lost \/ \E e \in DOMAIN inbox :
                        Len(Queue(e, from)) + Len(Wanted(out, wants[e])) > Buffer)

Waiting(engine) == inbox[engine] # <<>>
Next1(engine) == Head(inbox[engine])
==============================================================================
