----------------------------- MODULE LossyFifo -----------------------------
(***************************************************************************)
(* What a Subscription promises the goroutine that reads it, and all the   *)
(* engines rely on: items come out once, in the order they went in; an     *)
(* item is lost only when there was no room for it, and the loss is        *)
(* counted; what is queued at the close can still be taken, and nothing is *)
(* added any more. Nothing is said about who sends, or how many.           *)
(***************************************************************************)
EXTENDS Naturals, Sequences

CONSTANTS
  Readers,
  Items

VARIABLES
  room,      \* how many items a reader's queue takes
  queue,     \* what can be taken, oldest first
  received,  \* what was taken
  lost,      \* how many items were lost
  status     \* "unopened", "open" or "closed"

vars == <<room, queue, received, lost, status>>

Init ==
  /\ room \in [Readers -> Nat \ {0}]
  /\ queue = [r \in Readers |-> <<>>]
  /\ received = [r \in Readers |-> <<>>]
  /\ lost = [r \in Readers |-> 0]
  /\ status = [r \in Readers |-> "unopened"]

(* The queue a reader gets may be closed from the start.                   *)
Open(r) ==
  /\ status[r] = "unopened"
  /\ room' \in [Readers -> Nat \ {0}]
  /\ \A q \in Readers \ {r} : room'[q] = room[q]
  /\ \/ status' = [status EXCEPT ![r] = "open"]
     \/ status' = [status EXCEPT ![r] = "closed"]
  /\ UNCHANGED <<queue, received, lost>>

Send(r, i) ==
  /\ status[r] = "open"
  /\ Len(queue[r]) < room[r]
  /\ queue' = [queue EXCEPT ![r] = Append(@, i)]
  /\ UNCHANGED <<room, received, lost, status>>

Lose(r) ==
  /\ status[r] = "open"
  /\ Len(queue[r]) = room[r]
  /\ lost' = [lost EXCEPT ![r] = @ + 1]
  /\ UNCHANGED <<room, queue, received, status>>

Take(r) ==
  /\ queue[r] # <<>>
  /\ received' = [received EXCEPT ![r] = Append(@, Head(queue[r]))]
  /\ queue' = [queue EXCEPT ![r] = Tail(@)]
  /\ UNCHANGED <<room, lost, status>>

(* One reader gives up its queue, or all are closed at once.               *)
Close(rs) ==
  /\ \A r \in rs : status[r] = "open"
  /\ status' = [r \in Readers |-> IF r \in rs THEN "closed" ELSE status[r]]
  /\ UNCHANGED <<room, queue, received, lost>>

Next ==
  \/ \E r \in Readers : Open(r) \/ Lose(r) \/ Take(r)
  \/ \E r \in Readers, i \in Items : Send(r, i)
  \/ \E rs \in SUBSET Readers : Close(rs)

Spec == Init /\ [][Next]_vars
=============================================================================
