---------------------------- MODULE BoundedFifo ----------------------------
(***************************************************************************)
(* What the event queue between two tasks promises: events are delivered   *)
(* once each, in the order they were sent, and an event is refused only    *)
(* when Size events are waiting.                                           *)
(***************************************************************************)
EXTENDS Naturals, Sequences

CONSTANTS
  Items,  \* the events that are sent
  Idle,   \* the receiver's event before the first delivery
  Size    \* how many events the queue holds

VARIABLES
  queue,     \* the events waiting
  accepted,  \* the answer to the last send
  received   \* the last event delivered

fifo == <<queue, accepted, received>>

Init == queue = <<>> /\ accepted = TRUE /\ received = Idle

Accept(e) ==
  /\ Len(queue) < Size
  /\ queue' = Append(queue, e)
  /\ accepted' = TRUE
  /\ UNCHANGED received

Refuse ==
  /\ Len(queue) = Size
  /\ accepted' = FALSE
  /\ UNCHANGED <<queue, received>>

Deliver ==
  /\ queue # <<>>
  /\ received' = Head(queue)
  /\ queue' = Tail(queue)
  /\ UNCHANGED accepted

Next == (\E e \in Items : Accept(e)) \/ Refuse \/ Deliver

Spec == Init /\ [][Next]_fifo
=============================================================================
