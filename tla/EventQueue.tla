----------------------------- MODULE EventQueue -----------------------------
(***************************************************************************)
(* The event queue between the flight task and the background task of the  *)
(* ESP32 builds: QueueAtomic, as Model::disarm pushes to it on one core    *)
(* (Queue::send) and Espfc::updateOther drains it on the other (isEmpty,   *)
(* then Queue::receive).                                                   *)
(*                                                                         *)
(* Every atomic load and store is a step of its own, except a task's loads *)
(* of the index that only it stores: those cannot be stale.  The two       *)
(* indices are sequentially consistent (the default memory order).         *)
(***************************************************************************)
EXTENDS Integers, Sequences

CONSTANTS
  Items,  \* the events that are sent
  Idle,   \* EVENT_IDLE, the default-constructed Event
  Size    \* the template argument (63 events)

ASSUME SizeAssumption == Size \in Nat \ {0}

VARIABLES
  array, head, tail,  \* QueueAtomic
  sender,    \* where the flight task is in push
  item,      \* the event it pushes
  accepted,  \* what the last push returned
  drainer,   \* where the background task is in updateOther
  event,     \* pop's copy of the slot
  received   \* what the last Queue::receive returned

vars == <<array, head, tail, sender, item, accepted, drainer, event, received>>

flightVars == <<tail, sender, item, accepted>>
backgroundVars == <<head, drainer, event, received>>

\* Capacity = Size + 1: one slot stays empty, to tell full from empty
Indices == 0..Size

\* Mutant: the indices wrap one slot early (Capacity = Size).
IncrementShort(i) == IF i + 1 >= Size THEN 0 ELSE i + 1

\* (idx + 1) % Capacity
Increment(i) == IF i = Size THEN 0 ELSE i + 1

Init ==
  /\ array \in [Indices -> {Idle}]
  /\ head = 0 /\ tail = 0
  /\ sender = "idle" /\ item = Idle /\ accepted = TRUE
  /\ drainer = "idle" /\ event = Idle /\ received = Idle

\* --- push, on the flight task -------------------------------------------------

StartPush ==
  /\ sender = "idle"
  /\ sender' = "room"
  /\ item' \in Items
  /\ UNCHANGED <<array, tail, accepted, backgroundVars>>

\* Mutant: a full queue overwrites its oldest event.
CheckRoomNever ==
  /\ sender = "room"
  /\ sender' = "write"
  /\ UNCHANGED <<array, tail, item, accepted, backgroundVars>>

\* the load of _head; a full queue drops the event
CheckRoom ==
  /\ sender = "room"
  /\ IF Increment(tail) # head
       THEN sender' = "write" /\ UNCHANGED accepted
       ELSE sender' = "idle" /\ accepted' = FALSE
  /\ UNCHANGED <<array, tail, item, backgroundVars>>

WriteSlot ==
  /\ sender = "write"
  /\ array' = [array EXCEPT ![tail] = item]
  /\ sender' = "publish"
  /\ UNCHANGED <<tail, item, accepted, backgroundVars>>

\* the store of _tail
Publish ==
  /\ sender = "publish"
  /\ tail' = Increment(tail)
  /\ accepted' = TRUE
  /\ sender' = "idle"
  /\ UNCHANGED <<array, item, backgroundVars>>

\* --- updateOther, on the background task ---------------------------------------

\* Mutant: updateOther receives without asking isEmpty.
SeeEventBlind ==
  /\ drainer = "idle"
  /\ drainer' = "pop"
  /\ UNCHANGED <<array, head, event, received, flightVars>>

\* isEmpty returned false
SeeEvent ==
  /\ drainer = "idle"
  /\ head # tail
  /\ drainer' = "pop"
  /\ UNCHANGED <<array, head, event, received, flightVars>>

\* pop compares the indices again; receive ignores its result, and would
\* return a default-constructed event
PopCheck ==
  /\ drainer = "pop"
  /\ IF head # tail
       THEN drainer' = "read" /\ UNCHANGED received
       ELSE drainer' = "idle" /\ received' = Idle
  /\ UNCHANGED <<array, head, event, flightVars>>

ReadSlot ==
  /\ drainer = "read"
  /\ event' = array[head]
  /\ drainer' = "advance"
  /\ UNCHANGED <<array, head, received, flightVars>>

\* Mutant: the slot is not released.
AdvanceNot ==
  /\ drainer = "advance"
  /\ received' = event
  /\ drainer' = "idle"
  /\ UNCHANGED <<array, head, event, flightVars>>

\* the store of _head
Advance ==
  /\ drainer = "advance"
  /\ head' = Increment(head)
  /\ received' = event
  /\ drainer' = "idle"
  /\ UNCHANGED <<array, event, flightVars>>

Drain == SeeEvent \/ PopCheck \/ ReadSlot \/ Advance

Next ==
  \/ StartPush \/ CheckRoom \/ WriteSlot \/ Publish
  \/ SeeEvent \/ PopCheck \/ ReadSlot \/ Advance

Spec == Init /\ [][Next]_vars

\* The background task keeps polling (backgroundTask, main.cpp); nothing is
\* assumed of the flight task.
FairSpec == Spec /\ WF_vars(Drain)

-----------------------------------------------------------------------------

TypeOK ==
  /\ array \in [Indices -> Items \cup {Idle}]
  /\ head \in Indices /\ tail \in Indices
  /\ sender \in {"idle", "room", "write", "publish"}
  /\ item \in Items \cup {Idle} /\ (sender # "idle" => item \in Items)
  /\ accepted \in BOOLEAN
  /\ drainer \in {"idle", "pop", "read", "advance"}
  /\ event \in Items \cup {Idle} /\ received \in Items \cup {Idle}

\* The slots are not atomic: a write of a slot while the other task may be
\* copying it would be a data race.
SlotExclusive ==
  ~(sender \in {"write", "publish"} /\ drainer \in {"read", "advance"} /\ tail = head)

\* The pop behind an isEmpty that returned false finds an event, whatever the
\* flight task does in between, so receive never returns a made-up one.
ReceiveFindsEvent == drainer # "idle" => head # tail

\* the number of events between the indices, and the index of the j-th
Waiting == IF head <= tail THEN tail - head ELSE Size + 1 - (head - tail)
Position(j) == IF head + j <= Size THEN head + j ELSE head + j - (Size + 1)

\* The queue that the ring stands for.
Queue == [i \in 1..Waiting |-> array[Position(i - 1)]]

\* The ring implements the FIFO: an event is sent when the tail is stored,
\* and delivered when the head is.
Fifo == INSTANCE BoundedFifo WITH queue <- Queue

ImplementsFifo == Fifo!Spec

\* An event that waits is delivered.
WaitingIsDelivered ==
  \A h \in Indices : (head = h /\ tail # h) ~> (head # h)
=============================================================================
