-------------------------- MODULE EventQueue_proofs --------------------------
(***************************************************************************)
(* EventQueue for any size and any events: the slots are never shared, a   *)
(* drain that saw an event receives one, and the ring implements the FIFO. *)
(***************************************************************************)
EXTENDS EventQueue, SequenceTheorems, TLAPS

\* The room the sender saw is still there, and the slot it publishes holds its
\* event.
SenderInv ==
  /\ sender \in {"write", "publish"} => Increment(tail) # head
  /\ sender = "publish" => array[tail] = item

\* The event the drainer saw is still there, and its copy is the oldest one.
DrainerInv ==
  /\ drainer # "idle" => head # tail
  /\ drainer = "advance" => event = array[head]

IInv == TypeOK /\ SenderInv /\ DrainerInv

LEMMA InitIInv == Init => IInv
BY SizeAssumption DEF Init, IInv, TypeOK, SenderInv, DrainerInv, Indices

\* Each task's part of the invariant survives the steps of both tasks: the
\* other task only makes more room, or adds more events.
LEMMA Step == IInv /\ [Next]_vars => IInv'
<1> SUFFICES ASSUME IInv, [Next]_vars PROVE IInv'
  OBVIOUS
<1> USE SizeAssumption DEF IInv, TypeOK, SenderInv, DrainerInv, Indices
<1>1. CASE StartPush
  BY <1>1 DEF StartPush, backgroundVars
<1>2. CASE CheckRoom
  BY <1>2 DEF CheckRoom, backgroundVars
<1>3. CASE WriteSlot
  BY <1>3 DEF WriteSlot, backgroundVars
<1>4. CASE Publish
  BY <1>4 DEF Publish, backgroundVars, Increment
<1>5. CASE SeeEvent
  BY <1>5 DEF SeeEvent, flightVars
<1>6. CASE PopCheck
  BY <1>6 DEF PopCheck, flightVars
<1>7. CASE ReadSlot
  BY <1>7 DEF ReadSlot, flightVars
<1>8. CASE Advance
  BY <1>8 DEF Advance, flightVars, Increment
<1>9. CASE UNCHANGED vars
  BY <1>9 DEF vars
<1> QED BY <1>1, <1>2, <1>3, <1>4, <1>5, <1>6, <1>7, <1>8, <1>9 DEF Next

\* The two tasks' claims on the ring hold in every reachable state.
THEOREM Invariance == Spec => []IInv
BY InitIInv, Step, PTL DEF Spec

\* No slot is written while it may be read.
THEOREM SlotsExclusive == Spec => []SlotExclusive
<1>1. IInv => SlotExclusive
  BY DEF IInv, DrainerInv, SlotExclusive
<1> QED BY <1>1, Invariance, PTL

\* The pop behind an isEmpty that returned false finds an event.
THEOREM ReceiveFinds == Spec => []ReceiveFindsEvent
<1>1. IInv => ReceiveFindsEvent
  BY DEF IInv, DrainerInv, ReceiveFindsEvent
<1> QED BY <1>1, Invariance, PTL

-----------------------------------------------------------------------------
\* The ring as a queue.

\* The ring holds Waiting events, at most Size, at indices of the array.
LEMMA QueueType ==
  ASSUME TypeOK
  PROVE  /\ Waiting \in 0..Size
         /\ \A j \in 0..Size : Position(j) \in Indices
         /\ Queue \in Seq(Items \cup {Idle})
         /\ Len(Queue) = Waiting
<1>1. Waiting \in 0..Size
  BY SizeAssumption DEF TypeOK, Indices, Waiting
<1>2. \A j \in 0..Size : Position(j) \in Indices
  BY SizeAssumption DEF TypeOK, Indices, Position
<1>3. \A i \in 1..Waiting : array[Position(i - 1)] \in Items \cup {Idle}
  BY <1>1, <1>2, SizeAssumption DEF TypeOK
<1> QED BY <1>1, <1>2, <1>3, SizeAssumption DEF Queue

\* A sender that found room leaves at most Size - 1 events waiting, and its slot
\* is the one behind them.
LEMMA RoomLeft ==
  ASSUME TypeOK, Increment(tail) # head
  PROVE  Waiting < Size /\ Position(Waiting) = tail
BY SizeAssumption DEF TypeOK, Indices, Waiting, Position, Increment

\* The slot at the tail holds no waiting event.
LEMMA TailIsFree ==
  ASSUME TypeOK, NEW i \in 1..Waiting
  PROVE  Position(i - 1) # tail
BY SizeAssumption DEF TypeOK, Indices, Waiting, Position

\* Storing the tail appends the published event.
LEMMA PublishAppends ==
  ASSUME IInv, IInv', Publish
  PROVE  Len(Queue) < Size /\ Queue' = Append(Queue, item)
<1> USE DEF IInv
<1>1. Increment(tail) # head /\ array[tail] = item /\ tail' = Increment(tail)
      /\ UNCHANGED <<head, array>>
  BY DEF Publish, SenderInv, backgroundVars
<1>2. Waiting < Size /\ Position(Waiting) = tail
  BY <1>1, RoomLeft
<1>3. Waiting' = Waiting + 1
  BY <1>1, SizeAssumption DEF TypeOK, Indices, Waiting, Increment
<1>4. \A j \in 0..Size : Position(j)' = Position(j)
  BY <1>1 DEF Position
<1>5. Queue \in Seq(Items \cup {Idle}) /\ Len(Queue) = Waiting /\ Waiting \in 0..Size
  BY QueueType
<1> DEFINE Events == Items \cup {Idle}
           longer == [i \in 1..(Waiting + 1) |-> array[Position(i - 1)]]
<1>6. Queue' = longer
  BY <1>1, <1>2, <1>3, <1>4, <1>5, SizeAssumption DEF Queue
<1>7. longer \in Seq(Events) /\ Len(longer) = Waiting + 1
  <2>1. \A i \in 1..(Waiting + 1) : array[Position(i - 1)] \in Events
    BY <1>2, <1>5, QueueType, SizeAssumption DEF TypeOK
  <2> QED BY <2>1, <1>5
<1>8. /\ Append(Queue, item) \in Seq(Events)
      /\ Len(Append(Queue, item)) = Waiting + 1
      /\ \A i \in 1..Waiting : Append(Queue, item)[i] = Queue[i]
      /\ Append(Queue, item)[Waiting + 1] = item
  <2>1. item \in Events
    BY DEF TypeOK
  <2> QED BY <1>5, <2>1, AppendProperties
<1>9. \A i \in 1..(Waiting + 1) : longer[i] = Append(Queue, item)[i]
  BY <1>1, <1>2, <1>5, <1>8 DEF Queue
<1>10. longer = Append(Queue, item)
  <2> HIDE DEF longer, Events
  <2> QED BY <1>7, <1>8, <1>9, SeqEqual
<1> QED BY <1>2, <1>5, <1>6, <1>10

\* Storing the head delivers the oldest event.
LEMMA AdvanceDelivers ==
  ASSUME IInv, IInv', Advance
  PROVE  Queue # <<>> /\ received' = Head(Queue) /\ Queue' = Tail(Queue)
<1> USE DEF IInv
<1>1. head # tail /\ event = array[head] /\ received' = event
      /\ head' = Increment(head) /\ UNCHANGED <<tail, array>>
  BY DEF Advance, DrainerInv, flightVars
<1>2. Waiting > 0 /\ Position(0) = head
  BY <1>1, SizeAssumption DEF TypeOK, Indices, Waiting, Position
<1>3. Waiting' = Waiting - 1
  BY <1>1, SizeAssumption DEF TypeOK, Indices, Waiting, Increment
<1>4. \A j \in 0..(Size - 1) : Position(j)' = Position(j + 1)
  BY <1>1, SizeAssumption DEF TypeOK, Indices, Position, Increment
<1>5. Queue \in Seq(Items \cup {Idle}) /\ Len(Queue) = Waiting /\ Waiting \in 0..Size
  BY QueueType
<1>6. Head(Queue) = array[head]
  BY <1>2, <1>5 DEF Queue
<1> DEFINE Events == Items \cup {Idle}
           rest == [i \in 1..(Waiting - 1) |-> array[Position(i)]]
<1>7. /\ Queue # <<>>
      /\ Tail(Queue) \in Seq(Events)
      /\ Len(Tail(Queue)) = Waiting - 1
      /\ \A i \in 1..(Waiting - 1) : Tail(Queue)[i] = Queue[i + 1]
  <2>1. Queue # <<>>
    BY <1>2, <1>5
  <2>2. /\ Tail(Queue) \in Seq(Events)
        /\ Len(Tail(Queue)) = Len(Queue) - 1
        /\ \A i \in 1..Len(Tail(Queue)) : Tail(Queue)[i] = Queue[i + 1]
    BY <1>5, <2>1, HeadTailProperties
  <2> QED BY <1>5, <2>1, <2>2
<1>8. rest \in Seq(Events) /\ Len(rest) = Waiting - 1
  <2>1. \A i \in 1..(Waiting - 1) : array[Position(i)] \in Events
    BY <1>5, QueueType, SizeAssumption DEF TypeOK
  <2> QED BY <2>1, <1>2, <1>5
<1>9. \A i \in 1..(Waiting - 1) : rest[i] = Tail(Queue)[i]
  BY <1>2, <1>5, <1>7 DEF Queue
<1>10. rest = Tail(Queue)
  <2> HIDE DEF rest, Events
  <2> QED BY <1>7, <1>8, <1>9, SeqEqual
<1>11. Queue' = rest
  <2>1. \A i \in 1..(Waiting - 1) : i - 1 \in 0..(Size - 1) /\ (i - 1) + 1 = i
    BY <1>5, SizeAssumption
  <2> QED BY <1>1, <1>3, <1>4, <2>1 DEF Queue
<1> QED BY <1>1, <1>6, <1>7, <1>10, <1>11

\* Every step of the ring is a step of the FIFO, or leaves it unchanged.
LEMMA FifoStep == IInv /\ IInv' /\ [Next]_vars => [Fifo!Next]_(Fifo!fifo)
<1> SUFFICES ASSUME IInv, IInv', [Next]_vars PROVE [Fifo!Next]_(Fifo!fifo)
  OBVIOUS
<1>0. ASSUME UNCHANGED <<Queue, accepted, received>> PROVE UNCHANGED Fifo!fifo
  BY <1>0 DEF Fifo!fifo, Queue
<1>1. ASSUME UNCHANGED <<array, head, tail>> PROVE Queue' = Queue
  BY <1>1 DEF Queue, Waiting, Position
<1>2. CASE StartPush \/ SeeEvent \/ ReadSlot \/ UNCHANGED vars
  <2>1. UNCHANGED <<array, head, tail, accepted, received>>
    BY <1>2 DEF StartPush, SeeEvent, ReadSlot, vars, flightVars, backgroundVars
  <2> QED BY <2>1, <1>0, <1>1
<1>3. CASE CheckRoom
  <2>1. UNCHANGED <<array, head, tail, received>>
    BY <1>3 DEF CheckRoom, backgroundVars
  <2>2. CASE Increment(tail) # head
    <3>1. UNCHANGED accepted
      BY <1>3, <2>2 DEF CheckRoom
    <3> QED BY <2>1, <3>1, <1>0, <1>1
  <2>3. CASE Increment(tail) = head
    <3>1. Waiting = Size
      BY <2>3, SizeAssumption DEF IInv, TypeOK, Indices, Waiting, Increment
    <3>2. Len(Queue) = Size
      BY <3>1, QueueType DEF IInv
    <3>3. accepted' = FALSE
      BY <1>3, <2>3 DEF CheckRoom
    <3>4. Fifo!Refuse
      BY <2>1, <3>2, <3>3, <1>1 DEF Fifo!Refuse, Queue
    <3> QED BY <3>4 DEF Fifo!Next
  <2> QED BY <2>2, <2>3
<1>4. CASE WriteSlot
  <2>1. UNCHANGED <<head, tail, accepted, received>>
    BY <1>4 DEF WriteSlot, backgroundVars
  <2>2. Waiting' = Waiting /\ \A j \in 0..Size : Position(j)' = Position(j)
    BY <2>1 DEF Waiting, Position
  <2>3. ASSUME NEW i \in 1..Waiting PROVE array'[Position(i - 1)] = array[Position(i - 1)]
    <3>1. Position(i - 1) # tail
      BY TailIsFree DEF IInv
    <3> QED BY <3>1, <1>4 DEF WriteSlot, IInv, TypeOK
  <2>4. Waiting \in 0..Size
    BY QueueType DEF IInv
  <2>5. \A i \in 1..Waiting : i - 1 \in 0..Size
    BY <2>4, SizeAssumption
  <2>6. Queue' = Queue
    BY <2>2, <2>3, <2>5 DEF Queue
  <2> QED BY <2>1, <2>6, <1>0
<1>5. CASE Publish
  <2>1. item \in Items /\ accepted' = TRUE /\ UNCHANGED received
    BY <1>5 DEF Publish, IInv, TypeOK, backgroundVars
  <2>2. Fifo!Accept(item)
    BY <1>5, <2>1, PublishAppends DEF Fifo!Accept, Queue
  <2> QED BY <2>1, <2>2 DEF Fifo!Next
<1>6. CASE PopCheck
  <2>1. UNCHANGED <<array, head, tail, accepted, received>>
    BY <1>6 DEF PopCheck, IInv, DrainerInv, flightVars
  <2> QED BY <2>1, <1>0, <1>1
<1>7. CASE Advance
  <2>1. UNCHANGED accepted
    BY <1>7 DEF Advance, flightVars
  <2>2. Fifo!Deliver
    BY <1>7, <2>1, AdvanceDelivers DEF Fifo!Deliver, Queue
  <2> QED BY <2>2 DEF Fifo!Next
<1> QED BY <1>2, <1>3, <1>4, <1>5, <1>6, <1>7 DEF Next

\* The queue implements the bounded FIFO: events are delivered once each, in
\* order, and one is refused only when Size of them are waiting.
THEOREM Refinement == Spec => ImplementsFifo
<1>1. Init => Fifo!Init
  <2> SUFFICES ASSUME Init PROVE Fifo!Init
    OBVIOUS
  <2>1. Waiting = 0
    BY SizeAssumption DEF Init, Waiting
  <2>2. Queue = <<>>
    BY <2>1 DEF Queue
  <2> QED BY <2>2 DEF Init, Fifo!Init, Queue
<1> QED BY <1>1, FifoStep, Invariance, PTL DEF Spec, ImplementsFifo, Fifo!Spec
=============================================================================
