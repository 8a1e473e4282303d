--------------------------- MODULE GpsLink_proofs ---------------------------
(***************************************************************************)
(* Proofs about GpsLink, for every value of its constants: any list of     *)
(* rates and of NMEA sentences, any receiver, any limit.                   *)
(***************************************************************************)
EXTENDS GpsLink, SequenceTheorems, TLAPS

Reaction == {"ACK", "NAK", "VER", "L5"}
Reception == [answer : Reaction, baud : Rates]

\* Only messages of the receiver's generation are asked for.
OwnRequest == {r \in Request : r.ask = "ON" => r.what \subseteq ToSet(MsgOn)}

VersionRequest == {r \in OwnRequest : r.ask = "VERSION"}
VersionReply == {r \in Reception : r.answer # "ACK"}

\* The flight controller's side and the line.
LinkType ==
  /\ state \in State /\ ackState \in State /\ timeoutState \in State
  /\ counter \in 0..(Len(Bauds) + Len(NmeaMsgOff) + Len(Ubx6MsgOn))
  /\ baud \in Rates /\ rxBaud \in Rates /\ generation \in Generation
  /\ present \in BOOLEAN
  /\ requests \in Seq(OwnRequest) /\ replies \in Seq(Reception)
  /\ nmea \subseteq ToSet(NmeaMsgOff) /\ nav \subseteq ToSet(MsgOn)

HistoryType ==
  /\ restarts \in 0..MaxRestarts
  /\ trouble \subseteq {"lost", "late", "refused", "silent", "restart"}

SolutionType ==
  /\ fix \in BOOLEAN /\ solutionFresh \in BOOLEAN /\ ticked \in BOOLEAN
  /\ solutionAge \in 0..(Limit + 1) /\ positionAge \in 0..(Limit + 1)

\* Nothing is on the line while the rate is sought, and only the version's
\* answer while that is awaited: the search's counter then meets no
\* acknowledgement that would let the set-up go on without resetting it.
QuietSearch ==
  /\ state = "DETECT_BAUD" => requests = <<>> /\ replies = <<>>
  /\ state = "WAIT" /\ ackState = "CONFIGURE_BAUD" =>
       requests \in Seq(VersionRequest) /\ replies \in Seq(VersionReply)

\* What the counter is when a state goes on with it.
CounterIs(next) ==
  /\ next = "CONFIGURE_BAUD" => counter = 0
  /\ next = "DISABLE_NMEA" =>
       counter < Len(NmeaMsgOff) /\ (generation = "modern" => counter = 0)
  /\ next = "ENABLE_UBX" => counter < Len(MsgOn)

\* Where an answer or a timeout leads to.
Prospects ==
  /\ CounterIs(state)
  /\ state = "WAIT" =>
       /\ ackState \notin {"DETECT_BAUD", "WAIT"}
       /\ ackState # "CONFIGURE_BAUD" => CounterIs(ackState)
       /\ timeoutState \in {"ERROR", "DISABLE_NMEA", "CONFIGURE_GNSS"}
       /\ CounterIs(timeoutState)
  /\ state = "RECEIVE" => ackState = "RECEIVE"
  /\ ackState = "RECEIVE" => timeoutState = "ERROR"

LinkInv == LinkType /\ QuietSearch /\ Prospects

\* A fix is fresh, and what is fresh is young; a receiver that sends position
\* and fix in one message keeps the position as young.
Currency ==
  /\ fix => solutionFresh
  /\ solutionFresh /\ ~ticked => solutionAge <= Limit
  /\ generation # "ubx6" /\ solutionFresh => positionAge <= solutionAge

IInv == LinkInv /\ HistoryType /\ SolutionType /\ Currency

-----------------------------------------------------------------------------
(* The lists of messages. *)

LEMMA Lists ==
  /\ Len(UbxMsgOn) = 2 /\ Len(Ubx6MsgOn) = 4
  /\ ToSet(UbxMsgOn) = {"NAV_PVT", "NAV_SAT"}
  /\ ToSet(Ubx6MsgOn) = {"NAV_POSLLH", "NAV_SOL", "NAV_VELNED", "NAV_SVINFO"}
  /\ Len(NmeaMsgOff) \in Nat \ {0} /\ Len(Bauds) \in Nat
  /\ Len(MsgOn) \in Nat \ {0} /\ Len(MsgOn) <= 4
  /\ ToSet(MsgOn) \subseteq ToSet(UbxMsgOn) \cup ToSet(Ubx6MsgOn)
<1>1. /\ DOMAIN UbxMsgOn = {1, 2}
      /\ DOMAIN Ubx6MsgOn = {1, 2, 3, 4}
      /\ Len(UbxMsgOn) = 2 /\ Len(Ubx6MsgOn) = 4
  BY DEF UbxMsgOn, Ubx6MsgOn
<1>2. ToSet(UbxMsgOn) = {"NAV_PVT", "NAV_SAT"}
  BY <1>1 DEF ToSet, UbxMsgOn
<1>3. ToSet(Ubx6MsgOn) = {"NAV_POSLLH", "NAV_SOL", "NAV_VELNED", "NAV_SVINFO"}
  BY <1>1 DEF ToSet, Ubx6MsgOn
<1>4. Len(NmeaMsgOff) \in Nat \ {0} /\ Len(Bauds) \in Nat
  BY GpsAssumption, EmptySeq, LenProperties
<1>5. MsgOn = Ubx6MsgOn \/ MsgOn = UbxMsgOn
  BY DEF MsgOn
<1>6. Len(MsgOn) \in Nat \ {0} /\ Len(MsgOn) <= 4
  <2>1. CASE MsgOn = UbxMsgOn
    <3>1. Len(MsgOn) = 2
      BY <1>1, <2>1
    <3> QED BY <3>1
  <2>2. CASE MsgOn = Ubx6MsgOn
    <3>1. Len(MsgOn) = 4
      BY <1>1, <2>2
    <3> QED BY <3>1
  <2> QED BY <1>5, <2>1, <2>2
<1>7. ToSet(MsgOn) \subseteq ToSet(UbxMsgOn) \cup ToSet(Ubx6MsgOn)
  BY <1>5
<1> QED BY <1>1, <1>2, <1>3, <1>4, <1>6, <1>7

\* A list's element is one of its messages.
LEMMA ListElement ==
  /\ \A i \in 1..Len(NmeaMsgOff) : NmeaMsgOff[i] \in ToSet(NmeaMsgOff)
  /\ \A i \in 1..Len(MsgOn) : MsgOn[i] \in ToSet(MsgOn)
<1>1. DOMAIN NmeaMsgOff = 1..Len(NmeaMsgOff)
  BY GpsAssumption, LenProperties
<1>2. DOMAIN MsgOn = 1..Len(MsgOn)
  <2>1. DOMAIN UbxMsgOn = 1..2 /\ Len(UbxMsgOn) = 2
    BY DEF UbxMsgOn
  <2>2. DOMAIN Ubx6MsgOn = 1..4 /\ Len(Ubx6MsgOn) = 4
    BY DEF Ubx6MsgOn
  <2> QED BY <2>1, <2>2 DEF MsgOn
<1> QED BY <1>1, <1>2 DEF ToSet

LEMMA BaudElement == \A i \in 1..Len(Bauds) : Bauds[i] \in Rates
<1>1. DOMAIN Bauds = 1..Len(Bauds)
  BY GpsAssumption, LenProperties
<1> QED BY <1>1 DEF ToSet, Rates

-----------------------------------------------------------------------------
(* The flight controller's steps keep LinkInv, whatever became of replies. *)

\* A request added to the line, or lost to the other rate.
LEMMA WriteType ==
  ASSUME requests \in Seq(OwnRequest), NEW ask, NEW what,
         [ask |-> ask, what |-> what] \in OwnRequest, Write(ask, what)
  PROVE  requests' \in Seq(OwnRequest)
  BY DEF Write

LEMMA InitLink == Init => LinkInv
<1> SUFFICES ASSUME Init PROVE LinkInv
  OBVIOUS
<1>1. LinkType
  <2>1. requests \in Seq(OwnRequest) /\ replies \in Seq(Reception)
    BY DEF Init
  <2>2. rxBaud \in Rates /\ baud \in Rates
    BY DEF Init, Rates
  <2>3. nmea \subseteq ToSet(NmeaMsgOff) /\ nav \subseteq ToSet(MsgOn)
    BY DEF Init
  <2>4. counter \in 0..(Len(Bauds) + Len(NmeaMsgOff) + Len(Ubx6MsgOn))
    BY Lists DEF Init
  <2>5. state \in State /\ ackState \in State /\ timeoutState \in State
    BY DEF Init, State
  <2>6. generation \in Generation /\ present \in BOOLEAN
    BY DEF Init
  <2> QED BY <2>1, <2>2, <2>3, <2>4, <2>5, <2>6 DEF LinkType
<1> QED BY <1>1 DEF Init, LinkInv, QuietSearch, Prospects, CounterIs

\* What SendElse establishes, if the counter fits what follows.
LEMMA SendKeeps ==
  ASSUME LinkInv, NEW ask, NEW what, NEW ack \in State, NEW timeout,
         [ask |-> ask, what |-> what] \in OwnRequest,
         SendElse(ask, what, ack, timeout),
         replies' \in Seq(Reception), UNCHANGED <<rxVars, present>>,
         baud' \in {baud, Target},
         counter' \in 0..(Len(Bauds) + Len(NmeaMsgOff) + Len(Ubx6MsgOn)),
         ack \notin {"DETECT_BAUD", "WAIT", "CONFIGURE_BAUD"},
         CounterIs(ack)', CounterIs(timeout)',
         timeout \in {"ERROR", "DISABLE_NMEA", "CONFIGURE_GNSS"},
         ack = "RECEIVE" => timeout = "ERROR"
  PROVE  LinkInv'
<1>1. requests' \in Seq(OwnRequest)
  BY WriteType DEF SendElse, LinkInv, LinkType
<1>2. OwnRequest' = OwnRequest
  BY DEF OwnRequest, MsgOn, rxVars
<1>3. LinkType'
  BY <1>1, <1>2 DEF SendElse, LinkInv, LinkType, State, rxVars, Rates, MsgOn
<1>4. ackState' = ack /\ timeoutState' = timeout /\ state' = "WAIT"
  BY DEF SendElse
<1>5. QuietSearch'
  BY <1>4 DEF QuietSearch
<1>6. Prospects'
  BY <1>4 DEF Prospects, CounterIs
<1> QED BY <1>3, <1>5, <1>6 DEF LinkInv

LEMMA GoKeeps ==
  ASSUME LinkInv, NEW next, next \in {"CONFIGURE_NAV_RATE", "DETECT_GPS_L5"}, Go(next),
         replies' \in Seq(Reception), UNCHANGED <<rxVars, present, counter>>
  PROVE  LinkInv'
<1>1. LinkType'
  BY DEF Go, LinkInv, LinkType, State, rxVars, Rates, MsgOn, OwnRequest
<1>2. QuietSearch' /\ Prospects'
  BY DEF Go, LinkInv, QuietSearch, Prospects, CounterIs
<1> QED BY <1>1, <1>2 DEF LinkInv

\* The requests of the set-up are requests.
LEMMA RequestType ==
  /\ \A ask \in {"VERSION", "BAUD", "NAV5", "SBAS", "L5", "GNSS", "RATE"} :
       [ask |-> ask, what |-> {}] \in OwnRequest
  /\ \A what \in SUBSET ToSet(NmeaMsgOff) : [ask |-> "OFF", what |-> what] \in OwnRequest
  /\ \A what \in SUBSET ToSet(MsgOn) : [ask |-> "ON", what |-> what] \in OwnRequest
  BY Lists DEF OwnRequest, Request

\* One message of a list, with the counter moving on inside it or back to zero.
LEMMA SendNextKeeps ==
  ASSUME LinkInv, NEW ask, NEW list, NEW next \in State,
         state \in {"DISABLE_NMEA", "ENABLE_UBX"}, generation # "modern",
         Len(list) \in Nat \ {0},
         state = "DISABLE_NMEA" => Len(list) = Len(NmeaMsgOff),
         state = "ENABLE_UBX" => Len(list) = Len(MsgOn),
         counter < Len(list),
         [ask |-> ask, what |-> {list[counter + 1]}] \in OwnRequest,
         next \in {"ENABLE_UBX", "ENABLE_NAV5"},
         SendNext(ask, list, next),
         replies' \in Seq(Reception), UNCHANGED <<rxVars, present>>
  PROVE  LinkInv'
<1>1. counter \in Nat
  BY DEF LinkInv, LinkType
<1>2. UNCHANGED MsgOn
  BY DEF MsgOn, rxVars
<1>3. Len(MsgOn) \in Nat \ {0} /\ Len(MsgOn) <= 4
      /\ Len(NmeaMsgOff) \in Nat \ {0} /\ Len(Bauds) \in Nat
      /\ Len(Ubx6MsgOn) = 4
  BY Lists
<1>4. CASE counter + 1 < Len(list)
  <2>1. SendElse(ask, {list[counter + 1]}, state, "ERROR") /\ baud' = baud
        /\ counter' = counter + 1
    BY <1>4 DEF SendNext, Send
  <2>2. PICK here \in {"DISABLE_NMEA", "ENABLE_UBX"} : here = state
    OBVIOUS
  <2>3. counter' \in 0..(Len(Bauds) + Len(NmeaMsgOff) + Len(Ubx6MsgOn))
    <3>1. Len(list) <= Len(NmeaMsgOff) + Len(Ubx6MsgOn)
      BY <1>3
    <3>2. counter' = counter + 1 /\ counter + 1 < Len(list)
      BY <1>4, <2>1
    <3> QED BY <1>1, <1>3, <3>1, <3>2
  <2>4. CounterIs(here)' /\ CounterIs("ERROR")'
    BY <1>2, <1>4, <2>1, <2>2 DEF CounterIs, rxVars
  <2>5. here \in State
    BY DEF State
  <2>6. SendElse(ask, {list[counter + 1]}, here, "ERROR")
    BY <2>1, <2>2
  <2> QED BY <2>1, <2>3, <2>4, <2>5, <2>6, SendKeeps
<1>5. CASE ~(counter + 1 < Len(list))
  <2>1. SendElse(ask, {list[counter + 1]}, next, "ERROR") /\ baud' = baud
        /\ counter' = 0
    BY <1>5 DEF SendNext, Send
  <2>2. counter' \in 0..(Len(Bauds) + Len(NmeaMsgOff) + Len(Ubx6MsgOn))
    BY <1>3, <2>1
  <2>3. CounterIs(next)' /\ CounterIs("ERROR")'
    BY <1>2, <1>3, <2>1 DEF CounterIs
  <2> QED BY <2>1, <2>2, <2>3, SendKeeps
<1> QED BY <1>4, <1>5

\* A request that does not move the counter, from a state that does not use it.
LEMMA SendOnceKeeps ==
  ASSUME LinkInv, NEW ask, NEW what, NEW ack \in State, NEW timeout,
         [ask |-> ask, what |-> what] \in OwnRequest,
         SendElse(ask, what, ack, timeout),
         baud' \in {baud, Target}, UNCHANGED counter,
         replies' \in Seq(Reception), UNCHANGED <<rxVars, present>>,
         counter = 0 \/ {ack, timeout} \cap {"DISABLE_NMEA", "ENABLE_UBX"} = {},
         ack \notin {"DETECT_BAUD", "WAIT", "CONFIGURE_BAUD"},
         timeout \in {"ERROR", "DISABLE_NMEA", "CONFIGURE_GNSS"},
         ack = "RECEIVE" => timeout = "ERROR"
  PROVE  LinkInv'
<1>1. counter' \in 0..(Len(Bauds) + Len(NmeaMsgOff) + Len(Ubx6MsgOn))
  BY DEF LinkInv, LinkType
<1>2. UNCHANGED MsgOn
  BY DEF MsgOn, rxVars
<1>3. Len(NmeaMsgOff) > 0 /\ Len(MsgOn) > 0
  BY Lists
<1>4. CASE counter = 0
  <2>1. CounterIs(ack)' /\ CounterIs(timeout)'
    BY <1>2, <1>3, <1>4 DEF CounterIs
  <2> QED BY <1>1, <2>1, SendKeeps
<1>5. CASE {ack, timeout} \cap {"DISABLE_NMEA", "ENABLE_UBX"} = {}
  <2>1. CounterIs(ack)' /\ CounterIs(timeout)'
    BY <1>5 DEF CounterIs
  <2> QED BY <1>1, <2>1, SendKeeps
<1> QED BY <1>4, <1>5

LEMMA AskKeeps ==
  ASSUME LinkInv, Ask, replies' \in Seq(Reception), UNCHANGED <<rxVars, present>>
  PROVE  LinkInv'
<1>1. CASE ConfigureBaud
  <2>1. SendElse("BAUD", {}, "DISABLE_NMEA", "DISABLE_NMEA") /\ baud' = Target
        /\ counter' = counter /\ counter = 0
    BY <1>1 DEF ConfigureBaud, LinkInv, Prospects, CounterIs
  <2> QED BY <2>1, RequestType, SendOnceKeeps DEF State
<1>2. CASE DisableNmea
  <2>1. state = "DISABLE_NMEA" /\ counter < Len(NmeaMsgOff) /\ counter \in Nat
    BY <1>2 DEF DisableNmea, LinkInv, LinkType, Prospects, CounterIs
  <2>2. CASE generation = "modern"
    <3>1. SendElse("OFF", ToSet(NmeaMsgOff), "ENABLE_UBX", "ERROR") /\ baud' = baud
          /\ counter' = counter
      BY <1>2, <2>2 DEF DisableNmea, Send
    <3>2. counter = 0
      BY <1>2, <2>2 DEF DisableNmea, LinkInv, Prospects, CounterIs
    <3>3. ToSet(NmeaMsgOff) \in SUBSET ToSet(NmeaMsgOff)
      OBVIOUS
    <3> QED BY <3>1, <3>2, <3>3, RequestType, SendOnceKeeps DEF State
  <2>3. CASE generation # "modern"
    <3>1. SendNext("OFF", NmeaMsgOff, "ENABLE_UBX")
      BY <1>2, <2>3 DEF DisableNmea
    <3>2. [ask |-> "OFF", what |-> {NmeaMsgOff[counter + 1]}] \in OwnRequest
      <4>1. counter + 1 \in 1..Len(NmeaMsgOff)
        BY <2>1, Lists
      <4> QED BY <4>1, ListElement, RequestType
    <3>3. "ENABLE_UBX" \in State
      BY DEF State
    <3> QED BY <2>1, <2>3, <3>1, <3>2, <3>3, Lists, SendNextKeeps
  <2> QED BY <2>2, <2>3
<1>3. CASE EnableUbx
  <2>1. state = "ENABLE_UBX" /\ counter < Len(MsgOn) /\ counter \in Nat
    BY <1>3 DEF EnableUbx, LinkInv, LinkType, Prospects, CounterIs
  <2>2. CASE generation = "modern"
    <3>1. SendElse("ON", ToSet(UbxMsgOn), "ENABLE_NAV5", "ERROR") /\ baud' = baud
          /\ counter' = counter
      BY <1>3, <2>2 DEF EnableUbx, Send
    <3>2. ToSet(UbxMsgOn) \in SUBSET ToSet(MsgOn)
      BY <2>2 DEF MsgOn
    <3> QED BY <3>1, <3>2, RequestType, SendOnceKeeps DEF State
  <2>3. CASE generation # "modern"
    <3>1. SendNext("ON", MsgOn, "ENABLE_NAV5")
      BY <1>3, <2>3 DEF EnableUbx
    <3>2. [ask |-> "ON", what |-> {MsgOn[counter + 1]}] \in OwnRequest
      <4>1. counter + 1 \in 1..Len(MsgOn)
        BY <2>1, Lists
      <4> QED BY <4>1, ListElement, RequestType
    <3>3. "ENABLE_NAV5" \in State
      BY DEF State
    <3>4. PICK list : list = MsgOn
      OBVIOUS
    <3> QED BY <2>1, <2>3, <3>1, <3>2, <3>3, <3>4, Lists, SendNextKeeps
  <2> QED BY <2>2, <2>3
<1>4. CASE EnableNav5
  BY <1>4, RequestType, SendOnceKeeps DEF EnableNav5, Send, State
<1>5. CASE EnableSbas
  <2>1. PICK next \in {"CONFIGURE_NAV_RATE", "DETECT_GPS_L5"} :
          (Go(next) \/ Send("SBAS", {}, next)) /\ UNCHANGED counter
    BY <1>5 DEF EnableSbas
  <2>2. CASE Go(next)
    BY <2>1, <2>2, GoKeeps
  <2>3. CASE Send("SBAS", {}, next)
    BY <2>1, <2>3, RequestType, SendOnceKeeps DEF Send, State
  <2> QED BY <2>1, <2>2, <2>3
<1>6. CASE DetectGpsL5
  <2>1. CASE generation = "ubx6"
    BY <1>6, <2>1, GoKeeps DEF DetectGpsL5
  <2>2. CASE generation # "ubx6"
    BY <1>6, <2>2, RequestType, SendOnceKeeps DEF DetectGpsL5, State
  <2> QED BY <2>1, <2>2
<1>7. CASE ConfigureGnss
  <2>1. CASE generation = "ubx6"
    BY <1>7, <2>1, GoKeeps DEF ConfigureGnss
  <2>2. CASE generation # "ubx6"
    BY <1>7, <2>2, RequestType, SendOnceKeeps DEF ConfigureGnss, Send, State
  <2> QED BY <2>1, <2>2
<1>8. CASE ConfigureRate
  BY <1>8, RequestType, SendOnceKeeps DEF ConfigureRate, Send, State
<1> QED BY <1>1, <1>2, <1>3, <1>4, <1>5, <1>6, <1>7, <1>8 DEF Ask

\* The version's answer is the only one read before the counter is reset.
LEMMA ReceiveKeeps ==
  ASSUME LinkInv, replies # <<>>, HandleReceive(Head(replies).answer),
         replies' = Tail(replies), UNCHANGED rxVars
  PROVE  LinkInv'
<1>1. Head(replies) \in Reception /\ Tail(replies) \in Seq(Reception)
  BY HeadTailProperties DEF LinkInv, LinkType
<1>2. 0 \in 0..(Len(Bauds) + Len(NmeaMsgOff) + Len(Ubx6MsgOn))
      /\ Len(NmeaMsgOff) > 0 /\ Len(MsgOn) > 0
  BY Lists
<1>3. LinkType'
  BY <1>1, <1>2 DEF HandleReceive, HandleAck, HandleNak, HandleResponse, LinkInv, LinkType,
    rxVars, Rates, MsgOn, OwnRequest, Reaction, Reception
<1>4. state = "WAIT" /\ ackState = "CONFIGURE_BAUD" => Head(replies).answer # "ACK"
  <2>1. SUFFICES ASSUME state = "WAIT", ackState = "CONFIGURE_BAUD"
                 PROVE  Head(replies) \in VersionReply
    BY DEF VersionReply
  <2>2. replies \in Seq(VersionReply)
    BY <2>1 DEF LinkInv, QuietSearch
  <2> QED BY <2>2, HeadTailProperties
<1>5. UNCHANGED <<generation, MsgOn>>
  BY DEF MsgOn, rxVars
<1>6. state' \in {ackState, timeoutState} /\ UNCHANGED <<ackState, timeoutState>>
      /\ state \in {"WAIT", "RECEIVE"}
  BY DEF HandleReceive, HandleAck, HandleNak, HandleResponse
<1>7. state' \notin {"DETECT_BAUD", "WAIT"}
  BY <1>6 DEF LinkInv, Prospects
<1>8. QuietSearch'
  BY <1>7 DEF QuietSearch
<1>9. CounterIs(state)'
  <2>1. CASE counter' = 0
    BY <1>2, <1>5, <2>1 DEF CounterIs
  <2>2. CASE counter' # 0
    <3>1. counter' = counter
      BY <2>2 DEF HandleReceive, HandleAck, HandleNak, HandleResponse
    <3>2. CASE state = "RECEIVE"
      <4>1. state' \in {"RECEIVE", "ERROR"}
        BY <1>6, <3>2 DEF LinkInv, Prospects
      <4> QED BY <4>1 DEF CounterIs
    <3>3. CASE state = "WAIT"
      <4>1. CASE state' = timeoutState
        <5>1. CounterIs(timeoutState)
          BY <3>3 DEF LinkInv, Prospects
        <5> QED BY <1>5, <3>1, <4>1, <5>1 DEF CounterIs
      <4>2. CASE state' = ackState /\ ackState # "CONFIGURE_BAUD"
        <5>1. CounterIs(ackState)
          BY <3>3, <4>2 DEF LinkInv, Prospects
        <5> QED BY <1>5, <3>1, <4>2, <5>1 DEF CounterIs
      <4>3. CASE state' = ackState /\ ackState = "CONFIGURE_BAUD"
        <5>1. Head(replies).answer = "NAK"
          BY <1>1, <1>4, <2>2, <3>3, <4>3 DEF HandleReceive, HandleResponse, Reaction, Reception
        <5>2. state' = timeoutState
          BY <5>1 DEF HandleReceive, HandleNak
        <5> QED BY <4>1, <5>2
      <4> QED BY <1>6, <4>1, <4>2, <4>3
    <3> QED BY <1>6, <3>2, <3>3
  <2> QED BY <2>1, <2>2
<1>10. state' = "RECEIVE" => ackState = "RECEIVE"
  BY <1>6 DEF LinkInv, Prospects
<1>11. Prospects'
  BY <1>6, <1>7, <1>9, <1>10 DEF Prospects, LinkInv
<1> QED BY <1>3, <1>8, <1>11 DEF LinkInv

\* The flight controller's own steps, of which only the first reads an answer.
LEMMA HandleKeeps ==
  ASSUME LinkInv, Handle \/ Detected \/ Quiet \/ Navigate, UNCHANGED <<rxVars, replies>>
  PROVE  LinkInv'
<1>0. /\ replies' \in Seq(Reception)
      /\ UNCHANGED <<generation, MsgOn, OwnRequest, VersionRequest>>
  BY DEF LinkInv, LinkType, MsgOn, OwnRequest, VersionRequest, rxVars
<1>1. CASE Ask /\ UNCHANGED present
  BY <1>0, <1>1, AskKeeps DEF rxVars
<1>2. CASE DetectBaud
  <2>1. counter \in Nat /\ Len(Bauds) \in Nat /\ Len(NmeaMsgOff) \in Nat
        /\ Len(Ubx6MsgOn) = 4
    BY Lists DEF LinkInv, LinkType
  <2>2. baud' \in Rates /\ counter' \in 0..(Len(Bauds) + Len(NmeaMsgOff) + Len(Ubx6MsgOn))
    <3>1. CASE counter < Len(Bauds)
      <4>1. counter + 1 \in 1..Len(Bauds)
        BY <2>1, <3>1
      <4>2. baud' = Bauds[counter + 1] /\ counter' = counter + 1
        BY <1>2, <3>1 DEF DetectBaud
      <4> QED BY <2>1, <3>1, <4>1, <4>2, BaudElement
    <3>2. CASE ~(counter < Len(Bauds))
      <4>1. baud' = Target /\ counter' = 0
        BY <1>2, <3>2 DEF DetectBaud
      <4> QED BY <2>1, <4>1 DEF Rates
    <3> QED BY <3>1, <3>2
  <2>3. state' \in {"DETECT_BAUD", "ERROR"} /\ state = "DETECT_BAUD"
        /\ UNCHANGED <<ackState, timeoutState, present, requests>>
    BY <1>2 DEF DetectBaud
  <2>4. LinkType'
    BY <1>0, <2>2, <2>3 DEF LinkInv, LinkType, State, rxVars, Rates
  <2>5. QuietSearch' /\ Prospects'
    BY <2>3 DEF LinkInv, QuietSearch, Prospects, CounterIs
  <2> QED BY <2>4, <2>5 DEF LinkInv
<1>3. CASE Expire
  <2>1. state = "WAIT" /\ state' = timeoutState /\ present' = FALSE
        /\ UNCHANGED <<ackState, timeoutState, counter, baud, requests>>
    BY <1>3 DEF Expire
  <2>2. LinkType'
    BY <1>0, <2>1 DEF LinkInv, LinkType, rxVars, Rates
  <2>3. state' \in {"ERROR", "DISABLE_NMEA", "CONFIGURE_GNSS"}
    BY <2>1 DEF LinkInv, Prospects
  <2>4. CounterIs(state)'
    <3>1. CounterIs(timeoutState)
      BY <2>1 DEF LinkInv, Prospects
    <3> QED BY <1>0, <2>1, <3>1 DEF CounterIs
  <2>5. QuietSearch' /\ Prospects'
    BY <2>1, <2>3, <2>4 DEF LinkInv, QuietSearch, Prospects
  <2> QED BY <2>2, <2>5 DEF LinkInv
<1>4. CASE HandleError
  <2>1. state = "ERROR" /\ counter' \in {counter, 1} /\ present' = FALSE
        /\ UNCHANGED <<state, ackState, timeoutState, baud, requests>>
    BY <1>4 DEF HandleError
  <2>2. counter' \in 0..(Len(Bauds) + Len(NmeaMsgOff) + Len(Ubx6MsgOn))
    BY <2>1, Lists DEF LinkInv, LinkType
  <2>3. LinkType'
    BY <1>0, <2>1, <2>2 DEF LinkInv, LinkType, rxVars, Rates
  <2>4. QuietSearch' /\ Prospects'
    BY <2>1 DEF LinkInv, QuietSearch, Prospects, CounterIs
  <2> QED BY <2>3, <2>4 DEF LinkInv
<1>5. CASE Detected
  <2>1. state = "DETECT_BAUD" /\ requests = <<>> /\ replies = <<>>
    BY <1>5 DEF Detected, LinkInv, QuietSearch
  <2>2. /\ state' = "WAIT" /\ ackState' = "CONFIGURE_BAUD" /\ timeoutState' = "ERROR"
        /\ UNCHANGED <<baud, counter, present>>
        /\ Write("VERSION", {})
    BY <1>5 DEF Detected, ReadVersion, Send, SendElse
  <2>3. [ask |-> "VERSION", what |-> {}] \in VersionRequest
    BY RequestType DEF VersionRequest
  <2>4. requests' \in Seq(VersionRequest)
    BY <2>1, <2>2, <2>3 DEF Write
  <2>5. requests' \in Seq(OwnRequest)
    BY <2>4, SeqMonotonic DEF VersionRequest
  <2>6. replies' \in Seq(VersionReply)
    BY <2>1
  <2>7. LinkType'
    BY <1>0, <2>2, <2>5 DEF LinkInv, LinkType, State, rxVars, Rates
  <2>8. QuietSearch'
    BY <1>0, <2>2, <2>4, <2>6 DEF QuietSearch, VersionReply, Reaction, Reception, Rates
  <2>9. Prospects'
    BY <2>2 DEF Prospects, CounterIs
  <2> QED BY <2>7, <2>8, <2>9 DEF LinkInv
<1>6. CASE Quiet \/ Navigate
  <2>1. UNCHANGED <<state, ackState, timeoutState, counter, baud, requests>>
        /\ present' \in BOOLEAN
    BY <1>6 DEF Quiet, Navigate, LinkInv, LinkType
  <2>2. LinkType'
    BY <1>0, <2>1 DEF LinkInv, LinkType, rxVars, Rates
  <2>3. QuietSearch'
    BY <1>0, <2>1 DEF LinkInv, QuietSearch, VersionReply, Reaction, Reception, Rates
  <2>4. Prospects'
    BY <1>0, <2>1 DEF LinkInv, Prospects, CounterIs
  <2> QED BY <2>2, <2>3, <2>4 DEF LinkInv
<1> QED BY <1>1, <1>2, <1>3, <1>4, <1>5, <1>6 DEF Handle

-----------------------------------------------------------------------------
(* The receiver and the line. *)

\* An answer is a sequence of receptions at the rate it was sent at.
LEMMA AnswerType ==
  ASSUME NEW S, replies \in Seq(S), NEW answers \in Seq(Reaction), NEW rate,
         \A i \in 1..Len(answers) : [answer |-> answers[i], baud |-> rate] \in S,
         Answer(answers, rate)
  PROVE  replies' \in Seq(S)
<1> DEFINE new == [i \in DOMAIN answers |-> [answer |-> answers[i], baud |-> rate]]
<1>1. DOMAIN answers = 1..Len(answers) /\ Len(answers) \in Nat
  BY LenProperties
<1>2. new \in [1..Len(answers) -> S]
  BY <1>1
<1>3. new \in Seq(S)
  BY <1>1, <1>2
<1>4. replies' = replies \o new
  BY DEF Answer
<1> HIDE DEF new
<1> QED BY <1>3, <1>4, ConcatProperties

LEMMA ReceiverKeeps ==
  ASSUME LinkInv, Receiver
  PROVE  LinkInv'
<1>1. requests # <<>> /\ requests' = Tail(requests)
      /\ UNCHANGED <<state, ackState, timeoutState, counter, baud, present, generation>>
  BY DEF Receiver, fcVars
<1>2. UNCHANGED <<MsgOn, OwnRequest, VersionRequest>>
  BY <1>1 DEF MsgOn, OwnRequest, VersionRequest
<1>3. PICK request \in OwnRequest : request = Head(requests)
  BY <1>1, HeadTailProperties DEF LinkInv, LinkType
<1>4. requests' \in Seq(OwnRequest)
  BY <1>1, HeadTailProperties DEF LinkInv, LinkType
<1>5. \/ request.ask \notin {"VERSION", "L5"} /\ Obey(request)
      \/ Reply(request) /\ UNCHANGED <<rxBaud, nmea, nav>>
      \/ Answer(<<"NAK">>, rxBaud) /\ UNCHANGED <<rxBaud, nmea, nav>>
  BY <1>3 DEF Receiver
<1>6. rxBaud' \in Rates /\ nmea' \subseteq ToSet(NmeaMsgOff) /\ nav' \subseteq ToSet(MsgOn)
  BY <1>5 DEF Obey, LinkInv, LinkType, OwnRequest, Rates
<1>7. CASE UNCHANGED replies
  <2>1. LinkType'
    BY <1>1, <1>2, <1>4, <1>6, <1>7 DEF LinkInv, LinkType, Reaction, Reception, Rates
  <2>2. QuietSearch'
    <3>1. state # "DETECT_BAUD"
      BY <1>1 DEF LinkInv, QuietSearch
    <3>2. state = "WAIT" /\ ackState = "CONFIGURE_BAUD" => requests' \in Seq(VersionRequest)
      BY <1>1, HeadTailProperties DEF LinkInv, QuietSearch
    <3> QED BY <1>1, <1>2, <1>7, <3>1, <3>2
            DEF LinkInv, QuietSearch, VersionReply, Reaction, Reception, Rates
  <2>3. Prospects'
    BY <1>1, <1>2 DEF LinkInv, Prospects, CounterIs
  <2> QED BY <2>1, <2>2, <2>3 DEF LinkInv
<1>8. ASSUME NEW answers \in {<<"ACK">>, <<"VER">>, <<"NAK">>, <<"L5", "ACK">>},
             NEW rate \in Rates, Answer(answers, rate),
             request.ask = "VERSION" => answers \in {<<"VER">>, <<"NAK">>}
      PROVE  LinkInv'
  <2>1. answers \in Seq(Reaction)
    <3>1. \A a \in Reaction : <<a>> \in Seq(Reaction)
      OBVIOUS
    <3>2. \A a, b \in Reaction : <<a, b>> \in Seq(Reaction)
      OBVIOUS
    <3> QED BY <3>1, <3>2 DEF Reaction
  <2>2. \A i \in 1..Len(answers) : [answer |-> answers[i], baud |-> rate] \in Reception
    BY DEF Reaction, Reception
  <2>3. replies' \in Seq(Reception)
    BY <1>8, <2>1, <2>2, AnswerType DEF LinkInv, LinkType
  <2>4. LinkType'
    BY <1>1, <1>2, <1>4, <1>6, <2>3 DEF LinkInv, LinkType, Reaction, Reception, Rates
  <2>5. QuietSearch'
    <3>1. state # "DETECT_BAUD"
      BY <1>1 DEF LinkInv, QuietSearch
    <3>2. ASSUME state = "WAIT", ackState = "CONFIGURE_BAUD"
          PROVE  requests' \in Seq(VersionRequest) /\ replies' \in Seq(VersionReply)
      <4>1. requests \in Seq(VersionRequest) /\ replies \in Seq(VersionReply)
        BY <3>2 DEF LinkInv, QuietSearch
      <4>2. requests' \in Seq(VersionRequest) /\ request \in VersionRequest
        BY <1>1, <1>3, <4>1, HeadTailProperties
      <4>3. answers \in {<<"VER">>, <<"NAK">>}
        BY <1>8, <4>2 DEF VersionRequest
      <4>4. \A i \in 1..Len(answers) :
              [answer |-> answers[i], baud |-> rate] \in VersionReply
        BY <4>3 DEF VersionReply, Reaction, Reception
      <4> QED BY <1>8, <2>1, <4>1, <4>2, <4>4, AnswerType
    <3> QED BY <1>1, <1>2, <3>1, <3>2 DEF QuietSearch, VersionReply, Reaction, Reception, Rates
  <2>6. Prospects'
    BY <1>1, <1>2 DEF LinkInv, Prospects, CounterIs
  <2> QED BY <2>4, <2>5, <2>6 DEF LinkInv
<1>9. \/ UNCHANGED replies
      \/ \E answers \in {<<"ACK">>, <<"VER">>, <<"NAK">>, <<"L5", "ACK">>}, rate \in Rates :
           /\ Answer(answers, rate)
           /\ request.ask = "VERSION" => answers \in {<<"VER">>, <<"NAK">>}
  BY <1>5, <1>6 DEF Obey, Reply, LinkInv, LinkType
<1> QED BY <1>7, <1>8, <1>9

LEMMA LineKeeps ==
  ASSUME LinkInv, Noise \/ Lose
  PROVE  LinkInv'
<1>1. UNCHANGED <<fcVars, rxVars>>
  BY DEF Noise, Lose
<1>2. UNCHANGED <<MsgOn, OwnRequest, VersionRequest>>
  BY <1>1 DEF MsgOn, OwnRequest, VersionRequest, rxVars
<1>3. requests' = requests \/ (requests # <<>> /\ requests' = Tail(requests))
  BY DEF Noise, Lose
<1>4. replies' = replies \/ (replies # <<>> /\ replies' = Tail(replies))
  BY DEF Noise, Lose
<1>5. ASSUME NEW S PROVE /\ requests \in Seq(S) => requests' \in Seq(S)
                         /\ replies \in Seq(S) => replies' \in Seq(S)
  BY <1>3, <1>4, HeadTailProperties
<1>6. LinkType'
  BY <1>1, <1>2, <1>5 DEF LinkInv, LinkType, fcVars, rxVars, Reaction, Reception, Rates
<1>7. QuietSearch'
  BY <1>1, <1>2, <1>3, <1>4, <1>5
  DEF LinkInv, QuietSearch, fcVars, VersionReply, Reaction, Reception, Rates
<1>8. Prospects'
  BY <1>1, <1>2 DEF LinkInv, Prospects, CounterIs, fcVars, rxVars
<1> QED BY <1>6, <1>7, <1>8 DEF LinkInv

LEMMA RestartKeeps ==
  ASSUME LinkInv, Restart
  PROVE  LinkInv'
<1>1. UNCHANGED <<MsgOn, OwnRequest>>
  BY DEF Restart, MsgOn, OwnRequest, rxVars
<1>2. requests' \in Seq(OwnRequest) /\ replies' \in Seq(Reception)
  BY DEF Restart
<1>3. counter' \in 0..(Len(Bauds) + Len(NmeaMsgOff) + Len(Ubx6MsgOn)) /\ baud' \in Rates
  BY Lists DEF Restart, Rates
<1>4. LinkType'
  BY <1>1, <1>2, <1>3 DEF Restart, LinkInv, LinkType, State, rxVars, Reaction, Reception, Rates
<1>5. QuietSearch' /\ Prospects'
  BY DEF Restart, QuietSearch, Prospects, CounterIs
<1> QED BY <1>4, <1>5 DEF LinkInv

LEMMA StillKeeps ==
  ASSUME LinkInv, UNCHANGED <<fcVars, rxVars, requests, replies>>
  PROVE  LinkInv'
<1>1. UNCHANGED <<MsgOn, OwnRequest, VersionRequest>>
  BY DEF MsgOn, OwnRequest, VersionRequest, rxVars
<1> QED BY <1>1 DEF LinkInv, LinkType, QuietSearch, Prospects, CounterIs, fcVars, rxVars,
        VersionReply, Reaction, Reception, Rates

\* Every step keeps what the flight controller relies on.
LEMMA LinkStep == LinkInv /\ [Next]_vars => LinkInv'
<1> SUFFICES ASSUME LinkInv, [Next]_vars PROVE LinkInv'
  OBVIOUS
<1>1. CASE ReadAnswer
  <2>1. replies' \in Seq(Reception) /\ replies' = Tail(replies) /\ replies # <<>>
        /\ UNCHANGED rxVars
    BY <1>1, HeadTailProperties DEF ReadAnswer, LinkInv, LinkType
  <2>2. CASE HandleReceive(Head(replies).answer)
    BY <2>1, <2>2, ReceiveKeeps
  <2>3. CASE Ask /\ UNCHANGED present
    BY <2>1, <2>3, AskKeeps
  <2>4. CASE HandleError
    <3>1. state = "ERROR" /\ counter' \in {counter, 1} /\ present' = FALSE
          /\ UNCHANGED <<state, ackState, timeoutState, baud, requests>>
      BY <2>4 DEF HandleError
    <3>2. counter' \in 0..(Len(Bauds) + Len(NmeaMsgOff) + Len(Ubx6MsgOn))
      BY <3>1, Lists DEF LinkInv, LinkType
    <3>3. LinkType'
      BY <2>1, <3>1, <3>2 DEF LinkInv, LinkType, rxVars, Rates, OwnRequest, MsgOn, Reaction, Reception
    <3>4. QuietSearch' /\ Prospects'
      BY <3>1 DEF LinkInv, QuietSearch, Prospects, CounterIs
    <3> QED BY <3>3, <3>4 DEF LinkInv
  <2> QED BY <1>1, <2>2, <2>3, <2>4 DEF ReadAnswer
<1>2. CASE (Handle \/ Detected \/ Quiet \/ Navigate) /\ UNCHANGED <<rxVars, replies>>
  BY <1>2, HandleKeeps
<1>3. CASE Receiver
  BY <1>3, ReceiverKeeps
<1>4. CASE Noise \/ Lose
  BY <1>4, LineKeeps
<1>5. CASE Restart
  BY <1>5, RestartKeeps
<1>6. CASE Tick \/ UNCHANGED vars
  BY <1>6, StillKeeps DEF Tick, vars
<1> QED BY <1>1, <1>2, <1>3, <1>4, <1>5, <1>6 DEF Next, Update

-----------------------------------------------------------------------------
(* The solution and the history. *)

\* An update without a solution only lets one expire.
LEMMA NoSolutionKeeps ==
  ASSUME SolutionType, Currency, NoSolution, UNCHANGED generation
  PROVE  SolutionType' /\ Currency'
<1>1. Freshen(fix, solutionFresh, solutionAge) /\ positionAge' = positionAge
  BY DEF NoSolution
<1>2. fix \in BOOLEAN /\ solutionFresh \in BOOLEAN /\ (fix => solutionFresh)
  BY DEF SolutionType, Currency
<1>3. Limit \in Nat /\ solutionAge \in Nat /\ positionAge \in Nat
  BY GpsAssumption DEF SolutionType
<1>4. /\ fix' = (fix /\ ~(solutionFresh /\ solutionAge > Limit))
      /\ solutionFresh' = (solutionFresh /\ ~(solutionFresh /\ solutionAge > Limit))
      /\ solutionAge' = solutionAge /\ ticked' = FALSE
  BY <1>1 DEF Freshen
<1>5. solutionFresh' => solutionFresh /\ solutionAge <= Limit
  <2>1. solutionAge > Limit \/ solutionAge <= Limit
    BY <1>3
  <2> QED BY <1>4, <2>1, Zenon
<1>6. SolutionType'
  BY <1>1, <1>2, <1>4 DEF SolutionType
<1> QED BY <1>1, <1>2, <1>4, <1>5, <1>6 DEF Currency

\* A solution from the receiver: only a NEO-6M sends fix and position apart.
LEMMA NavigateKeeps ==
  ASSUME LinkInv, SolutionType, Currency, Navigate, UNCHANGED generation
  PROVE  SolutionType' /\ Currency'
<1>1. Limit \in Nat /\ ~(0 > Limit)
  BY GpsAssumption
<1>2. fix \in BOOLEAN
  BY DEF SolutionType
<1>3. ASSUME NEW isFix \in BOOLEAN, Freshen(isFix, TRUE, 0),
             \/ positionAge' = 0
             \/ positionAge' = positionAge /\ generation = "ubx6"
      PROVE  SolutionType' /\ Currency'
  <2>1. fix' = isFix /\ solutionFresh' = TRUE /\ solutionAge' = 0 /\ ticked' = FALSE
    BY <1>1, <1>3 DEF Freshen
  <2>2. SolutionType'
    <3>1. solutionAge' \in 0..(Limit + 1) /\ positionAge' \in 0..(Limit + 1)
      BY <1>1, <1>3, <2>1 DEF SolutionType
    <3>2. fix' \in BOOLEAN /\ solutionFresh' \in BOOLEAN /\ ticked' \in BOOLEAN
      BY <2>1, Zenon
    <3> QED BY <3>1, <3>2 DEF SolutionType
  <2> QED BY <1>1, <1>3, <2>1, <2>2 DEF Currency
<1>4. CASE HandleNavPvt
  BY <1>3, <1>4 DEF HandleNavPvt
<1>5. CASE HandleNavPosLlh
  BY <1>2, <1>3, <1>5 DEF HandleNavPosLlh
<1>6. CASE "NAV_SOL" \in nav /\ HandleNavSol
  <2>1. "NAV_SOL" \in ToSet(MsgOn)
    BY <1>6 DEF LinkInv, LinkType
  <2>2. generation = "ubx6"
    BY <2>1, Lists DEF MsgOn
  <2> QED BY <1>3, <1>6, <2>2 DEF HandleNavSol
<1> QED BY <1>4, <1>5, <1>6 DEF Navigate

\* Time passes for solution and position alike.
LEMMA TickKeeps ==
  ASSUME SolutionType, Currency, Tick
  PROVE  SolutionType' /\ Currency'
<1>1. Limit \in Nat /\ solutionAge \in 0..(Limit + 1) /\ positionAge \in 0..(Limit + 1)
  BY GpsAssumption DEF SolutionType
<1>2. solutionAge' = Older(solutionAge) /\ positionAge' = Older(positionAge)
      /\ ticked' = TRUE /\ UNCHANGED <<fix, solutionFresh, generation>>
  BY DEF Tick, rxVars
<1>3. solutionAge' \in 0..(Limit + 1) /\ positionAge' \in 0..(Limit + 1)
  BY <1>1, <1>2 DEF Older
<1>4. positionAge <= solutionAge => positionAge' <= solutionAge'
  BY <1>1, <1>2 DEF Older
<1> QED BY <1>2, <1>3, <1>4 DEF SolutionType, Currency

LEMMA SolutionStep ==
  LinkInv /\ SolutionType /\ Currency /\ [Next]_vars => SolutionType' /\ Currency'
<1> SUFFICES ASSUME LinkInv, SolutionType, Currency, [Next]_vars
             PROVE  SolutionType' /\ Currency'
  OBVIOUS
<1>1. CASE ReadAnswer \/ (Update /\ NoSolution)
  BY <1>1, NoSolutionKeeps DEF ReadAnswer, Update, rxVars
<1>2. CASE Navigate /\ UNCHANGED rxVars
  BY <1>2, NavigateKeeps DEF rxVars
<1>3. CASE Restart
  <2>1. /\ fix' = FALSE /\ solutionFresh' = FALSE /\ ticked' = FALSE
        /\ solutionAge' = 0 /\ positionAge' = 0
    BY <1>3 DEF Restart
  <2>2. 0 \in 0..(Limit + 1)
    BY GpsAssumption
  <2> QED BY <2>1, <2>2 DEF SolutionType, Currency
<1>4. CASE Tick
  BY <1>4, TickKeeps
<1>5. CASE Receiver \/ Noise \/ Lose \/ UNCHANGED vars
  <2>1. UNCHANGED <<solutionVars, ticked, generation>>
    BY <1>5 DEF Receiver, Noise, Lose, vars, rxVars
  <2> QED BY <2>1 DEF SolutionType, Currency, solutionVars
<1> QED BY <1>1, <1>2, <1>3, <1>4, <1>5 DEF Next, Update

LEMMA HistoryStep == HistoryType /\ [Next]_vars => HistoryType'
<1> SUFFICES ASSUME HistoryType, [Next]_vars PROVE HistoryType'
  OBVIOUS
<1>1. restarts' = restarts \/ (restarts < MaxRestarts /\ restarts' = restarts + 1)
  BY DEF Next, Update, ReadAnswer, Receiver, Noise, Lose, Restart, Tick, vars, historyVars
<1>2. trouble' \subseteq trouble \cup {"lost", "late", "refused", "silent", "restart"}
  <2>1. CASE Handle
    <3>1. CASE DetectBaud
      BY <3>1 DEF DetectBaud
    <3>2. CASE Expire
      BY <3>2 DEF Expire
    <3>3. CASE UNCHANGED trouble
      BY <3>3
    <3> QED BY <2>1, <3>1, <3>2, <3>3 DEF Handle
  <2>2. CASE Update /\ ~Handle
    BY <2>2 DEF Update, ReadAnswer, historyVars
  <2>3. CASE Receiver \/ Lose \/ Restart
    BY <2>3 DEF Receiver, Lose, Restart
  <2>4. CASE Noise \/ Tick \/ UNCHANGED vars
    BY <2>4 DEF Noise, Tick, vars, historyVars
  <2> QED BY <2>1, <2>2, <2>3, <2>4 DEF Next
<1>3. restarts' \in 0..MaxRestarts
  BY <1>1, GpsAssumption DEF HistoryType
<1>4. trouble' \subseteq {"lost", "late", "refused", "silent", "restart"}
  BY <1>2 DEF HistoryType
<1> QED BY <1>3, <1>4 DEF HistoryType

-----------------------------------------------------------------------------
(* The theorems. *)

LEMMA InitInv == Init => IInv
<1> SUFFICES ASSUME Init PROVE IInv
  OBVIOUS
<1>1. 0 \in 0..(Limit + 1) /\ 0 \in 0..MaxRestarts /\ 0 <= Limit
  BY GpsAssumption
<1>2. HistoryType /\ SolutionType /\ Currency
  BY <1>1 DEF Init, HistoryType, SolutionType, Currency
<1> QED BY <1>2, InitLink DEF IInv

\* The inductive invariant holds in every reachable state.
THEOREM Invariance == Spec => []IInv
<1>1. Init => IInv
  BY InitInv
<1>2. IInv /\ [Next]_vars => IInv'
  BY LinkStep, SolutionStep, HistoryStep DEF IInv
<1> QED BY <1>1, <1>2, PTL DEF Spec

\* Every variable keeps its type: the code's counter stays within what its lists
\* allow, and the receiver only ever sends what its generation knows.
THEOREM GpsTypeCorrect == Spec => []TypeOK
<1>1. IInv => TypeOK
  <2> SUFFICES ASSUME IInv PROVE TypeOK
    OBVIOUS
  <2>1. requests \in Seq(Request)
    BY SeqMonotonic DEF IInv, LinkInv, LinkType, OwnRequest
  <2>2. nav \subseteq ToSet(UbxMsgOn) \cup ToSet(Ubx6MsgOn)
    BY Lists DEF IInv, LinkInv, LinkType
  <2> QED BY <2>1, <2>2 DEF IInv, LinkInv, LinkType, HistoryType, SolutionType, TypeOK,
             Reception, Reaction
<1> QED BY <1>1, Invariance, PTL

\* The shared index is inside the array that each state uses it for, whatever
\* answers arrive, are lost or are late, and however long the lists are.
THEOREM IndexStaysInBounds == Spec => []IndexInBounds
<1>1. IInv => IndexInBounds
  BY DEF IInv, LinkInv, Prospects, CounterIs, IndexInBounds
<1> QED BY <1>1, Invariance, PTL

\* What is called a fix is no older than the timeout, for every timeout and every
\* order of solutions, acknowledgements, losses and restarts.
THEOREM FixStaysCurrent == Spec => []FixIsCurrent
<1>1. IInv => FixIsCurrent
  <2> SUFFICES ASSUME IInv, fix, ~ticked
               PROVE  /\ solutionAge <= Limit
                      /\ generation # "ubx6" => positionAge <= Limit
    BY DEF FixIsCurrent
  <2>1. Limit \in Nat /\ solutionAge \in Nat /\ positionAge \in Nat
    BY GpsAssumption DEF IInv, SolutionType
  <2>2. solutionFresh /\ solutionAge <= Limit
    BY DEF IInv, Currency
  <2>3. generation # "ubx6" => positionAge <= solutionAge
    BY <2>2 DEF IInv, Currency
  <2> QED BY <2>1, <2>2, <2>3
<1> QED BY <1>1, Invariance, PTL

-----------------------------------------------------------------------------
(* The set-up: what its states have brought the receiver to. *)

\* Nothing was lost or late.
Clean == trouble \cap {"lost", "late"} = {}

\* The receiver sends what the code reads and nothing else.
Done == nmea = {} /\ ToSet(MsgOn) \subseteq nav

\* What the receiver has been brought to, with the messages off and on still
\* sent, when the set-up goes on in state next with the counter at c.
Reached(next, c, off, on) ==
  /\ next = "DISABLE_NMEA" => \A i \in 1..c : NmeaMsgOff[i] \notin off
  /\ next = "ENABLE_UBX" => off = {} /\ \A i \in 1..c : MsgOn[i] \in on
  /\ next \notin {"DETECT_BAUD", "CONFIGURE_BAUD", "DISABLE_NMEA", "ENABLE_UBX", "ERROR"} =>
       off = {} /\ ToSet(MsgOn) \subseteq on

\* The messages sent once a request is obeyed.
NmeaAfter(r) == IF r.ask = "OFF" THEN nmea \ r.what ELSE nmea
NavAfter(r) == IF r.ask = "ON" THEN nav \cup r.what ELSE nav

\* One question at a time, and its answer before the next.
Alternate ==
  /\ state # "WAIT" => requests = <<>> /\ replies = <<>>
  /\ requests # <<>> => Tail(requests) = <<>> /\ replies = <<>>
  /\ replies # <<>> => Tail(replies) = <<>>

\* An answer leads to where the receiver has been brought.
Stepwise ==
  /\ Alternate
  /\ state # "WAIT" => Reached(state, counter, nmea, nav)
  /\ state = "WAIT" =>
       /\ Reached(timeoutState, counter, nmea, nav)
       /\ requests # <<>> =>
            /\ Head(requests).ask # "L5"
            /\ Reached(ackState, counter, NmeaAfter(Head(requests)), NavAfter(Head(requests)))
       /\ replies # <<>> /\ Head(replies).answer # "NAK" =>
            Reached(ackState, counter, nmea, nav)

Progress == Clean => Done \/ Stepwise

LEMMA MsgOnDomain == DOMAIN MsgOn = 1..Len(MsgOn)
<1>1. DOMAIN UbxMsgOn = 1..2 /\ Len(UbxMsgOn) = 2
  BY DEF UbxMsgOn
<1>2. DOMAIN Ubx6MsgOn = 1..4 /\ Len(Ubx6MsgOn) = 4
  BY DEF Ubx6MsgOn
<1> QED BY <1>1, <1>2 DEF MsgOn

\* An answer to an empty line.
LEMMA SingleAnswer ==
  ASSUME NEW a, NEW rate, replies = <<>>, Answer(<<a>>, rate)
  PROVE  replies' = <<[answer |-> a, baud |-> rate]>>
<1> DEFINE one == [i \in DOMAIN <<a>> |-> [answer |-> <<a>>[i], baud |-> rate]]
<1>1. one = <<[answer |-> a, baud |-> rate]>>
  OBVIOUS
<1>2. replies' = <<>> \o one
  BY DEF Answer
<1> QED BY <1>1, <1>2

\* Nothing takes back what the receiver was told, or what went wrong.
LEMMA Settled ==
  ASSUME [Next]_vars
  PROVE  /\ generation' = generation /\ MsgOn' = MsgOn
         /\ nmea' \subseteq nmea /\ nav \subseteq nav'
         /\ trouble \subseteq trouble'
<1>1. CASE Update
  <2>1. UNCHANGED rxVars
    BY <1>1 DEF Update, ReadAnswer
  <2>2. trouble \subseteq trouble'
    BY <1>1 DEF Update, ReadAnswer, Handle, DetectBaud, Expire, historyVars
  <2> QED BY <2>1, <2>2 DEF rxVars, MsgOn
<1>2. CASE Receiver
  <2>1. trouble \subseteq trouble' /\ generation' = generation
    BY <1>2 DEF Receiver
  <2>2. nmea' \subseteq nmea /\ nav \subseteq nav'
    BY <1>2 DEF Receiver, Obey
  <2> QED BY <2>1, <2>2 DEF MsgOn
<1>3. CASE Noise \/ Lose \/ Restart \/ Tick \/ UNCHANGED vars
  BY <1>3 DEF Noise, Lose, Restart, Tick, vars, rxVars, historyVars, MsgOn
<1> QED BY <1>1, <1>2, <1>3 DEF Next

LEMMA ReachedMore ==
  ASSUME NEW next, NEW c, NEW off, NEW on, NEW off2, NEW on2,
         off2 \subseteq off, on \subseteq on2, Reached(next, c, off, on)
  PROVE  Reached(next, c, off2, on2)
  BY DEF Reached

\* A state that starts its list asks for no more than one that is inside it.
LEMMA ReachedAnew ==
  ASSUME NEW next, NEW c, NEW off, NEW on, Reached(next, c, off, on)
  PROVE  Reached(next, 0, off, on)
  BY DEF Reached

LEMMA DoneStays == Done /\ [Next]_vars => Done'
  BY Settled DEF Done

\* A request put on an empty line.
LEMMA SendStepwise ==
  ASSUME LinkInv, Stepwise, state # "WAIT",
         NEW ask, ask # "L5", NEW what, NEW ack, NEW timeout,
         NEW r \in OwnRequest, r = [ask |-> ask, what |-> what],
         SendElse(ask, what, ack, timeout), UNCHANGED <<rxVars, replies>>,
         Reached(ack, counter', NmeaAfter(r), NavAfter(r)),
         Reached(timeout, counter', nmea, nav)
  PROVE  Stepwise'
<1>1. requests = <<>> /\ replies = <<>>
  BY DEF Stepwise, Alternate
<1>2. requests' = <<>> \/ requests' = <<r>>
  BY <1>1 DEF SendElse, Write
<1>3. state' = "WAIT" /\ ackState' = ack /\ timeoutState' = timeout /\ replies' = <<>>
  BY <1>1 DEF SendElse
<1>4. UNCHANGED <<nmea, nav, MsgOn>>
  BY DEF rxVars, MsgOn
<1>5. Reached(timeoutState, counter, nmea, nav)'
  BY <1>3, <1>4 DEF Reached
<1>6. requests' # <<>> =>
        /\ Head(requests') = r
        /\ Reached(ackState, counter, NmeaAfter(r), NavAfter(r))'
  BY <1>2, <1>3, <1>4 DEF Reached, NmeaAfter, NavAfter
<1>7. requests' # <<>> => Head(requests').ask # "L5"
  BY <1>6
<1>8. Alternate'
  <2>1. Tail(<<r>>) = <<>>
    OBVIOUS
  <2> QED BY <1>2, <1>3, <2>1 DEF Alternate
<1> QED BY <1>3, <1>5, <1>6, <1>7, <1>8 DEF Stepwise, NmeaAfter, NavAfter

\* A list's message is off, or on, once it was asked for.
LEMMA SendNextStepwise ==
  ASSUME LinkInv, Stepwise, ~Done, generation # "modern", UNCHANGED <<rxVars, replies>>,
         \/ state = "DISABLE_NMEA" /\ SendNext("OFF", NmeaMsgOff, "ENABLE_UBX")
         \/ state = "ENABLE_UBX" /\ SendNext("ON", MsgOn, "ENABLE_NAV5")
  PROVE  Stepwise'
<1>1. counter \in Nat /\ Len(NmeaMsgOff) \in Nat \ {0} /\ Len(MsgOn) \in Nat \ {0}
      /\ Reached(state, counter, nmea, nav) /\ CounterIs(state)
      /\ nmea \subseteq ToSet(NmeaMsgOff)
  BY Lists DEF LinkInv, LinkType, Stepwise, Prospects
<1>2. PICK ask, list, next :
        /\ SendNext(ask, list, next)
        /\ \/ state = "DISABLE_NMEA" /\ ask = "OFF" /\ list = NmeaMsgOff /\ next = "ENABLE_UBX"
           \/ state = "ENABLE_UBX" /\ ask = "ON" /\ list = MsgOn /\ next = "ENABLE_NAV5"
  BY Zenon
<1>3. PICK what, here, r :
         what = {list[counter + 1]} /\ here = state /\ r = [ask |-> ask, what |-> what]
  OBVIOUS
<1>4. counter < Len(list) /\ Len(list) \in Nat
  BY <1>1, <1>2 DEF CounterIs
<1>5. counter + 1 \in 1..Len(list)
  BY <1>1, <1>4
<1>6. r \in OwnRequest
  BY <1>2, <1>5, <1>3, ListElement, RequestType
<1>7. state # "WAIT" /\ ask # "L5"
  BY <1>2
<1>8. NmeaAfter(r) = (IF ask = "OFF" THEN nmea \ {list[counter + 1]} ELSE nmea)
      /\ NavAfter(r) = (IF ask = "ON" THEN nav \cup {list[counter + 1]} ELSE nav)
  BY <1>3 DEF NmeaAfter, NavAfter
<1>9. Reached(state, counter + 1, NmeaAfter(r), NavAfter(r))
  <2>1. CASE ask = "OFF"
    <3>1. \A i \in 1..counter : NmeaMsgOff[i] \notin nmea
      BY <1>1, <1>2, <2>1 DEF Reached
    <3>2. \A i \in 1..(counter + 1) : i \in 1..counter \/ i = counter + 1
      BY <1>1
    <3>3. NmeaAfter(r) = nmea \ {NmeaMsgOff[counter + 1]}
      BY <1>2, <1>8, <2>1
    <3>4. \A i \in 1..(counter + 1) : NmeaMsgOff[i] \notin NmeaAfter(r)
      BY <3>1, <3>2, <3>3
    <3> QED BY <1>2, <2>1, <3>4 DEF Reached
  <2>2. CASE ask = "ON"
    <3>1. nmea = {} /\ \A i \in 1..counter : MsgOn[i] \in nav
      BY <1>1, <1>2, <2>2 DEF Reached
    <3>2. \A i \in 1..(counter + 1) : i \in 1..counter \/ i = counter + 1
      BY <1>1
    <3>3. NmeaAfter(r) = {} /\ NavAfter(r) = nav \cup {MsgOn[counter + 1]}
      BY <1>2, <1>8, <2>2, <3>1
    <3>4. \A i \in 1..(counter + 1) : MsgOn[i] \in NavAfter(r)
      BY <3>1, <3>2, <3>3
    <3> QED BY <1>2, <2>2, <3>3, <3>4 DEF Reached
  <2> QED BY <1>2, <2>1, <2>2
<1>10. Reached("ERROR", counter', nmea, nav)
  BY DEF Reached
<1>11. CASE counter + 1 < Len(list)
  <2>1. SendElse(ask, what, here, "ERROR") /\ counter' = counter + 1
    BY <1>2, <1>11, <1>3 DEF SendNext, Send
  <2>2. Reached(here, counter', NmeaAfter(r), NavAfter(r))
    BY <1>9, <1>3, <2>1
  <2> QED BY <1>6, <1>7, <1>10, <1>3, <2>1, <2>2, SendStepwise
<1>12. CASE ~(counter + 1 < Len(list))
  <2>1. SendElse(ask, what, next, "ERROR") /\ counter' = 0
        /\ counter + 1 = Len(list)
    BY <1>1, <1>2, <1>4, <1>12, <1>3 DEF SendNext, Send
  <2>2. CASE ask = "OFF"
    <3>1. \A m \in ToSet(NmeaMsgOff) : m \notin NmeaAfter(r)
      <4>1. \A m \in ToSet(NmeaMsgOff) : \E i \in 1..Len(NmeaMsgOff) : m = NmeaMsgOff[i]
        BY GpsAssumption, LenProperties DEF ToSet
      <4>2. \A i \in 1..Len(NmeaMsgOff) : NmeaMsgOff[i] \notin NmeaAfter(r)
        BY <1>2, <1>9, <2>1, <2>2 DEF Reached
      <4> QED BY <4>1, <4>2
    <3>2. NmeaAfter(r) = {}
      BY <1>1, <1>8, <2>2, <3>1
    <3>3. Reached(next, 0, NmeaAfter(r), NavAfter(r))
      BY <1>2, <2>2, <3>2 DEF Reached
    <3> QED BY <1>6, <1>7, <1>10, <1>3, <2>1, <3>3, SendStepwise
  <2>3. CASE ask = "ON"
    <3>1. NmeaAfter(r) = {} /\ \A i \in 1..Len(MsgOn) : MsgOn[i] \in NavAfter(r)
      BY <1>2, <1>9, <2>1, <2>3 DEF Reached
    <3>2. ToSet(MsgOn) \subseteq NavAfter(r)
      <4>1. DOMAIN MsgOn = 1..Len(MsgOn)
        BY MsgOnDomain
      <4> QED BY <3>1, <4>1 DEF ToSet
    <3>3. Reached(next, 0, NmeaAfter(r), NavAfter(r))
      BY <1>2, <2>3, <3>1, <3>2 DEF Reached
    <3> QED BY <1>6, <1>7, <1>10, <1>3, <2>1, <3>3, SendStepwise
  <2> QED BY <1>2, <2>2, <2>3
<1> QED BY <1>11, <1>12

\* The states that send, while the set-up is on its way.
LEMMA AskStepwise ==
  ASSUME LinkInv, Stepwise, ~Done, Ask, UNCHANGED <<rxVars, replies>>
  PROVE  Stepwise'
<1>1. /\ \A next : Reached(next, 0, {}, ToSet(MsgOn))
      /\ Reached(state, counter, nmea, nav) \/ state = "WAIT"
      /\ Reached("ERROR", counter', nmea, nav)
      /\ nmea \subseteq ToSet(NmeaMsgOff)
  <2>1. \A i \in 1..Len(MsgOn) : MsgOn[i] \in ToSet(MsgOn)
    BY ListElement
  <2> QED BY <2>1 DEF Reached, Stepwise, LinkInv, LinkType
<1>2. CASE ConfigureBaud
  <2>1. SendElse("BAUD", {}, "DISABLE_NMEA", "DISABLE_NMEA") /\ state # "WAIT"
        /\ counter' = counter /\ counter = 0
    BY <1>2 DEF ConfigureBaud, LinkInv, Prospects, CounterIs
  <2>2. \A off, on : Reached("DISABLE_NMEA", counter', off, on)
    BY <2>1 DEF Reached
  <2>3. PICK r \in OwnRequest : r = [ask |-> "BAUD", what |-> {}]
    BY RequestType
  <2> QED BY <2>1, <2>2, <2>3, SendStepwise
<1>3. CASE DisableNmea /\ generation = "modern"
  <2>1. /\ SendElse("OFF", ToSet(NmeaMsgOff), "ENABLE_UBX", "ERROR") /\ state # "WAIT"
        /\ counter' = counter /\ counter = 0
    BY <1>3 DEF DisableNmea, Send, LinkInv, Prospects, CounterIs
  <2>2. PICK r \in OwnRequest : r = [ask |-> "OFF", what |-> ToSet(NmeaMsgOff)]
    BY RequestType
  <2>3. NmeaAfter(r) = {}
    BY <1>1, <2>2 DEF NmeaAfter
  <2>4. \A on : Reached("ENABLE_UBX", counter', {}, on)
    BY <2>1 DEF Reached
  <2> QED BY <1>1, <2>1, <2>2, <2>3, <2>4, SendStepwise
<1>4. CASE EnableUbx /\ generation = "modern"
  <2>1. /\ SendElse("ON", ToSet(UbxMsgOn), "ENABLE_NAV5", "ERROR") /\ state = "ENABLE_UBX"
        /\ MsgOn = UbxMsgOn
    BY <1>4 DEF EnableUbx, Send, MsgOn
  <2>2. PICK r \in OwnRequest : r = [ask |-> "ON", what |-> ToSet(UbxMsgOn)]
    BY <2>1, RequestType
  <2>3. NmeaAfter(r) = {} /\ ToSet(MsgOn) \subseteq NavAfter(r)
    BY <1>1, <2>1, <2>2 DEF NmeaAfter, NavAfter, Reached
  <2>4. Reached("ENABLE_NAV5", counter', NmeaAfter(r), NavAfter(r))
    BY <2>3 DEF Reached
  <2> QED BY <1>1, <2>1, <2>2, <2>4, SendStepwise
<1>5. CASE (DisableNmea \/ EnableUbx) /\ generation # "modern"
  BY <1>5, SendNextStepwise DEF DisableNmea, EnableUbx
<1>6. CASE EnableNav5 \/ EnableSbas \/ DetectGpsL5 \/ ConfigureGnss \/ ConfigureRate
  <2>1. state \in {"ENABLE_NAV5", "ENABLE_SBAS", "DETECT_GPS_L5", "CONFIGURE_GNSS",
                   "CONFIGURE_NAV_RATE"}
    BY <1>6 DEF EnableNav5, EnableSbas, DetectGpsL5, ConfigureGnss, ConfigureRate
  <2> QED BY <1>1, <2>1 DEF Reached, Done
<1> QED BY <1>2, <1>3, <1>4, <1>5, <1>6 DEF Ask

\* The only answer on the line is read.
LEMMA ReceiveStepwise ==
  ASSUME LinkInv, Stepwise, ReadAnswer
  PROVE  Stepwise'
<1>1. replies # <<>> /\ replies' = Tail(replies) /\ UNCHANGED rxVars
  BY DEF ReadAnswer
<1>2. state = "WAIT" /\ requests = <<>> /\ replies' = <<>>
  BY <1>1 DEF Stepwise, Alternate
<1>3. HandleReceive(Head(replies).answer)
  BY <1>2 DEF ReadAnswer, Ask, HandleError, ConfigureBaud, DisableNmea, EnableUbx, EnableNav5,
    EnableSbas, DetectGpsL5, ConfigureGnss, ConfigureRate
<1>4. /\ state' = timeoutState \/ (state' = ackState /\ Head(replies).answer # "NAK")
      /\ counter' \in {0, counter}
      /\ requests' = <<>>
  BY <1>2, <1>3 DEF HandleReceive, HandleAck, HandleNak, HandleResponse
<1>5. state' # "WAIT"
  BY <1>2, <1>4 DEF LinkInv, Prospects
<1>6. Reached(state', counter, nmea, nav)
  BY <1>1, <1>2, <1>4 DEF Stepwise
<1>7. Reached(state', counter', nmea, nav)
  BY <1>4, <1>6, ReachedAnew
<1>8. Reached(state, counter, nmea, nav)'
  BY <1>1, <1>7 DEF Reached, rxVars, MsgOn
<1>9. Alternate'
  BY <1>2, <1>4 DEF Alternate
<1> QED BY <1>5, <1>8, <1>9 DEF Stepwise

\* The only request on the line is obeyed, answered or refused.
LEMMA ReceiverStepwise ==
  ASSUME LinkInv, Stepwise, Receiver
  PROVE  Stepwise'
<1>1. requests # <<>> /\ requests' = Tail(requests) /\ UNCHANGED fcVars
      /\ UNCHANGED generation
  BY DEF Receiver
<1>2. state = "WAIT" /\ replies = <<>> /\ requests' = <<>> /\ state' = "WAIT"
  BY <1>1 DEF Stepwise, Alternate, fcVars
<1>3. PICK r \in OwnRequest : r = Head(requests)
  BY <1>1, HeadTailProperties DEF LinkInv, LinkType
<1>4. r.ask # "L5" /\ Reached(ackState, counter, NmeaAfter(r), NavAfter(r))
      /\ Reached(timeoutState, counter, nmea, nav)
  BY <1>1, <1>2, <1>3 DEF Stepwise
<1>5. PICK a \in Reaction, rate \in Rates :
        /\ replies' = <<[answer |-> a, baud |-> rate]>>
        /\ a # "NAK" => nmea' = NmeaAfter(r) /\ nav' = NavAfter(r)
        /\ nmea' \subseteq nmea /\ nav \subseteq nav'
  <2>1. CASE r.ask \notin {"VERSION", "L5"} /\ Obey(r)
    <3>1. PICK rate \in {rxBaud, rxBaud'} : Answer(<<"ACK">>, rate)
      BY <2>1 DEF Obey
    <3>2. rate \in Rates
      BY <2>1 DEF Obey, LinkInv, LinkType, Rates
    <3>3. replies' = <<[answer |-> "ACK", baud |-> rate]>>
      BY <1>2, <3>1, SingleAnswer
    <3>4. nmea' = NmeaAfter(r) /\ nav' = NavAfter(r)
      BY <2>1 DEF Obey, NmeaAfter, NavAfter
    <3> QED BY <3>2, <3>3, <3>4 DEF Reaction, NmeaAfter, NavAfter
  <2>2. CASE Reply(r) /\ UNCHANGED <<rxBaud, nmea, nav>>
    <3>1. Answer(<<"VER">>, rxBaud) /\ r.ask = "VERSION"
      BY <1>4, <2>2 DEF Reply
    <3>2. replies' = <<[answer |-> "VER", baud |-> rxBaud]>>
      BY <1>2, <3>1, SingleAnswer
    <3>3. rxBaud \in Rates
      BY DEF LinkInv, LinkType
    <3> QED BY <2>2, <3>1, <3>2, <3>3 DEF Reaction, NmeaAfter, NavAfter
  <2>3. CASE Answer(<<"NAK">>, rxBaud) /\ UNCHANGED <<rxBaud, nmea, nav>>
    <3>1. replies' = <<[answer |-> "NAK", baud |-> rxBaud]>>
      BY <1>2, <2>3, SingleAnswer
    <3>2. rxBaud \in Rates
      BY DEF LinkInv, LinkType
    <3> QED BY <2>3, <3>1, <3>2 DEF Reaction
  <2> QED BY <1>3, <2>1, <2>2, <2>3 DEF Receiver
<1>6. Head(replies') = [answer |-> a, baud |-> rate] /\ Tail(replies') = <<>>
  BY <1>5
<1>7. Head(replies').answer = a
  BY <1>6
<1>8. Alternate'
  BY <1>2, <1>6 DEF Alternate
<1>9. Reached(timeoutState, counter, nmea', nav')
  BY <1>4, <1>5, ReachedMore
<1>10. a # "NAK" => Reached(ackState, counter, nmea', nav')
  BY <1>4, <1>5
<1>11. UNCHANGED <<ackState, timeoutState, counter, MsgOn>>
  BY <1>1 DEF fcVars, MsgOn
<1>12. Reached(timeoutState, counter, nmea, nav)'
  BY <1>9, <1>11 DEF Reached
<1>13. a # "NAK" => Reached(ackState, counter, nmea, nav)'
  BY <1>10, <1>11 DEF Reached
<1> QED BY <1>2, <1>7, <1>12, <1>13, <1>8 DEF Stepwise

\* Every step, without a loss or a late answer, keeps the set-up's promise.
LEMMA ProgressStep == LinkInv /\ Progress /\ [Next]_vars => Progress'
<1> SUFFICES ASSUME LinkInv, Progress, [Next]_vars, Clean', ~Done
             PROVE  Stepwise'
  BY DoneStays DEF Progress
<1>1. Clean /\ Stepwise
  BY Settled DEF Clean, Progress
<1>2. \A c, off, on : Reached("DETECT_BAUD", c, off, on) /\ Reached("ERROR", c, off, on)
                      /\ Reached("CONFIGURE_BAUD", c, off, on)
  BY DEF Reached
<1>3. CASE ReadAnswer
  BY <1>1, <1>3, ReceiveStepwise
<1>4. CASE UNCHANGED <<state, ackState, timeoutState, counter, requests, replies, rxVars>>
  <2>1. UNCHANGED <<nmea, nav, MsgOn>>
    BY <1>4 DEF rxVars, MsgOn
  <2> QED BY <1>1, <1>4, <2>1 DEF Stepwise, Alternate, Reached, NmeaAfter, NavAfter
<1>5. CASE Handle /\ UNCHANGED <<rxVars, replies>>
  <2>1. CASE Ask
    BY <1>1, <1>5, <2>1, AskStepwise
  <2>2. CASE DetectBaud
    <3>1. state' \in {"DETECT_BAUD", "ERROR"} /\ requests' = <<>> /\ replies' = <<>>
      BY <1>5, <2>2 DEF DetectBaud, LinkInv, QuietSearch
    <3> QED BY <3>1 DEF Stepwise, Alternate, Reached
  <2>3. CASE Expire
    <3>1. requests = <<>> /\ replies = <<>>
      BY <2>3 DEF Expire, Clean
    <3>2. /\ state = "WAIT" /\ state' = timeoutState /\ counter' = counter
          /\ requests' = <<>> /\ replies' = <<>>
      BY <1>5, <2>3, <3>1 DEF Expire
    <3>3. Reached(timeoutState, counter, nmea, nav) /\ timeoutState # "WAIT"
      BY <1>1, <3>2 DEF Stepwise, LinkInv, Prospects
    <3>4. Reached(state, counter, nmea, nav)'
      BY <1>5, <3>2, <3>3 DEF Reached, rxVars, MsgOn
    <3> QED BY <3>2, <3>3, <3>4 DEF Stepwise, Alternate
  <2>4. CASE HandleError
    <3>1. state' = "ERROR" /\ requests' = <<>> /\ replies' = <<>>
      BY <1>1, <1>5, <2>4 DEF HandleError, Stepwise, Alternate
    <3> QED BY <3>1 DEF Stepwise, Alternate, Reached
  <2> QED BY <1>5, <2>1, <2>2, <2>3, <2>4 DEF Handle
<1>6. CASE Detected /\ UNCHANGED <<rxVars, replies>>
  <2>1. SendElse("VERSION", {}, "CONFIGURE_BAUD", "ERROR") /\ state # "WAIT"
    BY <1>6 DEF Detected, ReadVersion, Send
  <2>2. PICK r \in OwnRequest : r = [ask |-> "VERSION", what |-> {}]
    BY RequestType
  <2> QED BY <1>1, <1>2, <1>6, <2>1, <2>2, SendStepwise
<1>7. CASE Receiver
  BY <1>1, <1>7, ReceiverStepwise
<1>8. CASE Noise
  <2>1. replies # <<>> /\ replies' = Tail(replies) /\ requests' = requests
        /\ UNCHANGED <<fcVars, rxVars>>
    BY <1>8 DEF Noise
  <2>2. replies' = <<>> /\ requests = <<>> /\ state = "WAIT"
    BY <1>1, <2>1 DEF Stepwise, Alternate
  <2>3. UNCHANGED <<state, ackState, timeoutState, counter, nmea, nav, MsgOn>>
    BY <2>1 DEF fcVars, rxVars, MsgOn
  <2> QED BY <1>1, <2>1, <2>2, <2>3 DEF Stepwise, Alternate, Reached
<1>9. CASE Lose
  BY <1>9 DEF Lose, Clean
<1>10. CASE Restart
  <2>1. state' = "DETECT_BAUD" /\ requests' = <<>> /\ replies' = <<>>
    BY <1>10 DEF Restart
  <2> QED BY <2>1 DEF Stepwise, Alternate, Reached
<1>11. CASE (Quiet \/ Navigate) /\ UNCHANGED <<rxVars, replies>>
  BY <1>4, <1>11 DEF Quiet, Navigate
<1>12. CASE Tick \/ UNCHANGED vars
  BY <1>4, <1>12 DEF Tick, vars, fcVars
<1> QED BY <1>3, <1>5, <1>6, <1>7, <1>8, <1>9, <1>10, <1>11, <1>12 DEF Next, Update

LEMMA InitProgress == Init => Progress
  BY DEF Init, Progress, Stepwise, Alternate, Reached

\* Whatever the receiver's generation and settings, with any list of sentences,
\* and through refusals and restarts: it is taken for set up only when it sends
\* what the code reads and no NMEA, if no request or answer was lost or late.
THEOREM SetUpIsComplete == Spec => []SetUpWhenReceiving
<1>1. LinkInv /\ Progress => SetUpWhenReceiving
  BY DEF Progress, Clean, Done, Stepwise, Reached, SetUpWhenReceiving
<1>2. Spec => []Progress
  <2>1. Init => Progress
    BY InitProgress
  <2>2. IInv /\ Progress /\ [Next]_vars => Progress'
    BY ProgressStep DEF IInv
  <2> QED BY <2>1, <2>2, Invariance, PTL DEF Spec
<1>3. IInv => LinkInv
  BY DEF IInv
<1> QED BY <1>1, <1>2, <1>3, Invariance, PTL

-----------------------------------------------------------------------------
(* The course of a set-up in which nothing went wrong. *)

\* The rates that the search for the receiver's has left behind.
Passed == IF counter = 0 THEN {} ELSE {Target} \cup {Bauds[i] : i \in 1..(counter - 1)}

\* The search for the rate of a receiver that sends something.
Searching ==
  /\ state = "DETECT_BAUD"
  /\ nmea \cup nav # {}
  /\ baud = IF counter = 0 THEN Target ELSE Bauds[counter]
  /\ counter <= Len(Bauds)
  /\ rxBaud \notin Passed

GivenUp ==
  /\ state = "ERROR"
  /\ rxBaud \notin ToSet(Bauds) \cup {Target}
  /\ requests = <<>>

\* The rate is being changed: the receiver has it, or has the request.
Changing ==
  /\ state = "WAIT" /\ ackState = "DISABLE_NMEA" /\ timeoutState = "DISABLE_NMEA"
  /\ Alternate
  /\ baud = Target
  /\ requests # <<>> => Head(requests).ask = "BAUD"
  /\ requests = <<>> => rxBaud = Target
  /\ replies # <<>> => Head(replies).answer # "NAK"

SetupRequest == {r \in OwnRequest : r.ask # "BAUD"}
Readable(rate) == {r \in Reception : r.baud = rate}
Consent(rate) == {r \in Readable(rate) : r.answer # "NAK"}

\* A receiver that knows every request, and answers each.
Obliging ==
  /\ replies \in Seq(Consent(baud))
  /\ state = "WAIT" => requests # <<>> \/ replies # <<>>

\* An older one may refuse, or not answer, the question for L5 alone.
Reserved ==
  /\ Alternate
  /\ state = "WAIT" /\ timeoutState = "ERROR" =>
       /\ requests # <<>> \/ replies # <<>>
       /\ requests # <<>> => Head(requests).ask # "L5"
       /\ replies # <<>> => Head(replies).answer # "NAK"

\* The set-up, at a rate that both sides have.
Talking ==
  /\ state \notin {"DETECT_BAUD", "ERROR"}
  /\ state = "WAIT" => ackState # "ERROR" /\ timeoutState # "DISABLE_NMEA"
  /\ baud = rxBaud
  /\ requests \in Seq(SetupRequest) /\ replies \in Seq(Readable(baud))
  /\ generation = "modern" => Obliging
  /\ generation # "modern" => Reserved
  /\ state = "CONFIGURE_BAUD" \/ (state = "WAIT" /\ ackState = "CONFIGURE_BAUD") => Alternate

Course == trouble = {} => Searching \/ GivenUp \/ Changing \/ Talking

\* The sets of what may be on the line do not change with a step.
LEMMA LineSets ==
  ASSUME generation' = generation
  PROVE  /\ MsgOn' = MsgOn /\ OwnRequest' = OwnRequest /\ SetupRequest' = SetupRequest
         /\ \A rate : Readable(rate)' = Readable(rate) /\ Consent(rate)' = Consent(rate)
  BY DEF MsgOn, OwnRequest, SetupRequest, Readable, Consent, Reception, Reaction, Rates

\* A rate is left behind only after nothing could be read at it.
LEMMA SearchGoesOn ==
  ASSUME LinkInv, Searching, DetectBaud, trouble' = {}, UNCHANGED <<rxVars, replies>>
  PROVE  Searching' \/ GivenUp'
<1>1. rxBaud \notin Passed \cup {baud} /\ UNCHANGED <<rxBaud, nmea, nav>>
  BY DEF Searching, DetectBaud, Heard, rxVars
<1>2. counter \in Nat /\ Len(Bauds) \in Nat /\ DOMAIN Bauds = 1..Len(Bauds)
  BY Lists, GpsAssumption, LenProperties DEF LinkInv, LinkType
<1>3. \A i \in 1..counter : i \in 1..(counter - 1) \/ i = counter
  BY <1>2
<1>4. {Target} \cup {Bauds[i] : i \in 1..counter} \subseteq Passed \cup {baud}
  <2>1. CASE counter = 0
    BY <1>2, <2>1 DEF Searching
  <2>2. CASE counter # 0
    BY <1>3, <2>2 DEF Searching, Passed
  <2> QED BY <2>1, <2>2
<1>5. CASE counter < Len(Bauds)
  <2>1. baud' = Bauds[counter + 1] /\ counter' = counter + 1 /\ state' = "DETECT_BAUD"
    BY <1>5 DEF DetectBaud
  <2>2. counter' # 0 /\ counter' - 1 = counter /\ counter' <= Len(Bauds)
    BY <1>2, <1>5, <2>1
  <2>3. Passed' = {Target} \cup {Bauds[i] : i \in 1..counter}
    BY <2>2 DEF Passed
  <2> QED BY <1>1, <1>4, <2>1, <2>2, <2>3 DEF Searching
<1>6. CASE ~(counter < Len(Bauds))
  <2>1. state' = "ERROR" /\ requests' = <<>>
    BY <1>6 DEF DetectBaud, LinkInv, QuietSearch
  <2>2. counter = Len(Bauds)
    <3>1. counter <= Len(Bauds)
      BY DEF Searching
    <3>2. \A m, n \in Nat : m <= n /\ ~(m < n) => m = n
      OBVIOUS
    <3>3. counter \in Nat /\ Len(Bauds) \in Nat
      BY <1>2
    <3> QED BY <1>6, <3>1, <3>2, <3>3, Zenon
  <2>3. ToSet(Bauds) \cup {Target} \subseteq Passed \cup {baud}
    BY <1>2, <1>4, <2>2 DEF ToSet
  <2> QED BY <1>1, <2>1, <2>3 DEF GivenUp
<1> QED BY <1>5, <1>6

LEMMA SearchStep ==
  ASSUME LinkInv, Searching, [Next]_vars, trouble' = {}
  PROVE  Searching' \/ GivenUp' \/ Talking'
<1>1. state = "DETECT_BAUD" /\ requests = <<>> /\ replies = <<>>
  BY DEF Searching, LinkInv, QuietSearch
<1>2. CASE DetectBaud /\ UNCHANGED <<rxVars, replies>>
  BY <1>2, SearchGoesOn
<1>3. CASE Detected /\ UNCHANGED <<rxVars, replies>>
  <2>1. PICK r : r = [ask |-> "VERSION", what |-> {}]
    OBVIOUS
  <2>2. r \in SetupRequest
    BY <2>1, RequestType DEF SetupRequest
  <2>3. /\ state' = "WAIT" /\ ackState' = "CONFIGURE_BAUD" /\ timeoutState' = "ERROR"
        /\ baud' = rxBaud' /\ requests' = <<r>> /\ replies' = <<>>
        /\ generation' = generation
    BY <1>1, <1>3, <2>1 DEF Detected, ReadVersion, Send, SendElse, Write, Heard, rxVars
  <2>4. requests' \in Seq(SetupRequest)' /\ replies' \in Seq(Readable(baud))'
        /\ replies' \in Seq(Consent(baud))'
    BY <2>2, <2>3, LineSets
  <2>5. Head(requests') = r /\ Tail(requests') = <<>> /\ requests' # <<>> /\ r.ask # "L5"
    BY <2>1, <2>3
  <2>6. Alternate'
    BY <2>3, <2>5 DEF Alternate
  <2>7. Obliging' /\ Reserved'
    BY <2>3, <2>4, <2>5, <2>6 DEF Obliging, Reserved
  <2> QED BY <2>3, <2>4, <2>6, <2>7 DEF Talking
<1>4. CASE UNCHANGED <<state, baud, counter, nmea, nav, rxBaud>>
  BY <1>4 DEF Searching, Passed
<1>5. CASE Update /\ ~DetectBaud /\ ~Detected
  <2>1. Quiet /\ UNCHANGED rxVars
    BY <1>1, <1>5 DEF Update, ReadAnswer, Handle, Ask, HandleError, Expire, Navigate,
      ConfigureBaud, DisableNmea, EnableUbx, EnableNav5, EnableSbas, DetectGpsL5, ConfigureGnss,
      ConfigureRate
  <2> QED BY <1>4, <2>1 DEF Quiet, rxVars
<1>6. CASE Update /\ (DetectBaud \/ Detected)
  <2>1. UNCHANGED <<rxVars, replies>>
    BY <1>1, <1>6 DEF Update, ReadAnswer
  <2> QED BY <1>2, <1>3, <1>6, <2>1
<1>7. CASE Receiver \/ Noise \/ Lose \/ Restart
  BY <1>1, <1>7 DEF Receiver, Noise, Lose, Restart
<1>8. CASE Tick \/ UNCHANGED vars
  BY <1>4, <1>8 DEF Tick, vars, fcVars, rxVars
<1> QED BY <1>5, <1>6, <1>7, <1>8 DEF Next

\* What was given up stays unheard.
LEMMA GivenUpStep ==
  ASSUME LinkInv, GivenUp, [Next]_vars, trouble' = {}
  PROVE  GivenUp'
<1>1. CASE UNCHANGED <<state, rxBaud, requests>>
  BY <1>1 DEF GivenUp
<1>2. CASE Update
  <2>1. HandleError /\ UNCHANGED rxVars
    BY <1>2 DEF GivenUp, Update, ReadAnswer, HandleReceive, Handle, Ask, Expire, Navigate, Quiet,
      DetectBaud, Detected, ConfigureBaud, DisableNmea, EnableUbx, EnableNav5, EnableSbas,
      DetectGpsL5, ConfigureGnss, ConfigureRate
  <2> QED BY <1>1, <2>1 DEF HandleError, rxVars
<1>3. CASE Receiver \/ Lose \/ Restart
  BY <1>3 DEF GivenUp, Receiver, Lose, Restart
<1>4. CASE Noise \/ Tick \/ UNCHANGED vars
  BY <1>1, <1>4 DEF Noise, Tick, vars, fcVars, rxVars
<1> QED BY <1>2, <1>3, <1>4 DEF Next

\* The set-up goes on with nothing on the line.
LEMMA TalkAfresh ==
  ASSUME requests' = <<>>, replies' = <<>>, baud' = rxBaud',
         state' \notin {"WAIT", "DETECT_BAUD", "ERROR"}
  PROVE  Talking'
<1>1. requests' \in Seq(SetupRequest)' /\ replies' \in Seq(Readable(baud))'
      /\ replies' \in Seq(Consent(baud))'
  OBVIOUS
<1>2. Alternate' /\ Obliging' /\ Reserved'
  BY <1>1 DEF Alternate, Obliging, Reserved
<1> QED BY <1>1, <1>2 DEF Talking

LEMMA ChangeStep ==
  ASSUME LinkInv, Changing, [Next]_vars, trouble' = {}
  PROVE  Changing' \/ Talking'
<1>1. state = "WAIT" /\ ackState = "DISABLE_NMEA" /\ timeoutState = "DISABLE_NMEA"
      /\ baud = Target
  BY DEF Changing
<1>2. CASE UNCHANGED <<state, ackState, timeoutState, baud, rxBaud, requests, replies>>
  BY <1>2 DEF Changing, Alternate
<1>3. CASE ReadAnswer
  <2>1. /\ replies # <<>> /\ replies' = Tail(replies) /\ UNCHANGED rxBaud
        /\ HandleReceive(Head(replies).answer)
    BY <1>1, <1>3 DEF ReadAnswer, HandleError, Ask, rxVars, ConfigureBaud, DisableNmea, EnableUbx,
      EnableNav5, EnableSbas, DetectGpsL5, ConfigureGnss, ConfigureRate
  <2>2. requests = <<>> /\ replies' = <<>> /\ rxBaud = Target /\ Head(replies).answer # "NAK"
    BY <2>1 DEF Changing, Alternate
  <2>3. state' = "DISABLE_NMEA" /\ requests' = <<>> /\ baud' = baud
    BY <1>1, <2>1, <2>2 DEF HandleReceive, HandleAck, HandleNak, HandleResponse
  <2> QED BY <1>1, <2>1, <2>2, <2>3, TalkAfresh
<1>4. CASE (Handle \/ Detected \/ Quiet \/ Navigate) /\ UNCHANGED <<rxVars, replies>>
  <2>1. CASE Expire
    <3>1. requests = <<>> /\ replies = <<>>
      BY <2>1 DEF Expire
    <3>2. /\ state' = "DISABLE_NMEA" /\ requests' = <<>> /\ replies' = <<>>
          /\ baud' = Target /\ rxBaud' = Target
      BY <1>1, <1>4, <2>1, <3>1 DEF Expire, Changing, rxVars
    <3> QED BY <3>2, TalkAfresh
  <2>2. CASE Quiet \/ Navigate
    BY <1>2, <1>4, <2>2 DEF Quiet, Navigate, rxVars
  <2>3. ~(Detected \/ Ask \/ DetectBaud \/ HandleError)
    BY <1>1 DEF Detected, DetectBaud, HandleError, Ask, ConfigureBaud, DisableNmea, EnableUbx,
      EnableNav5, EnableSbas, DetectGpsL5, ConfigureGnss, ConfigureRate
  <2> QED BY <1>4, <2>1, <2>2, <2>3 DEF Handle
<1>5. CASE Receiver
  <2>1. /\ requests # <<>> /\ requests' = Tail(requests) /\ UNCHANGED fcVars
        /\ Head(requests).ask = "BAUD"
    BY <1>5 DEF Receiver, Changing
  <2>2. requests' = <<>> /\ replies = <<>>
    BY <2>1 DEF Changing, Alternate
  <2>3. Obey(Head(requests))
    BY <1>5, <2>1 DEF Receiver, Reply
  <2>4. rxBaud' = Target /\ \E rate \in {rxBaud, rxBaud'} : Answer(<<"ACK">>, rate)
    BY <2>1, <2>3 DEF Obey
  <2>5. PICK rate : Answer(<<"ACK">>, rate)
    BY <2>4
  <2>6. replies' = <<[answer |-> "ACK", baud |-> rate]>>
    BY <2>2, <2>5, SingleAnswer
  <2>7. Head(replies').answer = "ACK" /\ Tail(replies') = <<>>
    BY <2>6
  <2> QED BY <1>1, <2>1, <2>2, <2>4, <2>7 DEF Changing, Alternate, fcVars
<1>6. CASE Noise
  <2>1. replies # <<>> /\ replies' = Tail(replies) /\ UNCHANGED <<fcVars, rxVars, requests>>
    BY <1>6 DEF Noise
  <2>2. replies' = <<>> /\ requests = <<>>
    BY <2>1 DEF Changing, Alternate
  <2> QED BY <2>1, <2>2 DEF Changing, Alternate, fcVars, rxVars
<1>7. CASE Lose \/ Restart
  BY <1>7 DEF Lose, Restart
<1>8. CASE Tick \/ UNCHANGED vars
  BY <1>2, <1>8 DEF Tick, vars, fcVars, rxVars
<1> QED BY <1>3, <1>4, <1>5, <1>6, <1>7, <1>8 DEF Next, Update

\* An answer is something to read.
LEMMA AnswerAdds ==
  ASSUME NEW answers \in Seq(Reaction), answers # <<>>, NEW rate, Answer(answers, rate),
         NEW S, replies \in Seq(S)
  PROVE  replies' # <<>>
<1> DEFINE new == [i \in DOMAIN answers |-> [answer |-> answers[i], baud |-> rate]]
<1>1. DOMAIN answers = 1..Len(answers) /\ Len(answers) \in Nat \ {0}
  BY EmptySeq, LenProperties
<1>2. PICK T : \A i \in 1..Len(answers) : [answer |-> answers[i], baud |-> rate] \in T
  <2>1. \A i \in 1..Len(answers) : [answer |-> answers[i], baud |-> rate] \in
          {[answer |-> answers[j], baud |-> rate] : j \in 1..Len(answers)}
    OBVIOUS
  <2> QED BY <2>1
<1>3. new \in [1..Len(answers) -> T] /\ DOMAIN new = 1..Len(answers)
  BY <1>1, <1>2
<1>4. new \in Seq(T) /\ Len(new) = Len(answers)
  BY <1>1, <1>3, LenProperties
<1>5. replies' = replies \o new
  BY DEF Answer
<1> HIDE DEF new
<1>6. replies \in Seq(S \cup T) /\ new \in Seq(S \cup T)
  BY <1>4, SeqMonotonic
<1>7. Len(replies') = Len(replies) + Len(answers) /\ Len(replies) \in Nat
  <2>1. Len(replies \o new) = Len(replies) + Len(new)
    BY <1>6, ConcatProperties
  <2>2. Len(replies) \in Nat
    BY <1>6, LenProperties
  <2> QED BY <1>4, <1>5, <2>1, <2>2
<1>8. Len(replies') # 0
  BY <1>1, <1>7
<1> QED BY <1>8

\* One more question, from a state that the set-up sends in.
LEMMA SendTalking ==
  ASSUME LinkInv, Talking, state # "WAIT",
         NEW ask, ask # "BAUD", NEW what, NEW ack, NEW timeout \in {"ERROR", "CONFIGURE_GNSS"},
         NEW r \in OwnRequest, r = [ask |-> ask, what |-> what],
         SendElse(ask, what, ack, timeout), UNCHANGED <<rxVars, baud>>,
         ack \notin {"ERROR", "CONFIGURE_BAUD"}, ask = "L5" => timeout # "ERROR",
         \/ replies' = replies
         \/ replies # <<>> /\ replies' = Tail(replies)
  PROVE  Talking'
<1>1. /\ state' = "WAIT" /\ ackState' = ack /\ timeoutState' = timeout
      /\ requests' = Append(requests, r)
      /\ UNCHANGED <<generation, rxBaud, baud>> /\ baud = rxBaud
  BY DEF SendElse, Write, Talking, rxVars
<1>2. requests \in Seq(SetupRequest) /\ replies \in Seq(Readable(baud)) /\ r \in SetupRequest
  BY DEF Talking, SetupRequest
<1>3. requests' \in Seq(SetupRequest) /\ requests' # <<>>
  BY <1>1, <1>2, AppendProperties
<1>4. ASSUME NEW S, replies \in Seq(S) PROVE replies' \in Seq(S)
  BY <1>4, HeadTailProperties
<1>5. replies' \in Seq(Readable(baud))
  BY <1>2, <1>4
<1>6. generation = "modern" => Obliging'
  <2> SUFFICES ASSUME generation = "modern" PROVE Obliging'
    OBVIOUS
  <2>1. replies' \in Seq(Consent(baud))
    BY <1>4 DEF Talking, Obliging
  <2>2. replies' \in Seq(Consent(baud))'
    BY <1>1, <2>1, LineSets
  <2> QED BY <1>3, <2>2 DEF Obliging
<1>7. generation # "modern" => Reserved'
  <2> SUFFICES ASSUME generation # "modern" PROVE Reserved'
    OBVIOUS
  <2>1. requests = <<>> /\ replies = <<>>
    BY DEF Talking, Reserved, Alternate
  <2>2. replies' = <<>> /\ requests' = <<r>>
    BY <1>1, <2>1
  <2>3. Head(requests') = r /\ Tail(requests') = <<>>
    BY <2>2
  <2>4. Head(requests').ask = "L5" => timeout # "ERROR"
    BY <2>3
  <2> QED BY <1>1, <1>3, <2>2, <2>3, <2>4 DEF Reserved, Alternate
<1>8. requests' \in Seq(SetupRequest)' /\ replies' \in Seq(Readable(baud))'
  BY <1>1, <1>3, <1>5, LineSets
<1> QED BY <1>1, <1>6, <1>7, <1>8 DEF Talking

LEMMA SendNextTalking ==
  ASSUME LinkInv, Talking,
         NEW ask \in {"OFF", "ON"}, NEW list, NEW next \in {"ENABLE_UBX", "ENABLE_NAV5"},
         SendNext(ask, list, next), NEW what, what = {list[counter + 1]},
         [ask |-> ask, what |-> what] \in OwnRequest,
         state \in {"DISABLE_NMEA", "ENABLE_UBX"}, UNCHANGED rxVars,
         \/ replies' = replies
         \/ replies # <<>> /\ replies' = Tail(replies)
  PROVE  Talking'
<1>1. PICK ack \in {state, next} : SendElse(ask, what, ack, "ERROR") /\ UNCHANGED baud
  BY DEF SendNext, Send
<1>2. ack \notin {"ERROR", "CONFIGURE_BAUD"} /\ state # "WAIT" /\ ask \notin {"BAUD", "L5"}
  OBVIOUS
<1>3. PICK r \in OwnRequest : r = [ask |-> ask, what |-> what]
  OBVIOUS
<1> QED BY <1>1, <1>2, <1>3, SendTalking

LEMMA GoTalking ==
  ASSUME LinkInv, Talking, state # "WAIT", UNCHANGED rxVars,
         NEW next \in {"CONFIGURE_NAV_RATE", "DETECT_GPS_L5"}, Go(next),
         \/ replies' = replies
         \/ replies # <<>> /\ replies' = Tail(replies)
  PROVE  Talking'
<1>1. state' = next /\ UNCHANGED <<requests, baud, generation, rxBaud>>
  BY DEF Go, rxVars
<1>2. ASSUME NEW S, replies \in Seq(S) PROVE replies' \in Seq(S)
  BY <1>2, HeadTailProperties
<1>3. replies' \in Seq(Readable(baud)) /\ requests' \in Seq(SetupRequest)
  BY <1>1, <1>2 DEF Talking
<1>4. generation = "modern" => Obliging'
  <2> SUFFICES ASSUME generation = "modern" PROVE Obliging'
    OBVIOUS
  <2>1. replies' \in Seq(Consent(baud))
    BY <1>2 DEF Talking, Obliging
  <2>2. replies' \in Seq(Consent(baud))'
    BY <1>1, <2>1, LineSets
  <2> QED BY <1>1, <2>2 DEF Obliging
<1>5. generation # "modern" => Reserved'
  BY <1>1 DEF Talking, Reserved, Alternate
<1>6. requests' \in Seq(SetupRequest)' /\ replies' \in Seq(Readable(baud))'
  BY <1>1, <1>3, LineSets
<1> QED BY <1>1, <1>4, <1>5, <1>6 DEF Talking

LEMMA AskTalking ==
  ASSUME LinkInv, Talking, Ask, UNCHANGED rxVars,
         \/ replies' = replies
         \/ replies # <<>> /\ replies' = Tail(replies)
  PROVE  Changing' \/ Talking'
<1>1. CASE ConfigureBaud
  <2>1. state = "CONFIGURE_BAUD" /\ requests = <<>> /\ replies = <<>>
    BY <1>1 DEF ConfigureBaud, Talking, Alternate
  <2>2. PICK r : r = [ask |-> "BAUD", what |-> {}]
    OBVIOUS
  <2>3. /\ state' = "WAIT" /\ ackState' = "DISABLE_NMEA" /\ timeoutState' = "DISABLE_NMEA"
        /\ baud' = Target /\ requests' = <<r>> /\ replies' = <<>>
    BY <1>1, <2>1, <2>2 DEF ConfigureBaud, SendElse, Write, Talking
  <2>4. Head(requests') = r /\ Tail(requests') = <<>> /\ requests' # <<>> /\ r.ask = "BAUD"
    BY <2>2, <2>3
  <2> QED BY <2>3, <2>4 DEF Changing, Alternate
<1>2. CASE DisableNmea
  <2>1. state = "DISABLE_NMEA" /\ counter < Len(NmeaMsgOff) /\ counter \in Nat
    BY <1>2 DEF DisableNmea, LinkInv, LinkType, Prospects, CounterIs
  <2>2. CASE generation = "modern"
    <3>1. PICK what : what = ToSet(NmeaMsgOff)
      OBVIOUS
    <3>2. SendElse("OFF", what, "ENABLE_UBX", "ERROR") /\ baud' = baud
      BY <1>2, <2>2, <3>1 DEF DisableNmea, Send
    <3>3. PICK r \in OwnRequest : r = [ask |-> "OFF", what |-> what]
      BY <3>1, RequestType
    <3> QED BY <2>1, <3>2, <3>3, SendTalking
  <2>3. CASE generation # "modern"
    <3>1. PICK list, what : list = NmeaMsgOff /\ what = {list[counter + 1]}
      OBVIOUS
    <3>2. SendNext("OFF", list, "ENABLE_UBX")
      BY <1>2, <2>3, <3>1 DEF DisableNmea
    <3>3. [ask |-> "OFF", what |-> what] \in OwnRequest
      <4>1. counter + 1 \in 1..Len(NmeaMsgOff)
        BY <2>1, Lists
      <4> QED BY <3>1, <4>1, ListElement, RequestType
    <3> HIDE <1>2
    <3> QED BY <2>1, <3>1, <3>2, <3>3, SendNextTalking
  <2> QED BY <2>2, <2>3
<1>3. CASE EnableUbx
  <2>1. state = "ENABLE_UBX" /\ counter < Len(MsgOn) /\ counter \in Nat
    BY <1>3 DEF EnableUbx, LinkInv, LinkType, Prospects, CounterIs
  <2>2. CASE generation = "modern"
    <3>1. PICK what : what = ToSet(UbxMsgOn)
      OBVIOUS
    <3>2. SendElse("ON", what, "ENABLE_NAV5", "ERROR") /\ baud' = baud
      BY <1>3, <2>2, <3>1 DEF EnableUbx, Send
    <3>3. PICK r \in OwnRequest : r = [ask |-> "ON", what |-> what]
      <4>1. what \in SUBSET ToSet(MsgOn)
        BY <2>2, <3>1 DEF MsgOn
      <4> QED BY <4>1, RequestType
    <3> QED BY <2>1, <3>2, <3>3, SendTalking
  <2>3. CASE generation # "modern"
    <3>1. PICK list, what : list = MsgOn /\ what = {list[counter + 1]}
      OBVIOUS
    <3>2. SendNext("ON", list, "ENABLE_NAV5")
      BY <1>3, <2>3, <3>1 DEF EnableUbx
    <3>3. [ask |-> "ON", what |-> what] \in OwnRequest
      <4>1. counter + 1 \in 1..Len(MsgOn)
        BY <2>1, Lists
      <4> QED BY <3>1, <4>1, ListElement, RequestType
    <3> QED BY <2>1, <3>1, <3>2, <3>3, SendNextTalking
  <2> QED BY <2>2, <2>3
<1>4. ASSUME NEW ask \in {"NAV5", "SBAS", "L5", "GNSS", "RATE"}, NEW ack, NEW timeout,
             SendElse(ask, {}, ack, timeout), UNCHANGED baud, state # "WAIT",
             timeout \in {"ERROR", "CONFIGURE_GNSS"}, ack \notin {"ERROR", "CONFIGURE_BAUD"},
             ask = "L5" => timeout # "ERROR"
      PROVE  Talking'
  <2>1. PICK r, what : r \in OwnRequest /\ r = [ask |-> ask, what |-> what] /\ what = {}
    BY RequestType
  <2> QED BY <1>4, <2>1, SendTalking
<1>5. CASE EnableNav5
  BY <1>4, <1>5 DEF EnableNav5, Send
<1>6. CASE EnableSbas
  <2>1. PICK next \in {"CONFIGURE_NAV_RATE", "DETECT_GPS_L5"} :
          (Go(next) \/ Send("SBAS", {}, next)) /\ state = "ENABLE_SBAS"
    BY <1>6 DEF EnableSbas
  <2>2. CASE Go(next)
    BY <2>1, <2>2, GoTalking
  <2>3. CASE Send("SBAS", {}, next)
    BY <1>4, <2>1, <2>3 DEF Send
  <2> QED BY <2>1, <2>2, <2>3
<1>7. CASE DetectGpsL5
  <2>1. CASE generation = "ubx6"
    BY <1>7, <2>1, GoTalking DEF DetectGpsL5
  <2>2. CASE generation # "ubx6"
    BY <1>4, <1>7, <2>2 DEF DetectGpsL5
  <2> QED BY <2>1, <2>2
<1>8. CASE ConfigureGnss
  <2>1. CASE generation = "ubx6"
    BY <1>8, <2>1, GoTalking DEF ConfigureGnss
  <2>2. CASE generation # "ubx6"
    BY <1>4, <1>8, <2>2 DEF ConfigureGnss, Send
  <2> QED BY <2>1, <2>2
<1>9. CASE ConfigureRate
  BY <1>4, <1>9 DEF ConfigureRate, Send
<1> QED BY <1>1, <1>2, <1>3, <1>5, <1>6, <1>7, <1>8, <1>9 DEF Ask

\* An answer is taken, or noticed too late in a state that sends.
LEMMA ReadTalking ==
  ASSUME LinkInv, Talking, ReadAnswer
  PROVE  Changing' \/ Talking'
<1>1. replies # <<>> /\ replies' = Tail(replies) /\ UNCHANGED rxVars
  BY DEF ReadAnswer
<1>2. CASE Ask
  BY <1>1, <1>2, AskTalking
<1>3. CASE HandleReceive(Head(replies).answer)
  <2>1. /\ state \in {"WAIT", "RECEIVE"} /\ UNCHANGED <<ackState, timeoutState, baud, requests>>
        /\ state' = ackState \/ (state' = timeoutState /\ Head(replies).answer = "NAK")
    BY <1>3 DEF HandleReceive, HandleAck, HandleNak, HandleResponse
  <2>2. state' \notin {"WAIT", "DETECT_BAUD"}
    BY <2>1 DEF LinkInv, Prospects
  <2>3. requests' \in Seq(SetupRequest) /\ replies' \in Seq(Readable(baud)) /\ baud' = rxBaud'
    BY <1>1, <2>1, HeadTailProperties DEF Talking, rxVars
  <2>4. generation' = generation
    BY <1>1 DEF rxVars
  <2>5. requests' \in Seq(SetupRequest)' /\ replies' \in Seq(Readable(baud))'
    BY <2>1, <2>3, <2>4, LineSets
  <2>6. generation = "modern" => Obliging' /\ Head(replies).answer # "NAK"
    <3> SUFFICES ASSUME generation = "modern"
                 PROVE  Obliging' /\ Head(replies).answer # "NAK"
      OBVIOUS
    <3>1. replies \in Seq(Consent(baud))
      BY DEF Talking, Obliging
    <3>2. replies' \in Seq(Consent(baud)) /\ Head(replies) \in Consent(baud)
      BY <1>1, <3>1, HeadTailProperties
    <3>3. replies' \in Seq(Consent(baud))'
      BY <2>1, <2>4, <3>2, LineSets
    <3> QED BY <2>2, <3>2, <3>3 DEF Obliging, Consent
  <2>7. Alternate => Alternate'
    BY <1>1, <2>1 DEF Alternate
  <2>8. generation # "modern" => Reserved'
    BY <2>2, <2>7 DEF Talking, Reserved
  <2>9. state' # "ERROR"
    <3>1. CASE state = "WAIT"
      <4>1. CASE state' = ackState
        BY <3>1, <4>1 DEF Talking
      <4>2. CASE state' = timeoutState /\ Head(replies).answer = "NAK"
        <5>1. generation # "modern" /\ timeoutState # "ERROR"
          BY <1>1, <2>6, <3>1, <4>2 DEF Talking, Reserved
        <5> QED BY <4>2, <5>1
      <4> QED BY <2>1, <4>1, <4>2
    <3>2. CASE state = "RECEIVE"
      <4>1. generation = "modern"
        BY <1>1, <3>2 DEF Talking, Reserved, Alternate
      <4>2. state' = ackState /\ ackState = "RECEIVE"
        BY <2>1, <2>6, <3>2, <4>1 DEF LinkInv, Prospects
      <4> QED BY <4>2
    <3> QED BY <2>1, <3>1, <3>2
  <2>10. state' = "CONFIGURE_BAUD" => Alternate'
    <3> SUFFICES ASSUME state' = "CONFIGURE_BAUD" PROVE Alternate
      BY <2>7
    <3>1. state' = ackState /\ state = "WAIT"
      BY <2>1 DEF LinkInv, Prospects
    <3> QED BY <3>1 DEF Talking
  <2> QED BY <2>2, <2>3, <2>4, <2>5, <2>6, <2>8, <2>9, <2>10 DEF Talking
<1>4. ~HandleError
  BY DEF Talking, HandleError
<1> QED BY <1>2, <1>3, <1>4 DEF ReadAnswer

\* The receiver hears each request, at the rate of the port.
LEMMA ReceiverTalking ==
  ASSUME LinkInv, Talking, Receiver, trouble' = {}
  PROVE  Talking'
<1>1. /\ requests # <<>> /\ requests' = Tail(requests)
      /\ UNCHANGED <<state, ackState, timeoutState, counter, baud, generation>>
  BY DEF Receiver, fcVars
<1>2. PICK r \in SetupRequest : r = Head(requests)
  BY <1>1, HeadTailProperties DEF Talking
<1>3. PICK answers \in {<<"ACK">>, <<"VER">>, <<"L5", "ACK">>, <<"NAK">>, <<>>} :
        /\ answers = <<>> => replies' = replies
        /\ answers # <<>> => Answer(answers, rxBaud)
        /\ rxBaud' = rxBaud
        /\ answers = <<"L5", "ACK">> => generation = "modern" /\ r.ask = "L5"
        /\ answers \in {<<>>, <<"NAK">>} => generation # "modern" /\ r.ask = "L5"
  <2>1. CASE Obey(r) /\ r.ask \notin {"VERSION", "L5"}
    BY <1>2, <2>1 DEF Obey, SetupRequest
  <2>2. CASE Reply(r) /\ UNCHANGED rxBaud
    BY <2>2 DEF Reply
  <2> QED BY <1>2, <2>1, <2>2 DEF Receiver
<1>4. requests' \in Seq(SetupRequest)
  BY <1>1, HeadTailProperties DEF Talking
<1>5. rxBaud = baud /\ baud \in Rates
  BY DEF Talking, LinkInv, LinkType
<1>6. answers \in Seq(Reaction)
  <2>1. \A a \in Reaction : <<a>> \in Seq(Reaction)
    OBVIOUS
  <2>2. \A a, b \in Reaction : <<a, b>> \in Seq(Reaction)
    OBVIOUS
  <2>3. <<>> \in Seq(Reaction)
    OBVIOUS
  <2> QED BY <1>3, <2>1, <2>2, <2>3 DEF Reaction
<1>7. replies' \in Seq(Readable(baud))
  <2>1. replies \in Seq(Readable(baud))
    BY DEF Talking
  <2>2. \A i \in 1..Len(answers) : [answer |-> answers[i], baud |-> rxBaud] \in Readable(baud)
    BY <1>3, <1>5 DEF Readable, Reception, Reaction
  <2> QED BY <1>3, <1>6, <2>1, <2>2, AnswerType
<1>8. generation = "modern" => Obliging'
  <2> SUFFICES ASSUME generation = "modern" PROVE Obliging'
    OBVIOUS
  <2>1. replies \in Seq(Consent(baud)) /\ Answer(answers, rxBaud)
        /\ answers \in {<<"ACK">>, <<"VER">>, <<"L5", "ACK">>}
    BY <1>3 DEF Talking, Obliging
  <2>2. \A i \in 1..Len(answers) : [answer |-> answers[i], baud |-> rxBaud] \in Consent(baud)
    BY <1>5, <2>1 DEF Consent, Readable, Reception, Reaction
  <2>3. replies' \in Seq(Consent(baud))
    BY <1>6, <2>1, <2>2, AnswerType
  <2>4. replies' # <<>>
    BY <1>6, <2>1, AnswerAdds
  <2>5. replies' \in Seq(Consent(baud))'
    BY <1>1, <2>3, LineSets
  <2> QED BY <2>4, <2>5 DEF Obliging
<1>9. ASSUME Alternate, answers # <<"L5", "ACK">>
      PROVE  /\ Alternate' /\ state = "WAIT"
             /\ answers # <<>> => replies' # <<>> /\ Head(replies').answer = answers[1]
  <2>1. state = "WAIT" /\ replies = <<>> /\ requests' = <<>>
    BY <1>1, <1>9 DEF Alternate
  <2>2. CASE answers = <<>>
    BY <1>1, <1>3, <2>1, <2>2 DEF Alternate
  <2>3. CASE answers # <<>>
    <3>1. PICK a \in Reaction : answers = <<a>>
      BY <1>3, <1>9, <2>3 DEF Reaction
    <3>2. replies' = <<[answer |-> a, baud |-> rxBaud]>>
      BY <1>3, <2>1, <2>3, <3>1, SingleAnswer
    <3>3. Head(replies').answer = a /\ Tail(replies') = <<>> /\ replies' # <<>>
      BY <3>2
    <3> QED BY <1>1, <2>1, <3>1, <3>3 DEF Alternate
  <2> QED BY <2>2, <2>3
<1>10. generation # "modern" => Reserved'
  <2> SUFFICES ASSUME generation # "modern" PROVE Reserved'
    OBVIOUS
  <2>1. Alternate /\ answers # <<"L5", "ACK">>
    BY <1>3 DEF Talking, Reserved
  <2>2. requests' = <<>>
    BY <1>1, <2>1 DEF Alternate
  <2>3. timeoutState = "ERROR" => r.ask # "L5"
    BY <1>1, <1>2, <1>9, <2>1 DEF Talking, Reserved
  <2>4. timeoutState = "ERROR" => answers # <<>> /\ answers[1] # "NAK"
    BY <1>3, <2>3
  <2> QED BY <1>1, <1>9, <2>1, <2>2, <2>4 DEF Reserved
<1>11. state = "CONFIGURE_BAUD" \/ (state = "WAIT" /\ ackState = "CONFIGURE_BAUD") => Alternate'
  <2> SUFFICES ASSUME state = "CONFIGURE_BAUD" \/ (state = "WAIT" /\ ackState = "CONFIGURE_BAUD")
               PROVE  Alternate'
    OBVIOUS
  <2>1. Alternate
    BY DEF Talking
  <2>2. state = "WAIT" /\ ackState = "CONFIGURE_BAUD"
    BY <1>1, <2>1 DEF Alternate
  <2>3. r \in VersionRequest
    BY <1>1, <1>2, <2>2, HeadTailProperties DEF LinkInv, QuietSearch
  <2>4. answers # <<"L5", "ACK">>
    BY <1>3, <2>3 DEF VersionRequest
  <2> QED BY <1>9, <2>1, <2>4
<1>12. requests' \in Seq(SetupRequest)' /\ replies' \in Seq(Readable(baud))'
  BY <1>1, <1>4, <1>7, LineSets
<1> QED BY <1>1, <1>3, <1>8, <1>10, <1>11, <1>12 DEF Talking

LEMMA TalkStep ==
  ASSUME LinkInv, Talking, [Next]_vars, trouble' = {}
  PROVE  Changing' \/ Talking'
<1>1. CASE ReadAnswer
  BY <1>1, ReadTalking
<1>2. CASE UNCHANGED <<state, ackState, timeoutState, baud, requests, replies, rxVars>>
  <2>1. UNCHANGED <<generation, rxBaud>>
    BY <1>2 DEF rxVars
  <2>2. requests' \in Seq(SetupRequest)' /\ replies' \in Seq(Readable(baud))'
        /\ (replies \in Seq(Consent(baud)) => replies' \in Seq(Consent(baud))')
    BY <1>2, <2>1, LineSets DEF Talking
  <2> QED BY <1>2, <2>1, <2>2 DEF Talking, Obliging, Reserved, Alternate
<1>3. CASE Handle /\ UNCHANGED <<rxVars, replies>>
  <2>1. CASE Ask
    BY <1>3, <2>1, AskTalking
  <2>2. CASE Expire
    <3>1. state = "WAIT" /\ requests = <<>> /\ replies = <<>>
      BY <2>2 DEF Expire
    <3>2. timeoutState = "CONFIGURE_GNSS"
      BY <3>1 DEF Talking, Obliging, Reserved, LinkInv, Prospects
    <3>3. /\ state' = "CONFIGURE_GNSS" /\ requests' = <<>> /\ replies' = <<>>
          /\ baud' = rxBaud'
      BY <1>3, <2>2, <3>1, <3>2 DEF Expire, Talking, rxVars
    <3> QED BY <3>3, TalkAfresh
  <2>3. ~DetectBaud /\ ~HandleError
    BY DEF Talking, DetectBaud, HandleError
  <2> QED BY <1>3, <2>1, <2>2, <2>3 DEF Handle
<1>4. CASE (Quiet \/ Navigate) /\ UNCHANGED <<rxVars, replies>>
  BY <1>2, <1>4 DEF Quiet, Navigate
<1>5. CASE Detected
  BY <1>5 DEF Talking, Detected
<1>6. CASE Receiver
  BY <1>6, ReceiverTalking
<1>7. CASE Noise
  <2>1. Head(replies) \in Readable(baud)
    BY <1>7, HeadTailProperties DEF Noise, Talking
  <2> QED BY <1>7, <2>1 DEF Noise, Readable
<1>8. CASE Lose \/ Restart
  BY <1>8 DEF Lose, Restart
<1>9. CASE Tick \/ UNCHANGED vars
  BY <1>2, <1>9 DEF Tick, vars, fcVars
<1> QED BY <1>1, <1>3, <1>4, <1>5, <1>6, <1>7, <1>8, <1>9 DEF Next, Update

LEMMA CourseStep == LinkInv /\ Course /\ [Next]_vars => Course'
<1> SUFFICES ASSUME LinkInv, Course, [Next]_vars, trouble' = {}
             PROVE  Searching' \/ GivenUp' \/ Changing' \/ Talking'
  BY DEF Course
<1>1. trouble = {}
  BY Settled
<1> QED BY <1>1, SearchStep, GivenUpStep, ChangeStep, TalkStep DEF Course

\* A receiver sends something, whether it was ever set up or not.
LEMMA InitCourse == Init => Course
<1> SUFFICES ASSUME Init PROVE Searching
  BY DEF Course
<1>1. ToSet(NmeaMsgOff) # {} /\ ToSet(MsgOn) # {} /\ 0 <= Len(Bauds)
  BY Lists, ListElement
<1> QED BY <1>1 DEF Init, Searching, Passed

\* The code gives a receiver up for a cause only: with any list of rates, any
\* target rate and any sentences, one of the rates sought and answers in time
\* lead each generation through the set-up.
THEOREM ErrorNeedsCause == Spec => []ErrorHasCause
<1>1. Course => ErrorHasCause
  BY DEF Course, Searching, GivenUp, Changing, Talking, ErrorHasCause
<1>2. Spec => []Course
  <2>1. Init => Course
    BY InitCourse
  <2>2. IInv /\ Course /\ [Next]_vars => Course'
    BY CourseStep DEF IInv
  <2> QED BY <2>1, <2>2, Invariance, PTL DEF Spec
<1> QED BY <1>1, <1>2, PTL

-----------------------------------------------------------------------------
(* The set-up goes one way. *)

\* Where a state is in the course of the set-up; WAIT has the place of what its
\* acknowledgement leads to.
Place(next) ==
  CASE next = "DETECT_BAUD" -> 0
    [] next = "CONFIGURE_BAUD" -> 1
    [] next = "DISABLE_NMEA" -> 2
    [] next = "ENABLE_UBX" -> 3
    [] next = "ENABLE_NAV5" -> 4
    [] next = "ENABLE_SBAS" -> 5
    [] next = "DETECT_GPS_L5" -> 6
    [] next = "CONFIGURE_GNSS" -> 7
    [] next = "CONFIGURE_NAV_RATE" -> 8
    [] next = "RECEIVE" -> 9
    [] next = "ERROR" -> 10

Here == IF state = "WAIT" THEN Place(ackState) ELSE Place(state)

\* A timeout does not lead back behind the acknowledgement it gives up.
TimeoutGoesOn == state = "WAIT" => Place(ackState) <= Place(timeoutState)

\* Except by a restart the set-up is never taken back, by no message and no
\* deadline, and so asks nothing again once it is past it: what is left is finite.
NeverGoesBack == [][Restart \/ Here <= Here']_vars

LEMMA Places == \A next \in State \ {"WAIT"} : Place(next) \in 0..10
BY DEF State, Place

LEMMA HereIsPlace == LinkInv => Here \in 0..10
<1>1. ASSUME LinkInv
      PROVE  \/ state \in State \ {"WAIT"}
             \/ state = "WAIT" /\ ackState \in State \ {"WAIT"}
  BY <1>1 DEF LinkInv, LinkType, Prospects
<1> QED BY <1>1, Places DEF Here

\* A state that sends goes on, or waits for an answer that does.
LEMMA AskGoesOn ==
  ASSUME LinkInv, Ask
  PROVE  Here <= Here' /\ TimeoutGoesOn'
<1>1. CASE ConfigureBaud
  BY <1>1 DEF ConfigureBaud, SendElse, Here, TimeoutGoesOn, Place
<1>2. CASE DisableNmea
  <2>1. state = "DISABLE_NMEA"
    BY <1>2 DEF DisableNmea
  <2>2. state' = "WAIT" /\ timeoutState' = "ERROR" /\ ackState' \in {"DISABLE_NMEA", "ENABLE_UBX"}
    BY <1>2, <2>1 DEF DisableNmea, SendNext, Send, SendElse
  <2>3. CASE ackState' = "DISABLE_NMEA"
    BY <2>1, <2>2, <2>3 DEF Here, TimeoutGoesOn, Place
  <2>4. CASE ackState' = "ENABLE_UBX"
    BY <2>1, <2>2, <2>4 DEF Here, TimeoutGoesOn, Place
  <2> QED BY <2>2, <2>3, <2>4
<1>3. CASE EnableUbx
  <2>1. state = "ENABLE_UBX"
    BY <1>3 DEF EnableUbx
  <2>2. state' = "WAIT" /\ timeoutState' = "ERROR" /\ ackState' \in {"ENABLE_UBX", "ENABLE_NAV5"}
    BY <1>3, <2>1 DEF EnableUbx, SendNext, Send, SendElse
  <2>3. CASE ackState' = "ENABLE_UBX"
    BY <2>1, <2>2, <2>3 DEF Here, TimeoutGoesOn, Place
  <2>4. CASE ackState' = "ENABLE_NAV5"
    BY <2>1, <2>2, <2>4 DEF Here, TimeoutGoesOn, Place
  <2> QED BY <2>2, <2>3, <2>4
<1>4. CASE EnableNav5
  BY <1>4 DEF EnableNav5, Send, SendElse, Here, TimeoutGoesOn, Place
<1>5. CASE EnableSbas
  <2>1. state = "ENABLE_SBAS"
    BY <1>5 DEF EnableSbas
  <2> DEFINE next == IF generation = "ubx6" THEN "CONFIGURE_NAV_RATE" ELSE "DETECT_GPS_L5"
  <2>2. next \in {"CONFIGURE_NAV_RATE", "DETECT_GPS_L5"}
    OBVIOUS
  <2>3. \/ state' = next
        \/ state' = "WAIT" /\ ackState' = next /\ timeoutState' = "ERROR"
    BY <1>5 DEF EnableSbas, Go, Send, SendElse
  <2> HIDE DEF next
  <2> QED BY <2>1, <2>2, <2>3 DEF Here, TimeoutGoesOn, Place
<1>6. CASE DetectGpsL5
  BY <1>6 DEF DetectGpsL5, Go, SendElse, Here, TimeoutGoesOn, Place
<1>7. CASE ConfigureGnss
  BY <1>7 DEF ConfigureGnss, Go, Send, SendElse, Here, TimeoutGoesOn, Place
<1>8. CASE ConfigureRate
  BY <1>8 DEF ConfigureRate, Send, SendElse, Here, TimeoutGoesOn, Place
<1> QED BY <1>1, <1>2, <1>3, <1>4, <1>5, <1>6, <1>7, <1>8 DEF Ask

\* So does an answer, even one that comes late or to another request.
LEMMA ReceiveGoesOn ==
  ASSUME LinkInv, TimeoutGoesOn, NEW answer, HandleReceive(answer)
  PROVE  Here <= Here' /\ TimeoutGoesOn'
<1>1. state \in {"WAIT", "RECEIVE"} /\ state' \in {ackState, timeoutState}
      /\ UNCHANGED <<ackState, timeoutState>>
  BY DEF HandleReceive, HandleAck, HandleNak, HandleResponse
<1>2. CASE state = "WAIT"
  <2>1. /\ ackState # "WAIT" /\ timeoutState # "WAIT"
        /\ Place(ackState) \in 0..10 /\ Place(timeoutState) \in 0..10
    BY <1>2, Places DEF LinkInv, LinkType, Prospects
  <2>2. Here = Place(ackState) /\ Here' = Place(state') /\ state' # "WAIT"
    BY <1>1, <1>2, <2>1 DEF Here
  <2>3. Here' \in {Place(ackState), Place(timeoutState)}
    BY <1>1, <2>2
  <2> QED BY <1>2, <2>1, <2>2, <2>3 DEF TimeoutGoesOn
<1>3. CASE state = "RECEIVE"
  <2>1. ackState = "RECEIVE" /\ timeoutState = "ERROR"
    BY <1>3 DEF LinkInv, Prospects
  <2> QED BY <1>1, <1>3, <2>1 DEF Here, TimeoutGoesOn, Place
<1> QED BY <1>1, <1>2, <1>3

\* And a deadline.
LEMMA HandleGoesOn ==
  ASSUME LinkInv, TimeoutGoesOn, DetectBaud \/ Expire \/ Detected
  PROVE  Here <= Here' /\ TimeoutGoesOn'
<1>1. CASE DetectBaud
  BY <1>1 DEF DetectBaud, Here, TimeoutGoesOn, Place
<1>2. CASE Expire
  <2>1. /\ state = "WAIT" /\ state' = timeoutState /\ timeoutState # "WAIT"
    BY <1>2 DEF Expire, LinkInv, Prospects
  <2>2. Here = Place(ackState) /\ Here' = Place(timeoutState)
    BY <2>1 DEF Here
  <2> QED BY <2>1, <2>2 DEF TimeoutGoesOn
<1>3. CASE Detected
  BY <1>3 DEF Detected, ReadVersion, Send, SendElse, Here, TimeoutGoesOn, Place
<1> QED BY <1>1, <1>2, <1>3

LEMMA GoesOn ==
  ASSUME LinkInv, TimeoutGoesOn, [Next]_vars
  PROVE  TimeoutGoesOn' /\ (Restart \/ Here <= Here')
<1>1. CASE ReadAnswer
  <2>1. PICK answer : HandleReceive(answer) \/ Ask \/ HandleError
    BY <1>1 DEF ReadAnswer
  <2>2. CASE HandleError
    BY <2>2, HereIsPlace DEF HandleError, Here, TimeoutGoesOn
  <2> QED BY <2>1, <2>2, AskGoesOn, ReceiveGoesOn
<1>2. CASE Handle
  <2>1. CASE HandleError
    BY <2>1, HereIsPlace DEF HandleError, Here, TimeoutGoesOn
  <2> QED BY <1>2, <2>1, AskGoesOn, HandleGoesOn DEF Handle
<1>3. CASE Detected
  BY <1>3, HandleGoesOn
<1>4. CASE Restart
  BY <1>4 DEF Restart, TimeoutGoesOn
<1>5. CASE Quiet \/ Navigate \/ Receiver \/ Noise \/ Lose \/ Tick \/ UNCHANGED vars
  <2>1. UNCHANGED <<state, ackState, timeoutState>>
    BY <1>5 DEF Quiet, Navigate, Receiver, Noise, Lose, Tick, vars, fcVars
  <2>2. Here' = Here /\ (TimeoutGoesOn' <=> TimeoutGoesOn)
    BY <2>1 DEF Here, TimeoutGoesOn
  <2> QED BY <2>2, HereIsPlace
<1> QED BY <1>1, <1>2, <1>3, <1>4, <1>5 DEF Next, Update

\* The safety half of SetUpEnds: whatever is lost, late or refused, each step
\* leaves the set-up where it is or takes it on, towards RECEIVE or ERROR.
THEOREM SetUpGoesOneWay == Spec => NeverGoesBack
<1>1. Init => TimeoutGoesOn
  BY DEF Init, TimeoutGoesOn
<1>2. LinkInv /\ TimeoutGoesOn /\ [Next]_vars => TimeoutGoesOn' /\ [Restart \/ Here <= Here']_vars
  BY GoesOn
<1>3. IInv => LinkInv
  BY DEF IInv
<1> QED BY <1>1, <1>2, <1>3, Invariance, PTL DEF Spec, NeverGoesBack
=============================================================================
